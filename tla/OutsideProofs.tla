--------------------------- MODULE OutsideProofs ----------------------------
(***************************************************************************)
(* The repository and others, for any number of them: previews of pages    *)
(* and the images they show, the keys and the requests of other servers,   *)
(* the calls to them, copies of their media; and, beside the requests,     *)
(* quotas and the hourly tasks.                                            *)
(***************************************************************************)
EXTENDS MCOutside, FoldFacts

-----------------------------------------------------------------------------
(* Previews of pages. *)

(* Requests. *)
Asks == [pc : {"idle", "lookup", "bucket", "join", "joined", "generate", "failed", "upload", "store",
               "insert", "conflict", "upgrade", "again", "cleanRow", "cleanCheck", "cleanFile",
               "landed", "lost", "answered"},
         host : PreviewHosts, url : Urls, at : Hours, place : Images, res : PreviewRows,
         existing : PreviewRows, answer : Answers]

(* Before an image is uploaded, before its media row is stored, while the result *)
(* is on its way into the table, and when it may be seen by others.              *)
NothingUploaded == {"idle", "lookup", "bucket", "join", "joined", "generate", "failed", "upload", "lost"}
Inserting == {"insert", "conflict", "upgrade", "again"}
Ended == {"landed", "answered"}

(* The result of a request's own flight names its own image or none, and it does *)
(* as long as the image's media row is there.                                    *)
AskInv(a, r, picture) ==
    /\ r.pc \in NothingUploaded \cup {"store"} => picture = NoImage /\ r.res.image = NoImage
    /\ r.pc = "failed" => r.res.code \in ErrorCodes
    /\ r.pc \in {"upload", "store"} => r.res.code = ""
    /\ r.pc = "store" => r.place # NoImage
    /\ r.pc \in Inserting => r.res = Row("", IF picture = NoImage THEN NoImage ELSE a)
    /\ r.pc = "cleanRow" => r.res = Row("", a)
    /\ r.pc \in {"cleanCheck", "cleanFile"} => r.res = Row("", a) /\ picture = NoImage

ErrorsHaveNoImage(rows) == \A k \in PreviewKeys : rows[k].code # "" => rows[k].image = NoImage

PreviewTypes ==
    /\ hour \in Hours
    /\ previews \in [PreviewKeys -> PreviewRows]
    /\ ErrorsHaveNoImage(previews)
    /\ pictures \in [Askers -> Images]
    /\ pictureFiles \subseteq Askers
    /\ ask \in [Askers -> Asks]
    /\ trouble \subseteq Troubles

AsksInv == \A a \in Askers : AskInv(a, ask[a], pictures[a])

(* The images that others may show. *)
ShownImages == {x \in Askers : ask[x].pc \in Ended /\ pictures[x] # NoImage}
Available == ShownImages \cup {NoImage}

(* What a request shows, or will: its own image only, before it is published.    *)
AskShows(a, r, available) ==
    /\ r.existing.image \in available
    /\ r.res.image \in available \cup {x \in {a} : r.pc \notin Ended}

Calm == trouble \cap {"unsure", "cleanup failed", "overlap"} = {}

ShownInv ==
    /\ \A k \in PreviewKeys : previews[k].image \in Available
    /\ \A a \in Askers : AskShows(a, ask[a], Available)

(* An image without a preview is still in its own flight's hands. *)
UsedInv == \A a \in ShownImages : \E k \in PreviewKeys : previews[k].image = a

(* Files: places are names of those who wrote there, what is stored or will be   *)
(* has its file, and nobody uses the place whose file is about to be removed.    *)
Placed == {a \in Askers : ask[a].pc \notin NothingUploaded}
PlacesInv == \A a \in Askers : {pictures[a], ask[a].place} \subseteq Placed \cup {NoImage}

FilesInv ==
    /\ \A a \in Askers : pictures[a] # NoImage => pictures[a] \in pictureFiles
    /\ \A a \in Askers : ask[a].pc = "store" => ask[a].place \in pictureFiles
    /\ \A a, b \in Askers : ask[a].pc = "cleanFile" =>
           /\ pictures[b] # NoImage => pictures[b] # ask[a].place
           /\ ask[b].pc = "store" => ask[b].place # ask[a].place

PreviewInv ==
    /\ PreviewTypes
    /\ AsksInv
    /\ PlacesInv
    /\ Calm => ShownInv /\ FilesInv
    /\ trouble = {} => UsedInv

LEMMA OneAskMoves ==
    ASSUME PreviewInv, NEW a \in Askers, NEW r \in Asks, ask' = [ask EXCEPT ![a] = r],
           AskInv(a, r, pictures'[a]), \A b \in Askers \ {a} : pictures'[b] = pictures[b]
    PROVE  /\ ask' \in [Askers -> Asks] /\ AsksInv'
           /\ ask'[a] = r /\ \A b \in Askers \ {a} : ask'[b] = ask[b]
<1>1. ask \in [Askers -> Asks]
  BY DEF PreviewInv, PreviewTypes
<1>2. ask' \in [Askers -> Asks] /\ ask'[a] = r /\ \A b \in Askers \ {a} : ask'[b] = ask[b]
  BY <1>1
<1>3. \A b \in Askers : AskInv(b, ask[b], pictures[b])
  BY DEF PreviewInv, AsksInv
<1>4. \A b \in Askers : AskInv(b, ask'[b], pictures'[b])
  BY <1>2, <1>3, Zenon
<1> QED
  BY <1>2, <1>4 DEF AsksInv

(* What one request's step has to respect for the images that are shown. *)
LEMMA ShownStays ==
    ASSUME ShownInv, NEW a \in Askers, NEW r, ask[a].pc \notin Ended,
           ask'[a] = r, \A b \in Askers \ {a} : ask'[b] = ask[b] /\ pictures'[b] = pictures[b],
           \A k \in PreviewKeys : previews'[k].image \in Available \/
                                  (previews'[k].image = a /\ r.pc \in Ended /\ pictures'[a] # NoImage),
           r.existing.image \in Available,
           r.res.image \in Available \/ (r.res.image = a /\ (r.pc \in Ended => pictures'[a] # NoImage))
    PROVE  ShownInv'
<1>1. Available \subseteq Available' /\ (r.pc \in Ended /\ pictures'[a] # NoImage => a \in Available')
  BY DEF Available, ShownImages
<1>2. \A k \in PreviewKeys : previews'[k].image \in Available'
  <2> HIDE DEF Available
  <2> QED
    BY <1>1
<1>3. AskShows(a, r, Available')
  BY <1>1 DEF AskShows
<1>4. ASSUME NEW b \in Askers \ {a} PROVE AskShows(b, ask[b], Available')
  <2>1. AskShows(b, ask[b], Available)
    BY DEF ShownInv
  <2> QED
    BY <1>1, <2>1 DEF AskShows
<1>5. \A b \in Askers : AskShows(b, ask'[b], Available')
  BY <1>3, <1>4, Zenon
<1> QED
  BY <1>2, <1>5 DEF ShownInv

LEMMA UsedStays ==
    ASSUME UsedInv, NEW a \in Askers, NEW r,
           ask'[a] = r, \A b \in Askers \ {a} : ask'[b] = ask[b] /\ pictures'[b] = pictures[b],
           NoImage \notin Askers,
           \A k \in PreviewKeys : previews[k].image # NoImage => previews'[k].image = previews[k].image,
           r.pc \in Ended /\ pictures'[a] # NoImage => \E k \in PreviewKeys : previews'[k].image = a
    PROVE  UsedInv'
<1> SUFFICES ASSUME NEW b \in ShownImages' PROVE \E k \in PreviewKeys : previews'[k].image = b
  BY DEF UsedInv
<1>1. CASE b = a
  BY <1>1 DEF ShownImages
<1>2. CASE b # a
  <2>1. b \in ShownImages /\ b # NoImage
    BY <1>2 DEF ShownImages
  <2>2. PICK k \in PreviewKeys : previews[k].image = b
    BY <2>1 DEF UsedInv
  <2> QED
    BY <2>1, <2>2
<1> QED
  BY <1>1, <1>2

LEMMA PlacesStay ==
    ASSUME PlacesInv, NEW a \in Askers, NEW r,
           ask'[a] = r, \A b \in Askers \ {a} : ask'[b] = ask[b] /\ pictures'[b] = pictures[b],
           {pictures'[a], r.place} \subseteq Placed \cup {x \in {a} : r.pc \notin NothingUploaded} \cup {NoImage},
           ask[a].pc \notin NothingUploaded => r.pc \notin NothingUploaded
    PROVE  PlacesInv'
<1>1. Placed \subseteq Placed' /\ {x \in {a} : r.pc \notin NothingUploaded} \subseteq Placed'
  BY DEF Placed
<1>2. {pictures'[a], r.place} \subseteq Placed' \cup {NoImage}
  BY <1>1
<1>3. ASSUME NEW b \in Askers \ {a} PROVE {pictures[b], ask[b].place} \subseteq Placed' \cup {NoImage}
  <2>1. {pictures[b], ask[b].place} \subseteq Placed \cup {NoImage}
    BY DEF PlacesInv
  <2> QED
    BY <1>1, <2>1
<1>4. ASSUME NEW b \in Askers PROVE {pictures'[b], ask'[b].place} \subseteq Placed' \cup {NoImage}
  <2>1. CASE b = a
    BY <1>2, <2>1
  <2>2. CASE b # a
    BY <1>3, <2>2
  <2> QED
    BY <2>1, <2>2
<1> QED
  BY <1>4 DEF PlacesInv

(* A step that uploads and removes nothing. *)
LEMMA FilesStay ==
    ASSUME FilesInv, NEW a \in Askers, NEW r,
           ask'[a] = r, \A b \in Askers \ {a} : ask'[b] = ask[b], pictures' = pictures, pictureFiles' = pictureFiles,
           r.pc \notin {"store", "cleanFile"}
    PROVE  FilesInv'
<1>1. \A b \in Askers : ask'[b].pc \in {"store", "cleanFile"} => b # a /\ ask'[b] = ask[b]
  OBVIOUS
<1> QED
  BY <1>1 DEF FilesInv

LEMMA CalmBefore ==
    ASSUME trouble \subseteq trouble'
    PROVE  (Calm' => Calm) /\ (trouble' = {} => trouble = {} /\ Calm')
  BY DEF Calm

(* A step that leaves the images alone. *)
LEMMA QuietAsk ==
    ASSUME PreviewInv, NEW a \in Askers, NEW r \in Asks, ask' = [ask EXCEPT ![a] = r], ask[a].pc \notin Ended,
           UNCHANGED <<hour, pictures, pictureFiles>>, trouble \subseteq trouble', trouble' \subseteq Troubles,
           previews' \in [PreviewKeys -> PreviewRows], ErrorsHaveNoImage(previews'),
           AskInv(a, r, pictures[a]), r.pc \notin {"store", "cleanFile"}, r.place \in {ask[a].place, NoImage},
           ask[a].pc \notin NothingUploaded => r.pc \notin NothingUploaded,
           Calm' => /\ r.existing.image \in Available
                    /\ r.res.image \in Available \/ (r.res.image = a /\ (r.pc \in Ended => pictures[a] # NoImage))
                    /\ \A k \in PreviewKeys :
                           previews'[k].image \in Available \/
                           (previews'[k].image = a /\ r.pc \in Ended /\ pictures[a] # NoImage),
           trouble' = {} => /\ \A k \in PreviewKeys : previews[k].image # NoImage =>
                                   previews'[k].image = previews[k].image
                            /\ r.pc \in Ended /\ pictures[a] # NoImage =>
                                   \E k \in PreviewKeys : previews'[k].image = a
    PROVE  PreviewInv'
<1>1. /\ pictures' = pictures /\ pictureFiles' = pictureFiles
      /\ \A b \in Askers \ {a} : pictures'[b] = pictures[b]
      /\ AskInv(a, r, pictures'[a])
  OBVIOUS
<1>2. ask' \in [Askers -> Asks] /\ AsksInv' /\ ask'[a] = r /\ \A b \in Askers \ {a} : ask'[b] = ask[b]
  BY <1>1, OneAskMoves
<1>3. PreviewTypes'
  BY <1>2 DEF PreviewInv, PreviewTypes
<1>4. PlacesInv'
  <2>1. PlacesInv
    BY DEF PreviewInv
  <2>2. {pictures'[a], r.place} \subseteq Placed \cup {x \in {a} : r.pc \notin NothingUploaded} \cup {NoImage}
    BY <1>1, <2>1 DEF PlacesInv
  <2> QED
    BY <1>1, <1>2, <2>1, <2>2, PlacesStay
<1>5. ASSUME Calm' PROVE ShownInv' /\ FilesInv'
  <2>1. ShownInv /\ FilesInv
    BY <1>5, CalmBefore DEF PreviewInv
  <2>2. FilesInv'
    BY <1>1, <1>2, <2>1, FilesStay
  <2>3. ShownInv'
    BY <1>1, <1>2, <1>5, <2>1, ShownStays
  <2> QED
    BY <2>2, <2>3
<1>6. ASSUME trouble' = {} PROVE UsedInv'
  <2>1. UsedInv
    BY <1>6, CalmBefore DEF PreviewInv
  <2> QED
    BY <1>1, <1>2, <1>6, <2>1, UsedStays, PreviewAssumption
<1> QED
  BY <1>2, <1>3, <1>4, <1>5, <1>6 DEF PreviewInv

(* A step that also leaves the table alone. *)
LEMMA QuietTable ==
    ASSUME PreviewInv, NEW a \in Askers, NEW r \in Asks, ask' = [ask EXCEPT ![a] = r], ask[a].pc \notin Ended,
           UNCHANGED <<hour, previews, pictures, pictureFiles>>, trouble \subseteq trouble', trouble' \subseteq Troubles,
           AskInv(a, r, pictures[a]), r.pc \notin {"store", "cleanFile"}, r.place \in {ask[a].place, NoImage},
           ask[a].pc \notin NothingUploaded => r.pc \notin NothingUploaded,
           Calm' => /\ r.existing.image \in Available
                    /\ r.res.image \in Available \/ (r.res.image = a /\ r.pc \notin Ended)
                    /\ r.pc \in Ended => pictures[a] = NoImage
    PROVE  PreviewInv'
<1>1. previews' \in [PreviewKeys -> PreviewRows] /\ ErrorsHaveNoImage(previews')
  BY DEF PreviewInv, PreviewTypes
<1>2. Calm' => \A k \in PreviewKeys : previews'[k].image \in Available
  <2> SUFFICES ASSUME Calm' PROVE \A k \in PreviewKeys : previews[k].image \in Available
    OBVIOUS
  <2> QED
    BY CalmBefore DEF PreviewInv, ShownInv
<1>3. trouble' = {} => Calm'
  BY CalmBefore
<1> QED
  BY <1>1, <1>2, <1>3, QuietAsk

(* What is known of a request and of the row it asks for. *)
LEMMA AskFacts ==
    ASSUME PreviewInv, NEW a \in Askers
    PROVE  /\ ask[a] \in Asks /\ AskInv(a, ask[a], pictures[a])
           /\ KeyOf(a) \in PreviewKeys /\ previews[KeyOf(a)] \in PreviewRows
           /\ previews \in [PreviewKeys -> PreviewRows] /\ ErrorsHaveNoImage(previews)
           /\ pictures[a] \in Images /\ hour \in Hours /\ trouble \subseteq Troubles
           /\ NoImage \in Available /\ NoImage \in Images /\ a \in Images
           /\ Calm => previews[KeyOf(a)].image \in Available /\ AskShows(a, ask[a], Available)
<1>1. /\ ask[a] \in Asks /\ AskInv(a, ask[a], pictures[a]) /\ previews \in [PreviewKeys -> PreviewRows]
      /\ pictures[a] \in Images /\ hour \in Hours /\ ErrorsHaveNoImage(previews) /\ trouble \subseteq Troubles
  BY DEF PreviewInv, PreviewTypes, AsksInv
<1>2. KeyOf(a) \in PreviewKeys
  BY <1>1 DEF KeyOf, PreviewKeys, Asks
<1>3. Calm => previews[KeyOf(a)].image \in Available /\ AskShows(a, ask[a], Available)
  BY <1>2 DEF PreviewInv, ShownInv
<1> QED
  BY <1>1, <1>2, <1>3 DEF Available, Images

LEMMA NewAskIs ==
    /\ NewAsk \in Asks /\ NewAsk.pc = "idle" /\ NewAsk.place = NoImage /\ NewAsk.res = NoRow /\ NewAsk.existing = NoRow
    /\ NoRow \in PreviewRows /\ NoRow.image = NoImage /\ NoRow.code = "absent"
<1>1. (CHOOSE h \in PreviewHosts : TRUE) \in PreviewHosts /\ (CHOOSE u \in Urls : TRUE) \in Urls
  BY PreviewAssumption
<1>2. 0 \in Hours
  BY PreviewAssumption DEF Hours
<1>3. NoRow \in PreviewRows /\ NoRow.image = NoImage /\ NoRow.code = "absent"
  BY DEF NoRow, Row, PreviewRows, Images
<1> HIDE DEF NoRow
<1> QED
  BY <1>1, <1>2, <1>3 DEF NewAsk, Asks, Images, Answers

LEMMA AnswerIs ==
    ASSUME NEW row \in PreviewRows
    PROVE  /\ AnsweredWith(row) \in Asks /\ AnsweredWith(row).pc = "answered" /\ AnsweredWith(row).res = row
           /\ AnsweredWith(row).place = NoImage /\ AnsweredWith(row).existing = NoRow
<1>1. AnswerTo(row) \in Answers
  BY DEF AnswerTo, Answers
<1> HIDE DEF AnswerTo
<1> QED
  BY <1>1, NewAskIs DEF AnsweredWith, Asks

(* An answer that ends a request before it has uploaded anything. *)
LEMMA AnsweredInv ==
    ASSUME PreviewInv, NEW a \in Askers, ask[a].pc \in NothingUploaded, NEW row \in PreviewRows, Answered(a, row),
           UNCHANGED <<hour, previews, pictures, pictureFiles, trouble>>, Calm => row.image \in Available
    PROVE  PreviewInv'
<1> DEFINE r == AnsweredWith(row)
<1>1. r \in Asks /\ r.pc = "answered" /\ r.res = row /\ r.place = NoImage /\ r.existing = NoRow
  BY AnswerIs
<1>2. ask' = [ask EXCEPT ![a] = r]
  BY DEF Answered
<1> HIDE DEF r
<1>3. AskInv(a, r, pictures[a])
  BY <1>1 DEF AskInv, NothingUploaded, Inserting
<1>4. pictures[a] = NoImage /\ NoImage \in Available /\ trouble \subseteq Troubles
  BY AskFacts DEF AskInv
<1>5. ask[a].pc \notin Ended /\ r.pc \notin NothingUploaded /\ r.existing.image \in Available
  BY <1>1, <1>4, NewAskIs DEF NothingUploaded, Ended
<1>6. Calm' => r.res.image \in Available
  BY <1>1 DEF Calm
<1> QED
  BY <1>1, <1>2, <1>3, <1>4, <1>5, <1>6, QuietTable

LEMMA RowIs ==
    ASSUME NEW code \in ErrorCodes \cup {""}, NEW i \in Images
    PROVE  /\ Row(code, i) \in PreviewRows /\ Row(code, i).image = i /\ Row(code, i).code = code
           /\ Row(code, i) # NoRow
  BY DEF Row, PreviewRows, NoRow, ErrorCodes

(* A step that changes where a request is, before it has uploaded anything. *)
LEMMA EarlyInv ==
    ASSUME PreviewInv, NEW a \in Askers, NEW r \in Asks, ask' = [ask EXCEPT ![a] = r],
           ask[a].pc \in NothingUploaded, r.pc \in NothingUploaded \cup {"insert"}, r.place = ask[a].place,
           r.existing = ask[a].existing, r.res.image = NoImage,
           r.pc = "failed" => r.res.code \in ErrorCodes,
           r.pc \in {"upload", "insert"} => r.res = Row("", NoImage),
           UNCHANGED <<hour, previews, pictures, pictureFiles, trouble>>
    PROVE  PreviewInv'
<1>1. pictures[a] = NoImage /\ NoImage \in Available /\ trouble \subseteq Troubles
  BY AskFacts DEF AskInv
<1>2. AskInv(a, r, pictures[a])
  <2>1. Row("", NoImage).code = "" /\ Row("", IF pictures[a] = NoImage THEN NoImage ELSE a) = Row("", NoImage)
    BY <1>1 DEF Row
  <2>2. r.pc \in {"upload", "store"} => r.res.code = ""
    BY <2>1 DEF NothingUploaded
  <2>3. r.pc \in Inserting => r.res = Row("", IF pictures[a] = NoImage THEN NoImage ELSE a)
    BY <2>1 DEF Inserting, NothingUploaded
  <2> QED
    BY <1>1, <2>2, <2>3 DEF AskInv, NothingUploaded
<1>3. Calm' => r.existing.image \in Available
  BY AskFacts DEF AskShows, Calm
<1>4. r.pc \notin Ended /\ ask[a].pc \notin Ended /\ r.pc \notin {"store", "cleanFile"}
  BY DEF NothingUploaded, Ended
<1> QED
  BY <1>1, <1>2, <1>3, <1>4, QuietTable

LEMMA PreviewUrlInv ==
    ASSUME PreviewInv, NEW a \in Askers, NEW host \in PreviewHosts, NEW u \in Urls, NEW h \in AskedHours,
           PreviewUrl(a, host, u, h)
    PROVE  PreviewInv'
<1>1. ask[a].pc = "idle" /\ UNCHANGED <<hour, previews, pictures, pictureFiles, trouble>>
  BY DEF PreviewUrl, AskAt
<1>2. ask[a].pc \in NothingUploaded /\ NoImage \in Images /\ NoImage \in Available
  BY <1>1, AskFacts DEF NothingUploaded
<1>3. CASE u \in Refused
  <2>1. Answered(a, Row("invalidHost", NoImage))
    BY <1>3 DEF PreviewUrl
  <2>2. Row("invalidHost", NoImage) \in PreviewRows /\ Row("invalidHost", NoImage).image = NoImage
    BY <1>2, RowIs DEF ErrorCodes
  <2> QED
    BY <1>1, <1>2, <2>1, <2>2, AnsweredInv
<1>4. CASE u \notin Refused
  <2> DEFINE r == [ask[a] EXCEPT !.pc = "lookup", !.host = host, !.url = u, !.at = h]
  <2>1. ask' = [ask EXCEPT ![a] = r]
    BY <1>4 DEF PreviewUrl
  <2>2. ask[a] \in Asks /\ ask[a].res.image = NoImage
    BY <1>2, AskFacts DEF AskInv
  <2>3. h \in Hours
    BY PreviewAssumption DEF Hours
  <2>4. /\ r \in Asks /\ r.pc = "lookup" /\ r.place = ask[a].place /\ r.existing = ask[a].existing
        /\ r.res = ask[a].res
    BY <2>2, <2>3 DEF Asks
  <2> HIDE DEF r
  <2>5. r.pc \in NothingUploaded
    BY <2>4 DEF NothingUploaded
  <2> QED
    BY <1>1, <1>2, <2>1, <2>2, <2>4, <2>5, EarlyInv
<1> QED
  BY <1>3, <1>4

(* A step that only moves on, before anything is uploaded. *)
LEMMA MovesOn ==
    ASSUME PreviewInv, NEW a \in Askers, NEW pc \in {"bucket", "join", "joined", "generate", "lost"}, AskGoes(a, pc),
           ask[a].pc \in NothingUploaded, UNCHANGED <<hour, previews, pictures, pictureFiles, trouble>>
    PROVE  PreviewInv'
<1> DEFINE r == [ask[a] EXCEPT !.pc = pc]
<1>1. ask' = [ask EXCEPT ![a] = r]
  BY DEF AskGoes
<1>2. ask[a] \in Asks /\ ask[a].res.image = NoImage
  BY AskFacts DEF AskInv
<1>3. r \in Asks /\ r.pc = pc /\ r.place = ask[a].place /\ r.existing = ask[a].existing /\ r.res = ask[a].res
  BY <1>2 DEF Asks
<1> HIDE DEF r
<1>4. r.pc \in NothingUploaded /\ r.pc \notin {"failed", "upload", "insert"}
  BY <1>3 DEF NothingUploaded
<1> QED
  BY <1>1, <1>2, <1>3, <1>4, EarlyInv

LEMMA LookUpPreviewInv ==
    ASSUME PreviewInv, NEW a \in Askers, LookUpPreview(a)
    PROVE  PreviewInv'
<1>1. ask[a].pc = "lookup" /\ UNCHANGED <<hour, previews, pictures, pictureFiles, trouble>>
  BY DEF LookUpPreview, AskAt
<1>2. ask[a].pc \in NothingUploaded /\ NoImage \in Images /\ NoImage \in Available
  BY <1>1, AskFacts DEF NothingUploaded
<1>3. CASE Answered(a, Row("unknown", NoImage))
  <2>1. Row("unknown", NoImage) \in PreviewRows /\ Row("unknown", NoImage).image = NoImage
    BY <1>2, RowIs DEF ErrorCodes
  <2> QED
    BY <1>1, <1>2, <1>3, <2>1, AnsweredInv
<1>4. CASE AskGoes(a, "bucket")
  BY <1>1, <1>2, <1>4, MovesOn
<1>5. CASE Answered(a, previews[KeyOf(a)])
  <2>1. previews[KeyOf(a)] \in PreviewRows /\ (Calm => previews[KeyOf(a)].image \in Available)
    BY AskFacts
  <2> QED
    BY <1>1, <1>2, <1>5, <2>1, AnsweredInv
<1> QED
  BY <1>3, <1>4, <1>5 DEF LookUpPreview

(* INSERT ... ON CONFLICT DO NOTHING, and an UPDATE of an error. *)
MayReplace(old, rows, k, row) == rows = old \/ (rows = [old EXCEPT ![k] = row] /\ old[k].image = NoImage)

RowsFit(old, rows, row) ==
    /\ rows \in [PreviewKeys -> PreviewRows] /\ ErrorsHaveNoImage(rows)
    /\ \A j \in PreviewKeys : old[j].image # NoImage => rows[j].image = old[j].image
    /\ \A j \in PreviewKeys : rows[j] = old[j] \/ rows[j] = row

LEMMA InsertedIs ==
    ASSUME NEW old \in [PreviewKeys -> PreviewRows], ErrorsHaveNoImage(old),
           NEW k \in PreviewKeys, NEW row \in PreviewRows, row.code = "" \/ row.image = NoImage,
           NEW rows, MayReplace(old, rows, k, row)
    PROVE  RowsFit(old, rows, row)
<1>1. rows \in [PreviewKeys -> PreviewRows] /\ \A j \in PreviewKeys : rows[j] = old[j] \/ rows[j] = row
  BY DEF MayReplace
<1>2. ErrorsHaveNoImage(rows)
  BY <1>1 DEF ErrorsHaveNoImage
<1>3. \A j \in PreviewKeys : old[j].image # NoImage => rows[j].image = old[j].image
  BY DEF MayReplace
<1> QED
  BY <1>1, <1>2, <1>3 DEF RowsFit

LEMMA FixBucketInv ==
    ASSUME PreviewInv, NEW a \in Askers, FixBucket(a)
    PROVE  PreviewInv'
<1>1. ask[a].pc = "bucket" /\ UNCHANGED <<hour, pictures, pictureFiles, trouble>>
  BY DEF FixBucket, AskAt
<1>2. ask[a].pc \in NothingUploaded /\ NoImage \in Images /\ NoImage \in Available /\ pictures[a] = NoImage
  BY <1>1, AskFacts DEF NothingUploaded, AskInv
<1>3. CASE ask' = [ask EXCEPT ![a].pc = "lookup", ![a].at = hour] /\ UNCHANGED previews
  <2> DEFINE r == [ask[a] EXCEPT !.pc = "lookup", !.at = hour]
  <2>1. ask' = [ask EXCEPT ![a] = r]
    BY <1>3
  <2>2. ask[a] \in Asks /\ ask[a].res.image = NoImage /\ hour \in Hours
    BY <1>2, AskFacts DEF AskInv
  <2>3. /\ r \in Asks /\ r.pc = "lookup" /\ r.place = ask[a].place /\ r.existing = ask[a].existing
        /\ r.res = ask[a].res
    BY <2>2 DEF Asks
  <2> HIDE DEF r
  <2>4. r.pc \in NothingUploaded
    BY <2>3 DEF NothingUploaded
  <2>5. r.pc \in NothingUploaded \cup {"insert"} /\ r.pc \notin {"failed", "upload", "insert"}
    BY <2>3, <2>4
  <2>6. r.res.image = NoImage /\ ask[a].pc \in NothingUploaded
    BY <1>2, <2>2, <2>3
  <2>7. UNCHANGED <<hour, previews, pictures, pictureFiles, trouble>>
    BY <1>1, <1>3
  <2> QED
    BY <2>1, <2>3, <2>5, <2>6, <2>7, EarlyInv
<1>4. CASE AskGoes(a, "join") /\ UNCHANGED previews
  BY <1>1, <1>2, <1>4, MovesOn
<1> DEFINE row == Row("invalidHost", NoImage)
<1>5. CASE Answered(a, row) /\ previews' \in {previews, Inserted(KeyOf(a), row)}
  <2> DEFINE r == AnsweredWith(row)
  <2>1. row \in PreviewRows /\ row.image = NoImage
    BY <1>2, RowIs DEF ErrorCodes
  <2> HIDE DEF row
  <2>2. r \in Asks /\ r.pc = "answered" /\ r.res = row /\ r.place = NoImage /\ r.existing = NoRow
    BY <2>1, AnswerIs
  <2>3. ask' = [ask EXCEPT ![a] = r]
    BY <1>5 DEF Answered
  <2> HIDE DEF r
  <2>4. AskInv(a, r, pictures[a])
    BY <2>2 DEF AskInv, NothingUploaded, Inserting
  <2>5. KeyOf(a) \in PreviewKeys /\ NoRow.image = NoImage
    BY AskFacts, NewAskIs
  <2>6. MayReplace(previews, previews', KeyOf(a), row)
    BY <1>5, <2>5 DEF Inserted, MayReplace
  <2>7. RowsFit(previews, previews', row)
    BY <2>1, <2>5, <2>6, InsertedIs, AskFacts
  <2>8. Calm' => \A k \in PreviewKeys : previews'[k].image \in Available
    <3> SUFFICES ASSUME Calm PROVE \A k \in PreviewKeys : previews'[k].image \in Available
      BY <1>1 DEF Calm
    <3>1. \A k \in PreviewKeys : previews[k].image \in Available
      BY DEF PreviewInv, ShownInv
    <3> QED
      BY <1>2, <2>1, <2>7, <3>1 DEF RowsFit
  <2>9. ask[a].pc \notin Ended /\ r.pc \notin NothingUploaded /\ r.existing.image \in Available
    BY <1>1, <1>2, <2>2, <2>5 DEF NothingUploaded, Ended
  <2>10. trouble \subseteq Troubles
    BY AskFacts
  <2>11. r.res.image \in Available /\ r.pc \notin {"store", "cleanFile"} /\ r.place \in {ask[a].place, NoImage}
    BY <1>2, <2>1, <2>2
  <2> QED
    BY <1>1, <1>2, <2>2, <2>3, <2>4, <2>7, <2>8, <2>9, <2>10, <2>11, QuietAsk DEF RowsFit
<1> QED
  BY <1>3, <1>4, <1>5 DEF FixBucket

LEMMA JoinPreviewInv ==
    ASSUME PreviewInv, NEW a \in Askers, JoinPreview(a)
    PROVE  PreviewInv'
<1>1. ask[a].pc \in NothingUploaded /\ UNCHANGED <<hour, previews, pictures, pictureFiles, trouble>>
  BY DEF JoinPreview, AskAt, NothingUploaded
<1>2. AskGoes(a, "joined") \/ AskGoes(a, "generate")
  BY DEF JoinPreview
<1> QED
  BY <1>1, <1>2, MovesOn

LEMMA PreviewIs ==
    ASSUME NEW page \in Pages
    PROVE  Preview(page).code \in {"", "panic", "unsupported", "notFound", "unknown"}
<1> DEFINE Codes == {"", "panic", "unsupported", "notFound", "unknown"}
<1>1. Unsupported.code \in Codes
  BY DEF Unsupported, Result
<1>2. GenerateOEmbedPreview(page).code \in Codes
  BY PreviewAssumption DEF GenerateOEmbedPreview, Unsupported, Result
<1>3. GenerateOpenGraphPreview(page).code \in Codes
  BY DEF GenerateOpenGraphPreview, Unsupported, Result
<1>4. GenerateCalculatedPreview(page).code \in Codes
  BY DEF GenerateCalculatedPreview, Unsupported, Result
<1> HIDE DEF Codes
<1> QED
  BY <1>1, <1>2, <1>3, <1>4 DEF Preview, Codes

LEMMA GeneratePreviewInv ==
    ASSUME PreviewInv, NEW a \in Askers, GeneratePreview(a)
    PROVE  PreviewInv'
<1>1. ask[a].pc = "generate" /\ UNCHANGED <<hour, previews, pictures, pictureFiles, trouble>>
  BY DEF GeneratePreview, AskAt
<1>2. ask[a].pc \in NothingUploaded /\ NoImage \in Images /\ ask[a] \in Asks
  BY <1>1, AskFacts DEF NothingUploaded
<1>3. PICK page \in Pages :
          LET made == Preview(page)
              code == IF made.code = "unsupported" THEN "notFound" ELSE made.code
              next == IF code # "" THEN "failed" ELSE IF made.image THEN "upload" ELSE "insert"
          IN  IF code = "panic" THEN AskGoes(a, "lost")
              ELSE ask' = [ask EXCEPT ![a].pc = next, ![a].res = Row(code, NoImage)]
  BY DEF GeneratePreview
<1> DEFINE made == Preview(page)
           code == IF made.code = "unsupported" THEN "notFound" ELSE made.code
           next == IF code # "" THEN "failed" ELSE IF made.image THEN "upload" ELSE "insert"
           r == [ask[a] EXCEPT !.pc = next, !.res = Row(code, NoImage)]
<1>4. code \in {"", "panic", "notFound", "unknown"}
  BY PreviewIs
<1>5. /\ next \in {"failed", "upload", "insert"}
      /\ next = "failed" <=> code # ""
  OBVIOUS
<1>6. CASE code = "panic"
  <2>1. AskGoes(a, "lost")
    BY <1>3, <1>6
  <2> QED
    BY <1>1, <1>2, <2>1, MovesOn
<1>7. CASE code # "panic"
  <2>1. ask' = [ask EXCEPT ![a] = r]
    BY <1>3, <1>7
  <2> HIDE DEF code, next
  <2>2. code \in ErrorCodes \cup {""}
    BY <1>4, <1>7 DEF ErrorCodes
  <2>3. Row(code, NoImage) \in PreviewRows /\ Row(code, NoImage).image = NoImage /\ Row(code, NoImage).code = code
    BY <1>2, <2>2, RowIs
  <2>4. /\ r \in Asks /\ r.pc = next /\ r.place = ask[a].place /\ r.existing = ask[a].existing
        /\ r.res = Row(code, NoImage)
    BY <1>2, <1>5, <2>3 DEF Asks
  <2> HIDE DEF r
  <2>5. r.pc \in NothingUploaded \cup {"insert"}
    BY <1>5, <2>4 DEF NothingUploaded
  <2>6. r.pc = "failed" => r.res.code \in ErrorCodes
    BY <1>5, <2>2, <2>3, <2>4
  <2>7. r.pc \in {"upload", "insert"} => r.res = Row("", NoImage)
    BY <1>5, <2>4
  <2> QED
    BY <1>1, <1>2, <2>1, <2>3, <2>4, <2>5, <2>6, <2>7, EarlyInv
<1> QED
  BY <1>6, <1>7

(* A step that leaves the images alone and may add a row. *)
LEMMA TableInv ==
    ASSUME PreviewInv, NEW a \in Askers, NEW r \in Asks, ask' = [ask EXCEPT ![a] = r], ask[a].pc \notin Ended,
           UNCHANGED <<hour, pictures, pictureFiles>>, trouble \subseteq trouble', trouble' \subseteq Troubles,
           NEW row, RowsFit(previews, previews', row),
           AskInv(a, r, pictures[a]), r.pc \notin {"store", "cleanFile"}, r.place = ask[a].place,
           ask[a].pc \notin NothingUploaded => r.pc \notin NothingUploaded,
           Calm' => /\ r.existing.image \in Available
                    /\ r.res.image \in Available \/ (r.res.image = a /\ (r.pc \in Ended => pictures[a] # NoImage))
                    /\ \/ previews' = previews
                       \/ row.image \in Available
                       \/ row.image = a /\ r.pc \in Ended /\ pictures[a] # NoImage,
           trouble' = {} => (r.pc \in Ended /\ pictures[a] # NoImage => \E k \in PreviewKeys : previews'[k].image = a)
    PROVE  PreviewInv'
<1>1. /\ previews' \in [PreviewKeys -> PreviewRows] /\ ErrorsHaveNoImage(previews')
      /\ \A j \in PreviewKeys : previews[j].image # NoImage => previews'[j].image = previews[j].image
      /\ \A j \in PreviewKeys : previews'[j] = previews[j] \/ previews'[j] = row
  BY DEF RowsFit
<1>2. ASSUME Calm', NEW k \in PreviewKeys
      PROVE  \/ previews'[k].image \in Available
             \/ previews'[k].image = a /\ r.pc \in Ended /\ pictures[a] # NoImage
  <2>1. previews[k].image \in Available
    BY <1>2, CalmBefore DEF PreviewInv, ShownInv
  <2>2. CASE previews'[k] = previews[k]
    BY <2>1, <2>2
  <2>3. CASE previews'[k] = row /\ previews'[k] # previews[k]
    BY <1>2, <2>3
  <2> QED
    BY <1>1, <2>2, <2>3
<1> QED
  BY <1>1, <1>2, QuietAsk

LEMMA SameRowsFit ==
    ASSUME PreviewInv, previews' = previews
    PROVE  RowsFit(previews, previews', NoRow)
  BY DEF PreviewInv, PreviewTypes, RowsFit

(* A request after one of its fields has changed. *)
LEMMA AskPc ==
    ASSUME NEW x \in Asks, NEW pc \in {"insert", "conflict", "upgrade", "again", "cleanCheck", "cleanFile", "landed"}
    PROVE  LET r == [x EXCEPT !.pc = pc]
           IN  /\ r \in Asks /\ r.pc = pc /\ r.place = x.place /\ r.existing = x.existing /\ r.res = x.res
  BY DEF Asks

LEMMA InsertErrorInv ==
    ASSUME PreviewInv, NEW a \in Askers, InsertError(a)
    PROVE  PreviewInv'
<1> DEFINE r == [ask[a] EXCEPT !.pc = "landed"]
<1>1. /\ ask[a].pc = "failed" /\ UNCHANGED <<hour, pictures, pictureFiles, trouble>>
      /\ previews' \in {previews, Inserted(KeyOf(a), ask[a].res)} /\ ask' = [ask EXCEPT ![a] = r]
  BY DEF InsertError, AskAt, AskGoes
<1>2. /\ ask[a].res.image = NoImage /\ ask[a].res.code \in ErrorCodes /\ pictures[a] = NoImage /\ ask[a] \in Asks
      /\ NoImage \in Available /\ KeyOf(a) \in PreviewKeys /\ trouble \subseteq Troubles
  BY <1>1, AskFacts DEF AskInv, NothingUploaded
<1>3. r \in Asks /\ r.pc = "landed" /\ r.place = ask[a].place /\ r.existing = ask[a].existing /\ r.res = ask[a].res
  BY <1>2, AskPc
<1>4. MayReplace(previews, previews', KeyOf(a), ask[a].res) /\ ask[a].res \in PreviewRows
  BY <1>1, <1>2, NewAskIs DEF Inserted, MayReplace, Asks
<1>5. RowsFit(previews, previews', ask[a].res)
  BY <1>2, <1>4, InsertedIs, AskFacts
<1> HIDE DEF r
<1>6. AskInv(a, r, pictures[a])
  BY <1>3 DEF AskInv, NothingUploaded, Inserting
<1>7. Calm' => r.existing.image \in Available
  BY <1>1, <1>3, AskFacts DEF AskShows, Calm
<1>8. ask[a].pc \notin Ended /\ r.pc \notin NothingUploaded /\ r.res.image \in Available /\ ask[a].res.image \in Available
  BY <1>1, <1>2, <1>3 DEF NothingUploaded, Ended
<1> QED
  BY <1>1, <1>2, <1>3, <1>5, <1>6, <1>7, <1>8, TableInv

(* What is known while a result is on its way into the table. *)
LEMMA InsertingFacts ==
    ASSUME PreviewInv, NEW a \in Askers, ask[a].pc \in Inserting
    PROVE  /\ ask[a] \in Asks /\ ask[a].pc \notin Ended /\ ask[a].pc \notin NothingUploaded
           /\ KeyOf(a) \in PreviewKeys /\ previews[KeyOf(a)] \in PreviewRows
           /\ NoImage \in Available /\ a \notin Available /\ a # NoImage /\ trouble \subseteq Troubles
           /\ Calm => ask[a].existing.image \in Available /\ previews[KeyOf(a)].image \in Available
           /\ ask[a].res \in PreviewRows /\ ask[a].res.code = ""
           /\ \/ ask[a].res = Row("", NoImage) /\ ask[a].res.image = NoImage /\ pictures[a] = NoImage
              \/ ask[a].res = Row("", a) /\ ask[a].res.image = a /\ pictures[a] # NoImage
<1>1. ask[a].res = Row("", IF pictures[a] = NoImage THEN NoImage ELSE a)
  BY AskFacts DEF AskInv
<1>2. /\ Row("", NoImage).image = NoImage /\ Row("", a).image = a
      /\ Row("", NoImage).code = "" /\ Row("", a).code = ""
  BY DEF Row
<1>3. ask[a].pc \notin Ended /\ ask[a].pc \notin NothingUploaded /\ a # NoImage
  BY PreviewAssumption DEF Inserting, Ended, NothingUploaded
<1>4. a \notin Available
  BY <1>3 DEF Available, ShownImages
<1>5. ask[a].res \in PreviewRows
  BY AskFacts DEF Asks
<1>6. Calm => ask[a].existing.image \in Available
  BY AskFacts DEF AskShows
<1> QED
  BY <1>1, <1>2, <1>3, <1>4, <1>5, <1>6, AskFacts

(* The result goes into the table. *)
LEMMA ResultLandsInv ==
    ASSUME PreviewInv, NEW a \in Askers, ask[a].pc \in Inserting, AskGoes(a, "landed"),
           UNCHANGED <<hour, pictures, pictureFiles, trouble>>,
           previews' = [previews EXCEPT ![KeyOf(a)] = ask[a].res], previews[KeyOf(a)].image = NoImage
    PROVE  PreviewInv'
<1> DEFINE r == [ask[a] EXCEPT !.pc = "landed"]
<1>1. ask' = [ask EXCEPT ![a] = r]
  BY DEF AskGoes
<1>2. r \in Asks /\ r.pc = "landed" /\ r.place = ask[a].place /\ r.existing = ask[a].existing /\ r.res = ask[a].res
  BY InsertingFacts, AskPc
<1>3. MayReplace(previews, previews', KeyOf(a), ask[a].res)
  BY DEF MayReplace
<1>4. RowsFit(previews, previews', ask[a].res)
  BY <1>3, InsertedIs, InsertingFacts, AskFacts
<1>5. previews'[KeyOf(a)] = ask[a].res
  BY AskFacts
<1> HIDE DEF r
<1>6. AskInv(a, r, pictures[a]) /\ r.pc \in Ended /\ r.pc \notin NothingUploaded
  BY <1>2 DEF AskInv, NothingUploaded, Inserting, Ended
<1>7. pictures[a] # NoImage => \E k \in PreviewKeys : previews'[k].image = a
  <2>1. KeyOf(a) \in PreviewKeys /\ (pictures[a] # NoImage => ask[a].res.image = a)
    BY InsertingFacts
  <2> QED
    BY <1>5, <2>1
<1>8. Calm' => r.existing.image \in Available
  BY <1>2, InsertingFacts DEF Calm
<1>9. r.res.image \in Available \/ (r.res.image = a /\ pictures[a] # NoImage)
  <2>1. ask[a].res.image \in Available \/ (ask[a].res.image = a /\ pictures[a] # NoImage)
    BY InsertingFacts
  <2> QED
    BY <1>2, <2>1
<1> QED
  BY <1>1, <1>2, <1>4, <1>6, <1>7, <1>8, <1>9, InsertingFacts, TableInv

(* It does not, or it is not known whether it did. *)
LEMMA ResultMovesInv ==
    ASSUME PreviewInv, NEW a \in Askers, ask[a].pc \in Inserting, NEW pc \in Inserting, AskGoes(a, pc),
           UNCHANGED <<hour, pictures, pictureFiles>>, trouble \subseteq trouble', trouble' \subseteq Troubles,
           NEW row, RowsFit(previews, previews', row), Calm' => previews' = previews
    PROVE  PreviewInv'
<1> DEFINE r == [ask[a] EXCEPT !.pc = pc]
<1>1. ask' = [ask EXCEPT ![a] = r]
  BY DEF AskGoes
<1>2. r \in Asks /\ r.pc = pc /\ r.place = ask[a].place /\ r.existing = ask[a].existing /\ r.res = ask[a].res
  <2>1. ask[a] \in Asks
    BY InsertingFacts
  <2> QED
    BY <2>1 DEF Inserting, Asks
<1> HIDE DEF r
<1>3. AskInv(a, r, pictures[a])
  <2>1. ask[a].res = Row("", IF pictures[a] = NoImage THEN NoImage ELSE a)
    BY AskFacts DEF AskInv
  <2> QED
    BY <1>2, <2>1 DEF AskInv, Inserting, NothingUploaded
<1>4. r.pc \notin Ended /\ r.pc \notin NothingUploaded /\ r.pc \notin {"store", "cleanFile"}
  BY <1>2 DEF Inserting, Ended, NothingUploaded
<1>5. Calm' => r.existing.image \in Available
  BY <1>2, InsertingFacts, CalmBefore
<1>6. r.res.image \in Available \/ r.res.image = a
  <2>1. ask[a].res.image \in Available \/ ask[a].res.image = a
    BY InsertingFacts
  <2> QED
    BY <1>2, <2>1
<1> QED
  BY <1>1, <1>2, <1>3, <1>4, <1>5, <1>6, InsertingFacts, TableInv

(* Another row is returned, and the image taken back. *)
LEMMA ReturnInv ==
    ASSUME PreviewInv, NEW a \in Askers, ask[a].pc \in Inserting, NEW existing \in PreviewRows,
           ReturnWithCleanup(a, existing), Calm' => existing.image \in Available,
           UNCHANGED <<hour, pictures, pictureFiles>>, trouble \subseteq trouble', trouble' \subseteq Troubles,
           NEW row, RowsFit(previews, previews', row), Calm' => previews' = previews
    PROVE  PreviewInv'
<1>1. CASE ask[a].res.image # NoImage /\ existing.image # ask[a].res.image
  <2> DEFINE r == [ask[a] EXCEPT !.pc = "cleanRow", !.existing = existing]
  <2>1. ask' = [ask EXCEPT ![a] = r]
    BY <1>1 DEF ReturnWithCleanup
  <2>2. r \in Asks /\ r.pc = "cleanRow" /\ r.place = ask[a].place /\ r.existing = existing /\ r.res = ask[a].res
    <3>1. ask[a] \in Asks
      BY InsertingFacts
    <3> QED
      BY <3>1 DEF Asks
  <2> HIDE DEF r
  <2>3. r.res = Row("", a) /\ r.res.image = a
    BY <1>1, <2>2, InsertingFacts
  <2>4. AskInv(a, r, pictures[a])
    BY <2>2, <2>3 DEF AskInv, Inserting, NothingUploaded
  <2>5. r.pc \notin Ended /\ r.pc \notin NothingUploaded
    BY <2>2 DEF Ended, NothingUploaded
  <2> QED
    BY <2>1, <2>2, <2>3, <2>4, <2>5, InsertingFacts, TableInv
<1>2. CASE ~(ask[a].res.image # NoImage /\ existing.image # ask[a].res.image)
  <2> DEFINE got == IF existing = NoRow THEN ask[a].res ELSE existing
             r == [ask[a] EXCEPT !.pc = "landed", !.res = got]
  <2>1. ask' = [ask EXCEPT ![a] = r]
    BY <1>2 DEF ReturnWithCleanup
  <2>2. got \in PreviewRows /\ (got = ask[a].res \/ got = existing)
    BY InsertingFacts
  <2> HIDE DEF got
  <2>3. r \in Asks /\ r.pc = "landed" /\ r.place = ask[a].place /\ r.existing = ask[a].existing /\ r.res = got
    <3>1. ask[a] \in Asks
      BY InsertingFacts
    <3> QED
      BY <2>2, <3>1 DEF Asks
  <2> HIDE DEF r
  <2>4. AskInv(a, r, pictures[a]) /\ r.pc \in Ended /\ r.pc \notin NothingUploaded
    BY <2>3 DEF AskInv, Inserting, NothingUploaded, Ended
  <2>5. Calm' => ask[a].res.image = NoImage /\ pictures[a] = NoImage
    <3>1. a \notin Available
      BY InsertingFacts
    <3>2. \/ ask[a].res.image = NoImage /\ pictures[a] = NoImage
          \/ ask[a].res.image = a /\ a # NoImage
      BY InsertingFacts
    <3> QED
      BY <1>2, <3>1, <3>2
  <2>6. Calm' => r.existing.image \in Available /\ r.res.image \in Available
    <3>1. (Calm' => Calm) /\ (trouble' = {} => Calm')
      BY CalmBefore
    <3>2. NoImage \in Available /\ (Calm => ask[a].existing.image \in Available)
      BY InsertingFacts
    <3> QED
      BY <2>2, <2>3, <2>5, <3>1, <3>2
  <2>7. trouble' = {} => pictures[a] = NoImage
    <3>1. trouble' = {} => Calm'
      BY CalmBefore
    <3> QED
      BY <2>5, <3>1
  <2> QED
    BY <2>1, <2>3, <2>4, <2>5, <2>6, <2>7, InsertingFacts, TableInv
<1> QED
  BY <1>1, <1>2

LEMMA ReadExistingInv ==
    ASSUME PreviewInv, NEW a \in Askers, ReadExisting(a)
    PROVE  PreviewInv'
<1>1. ask[a].pc \in Inserting /\ UNCHANGED <<hour, previews, pictures, pictureFiles, trouble>>
  BY DEF ReadExisting, AskAt, Inserting
<1>2. RowsFit(previews, previews', NoRow) /\ trouble \subseteq Troubles /\ NoRow \in PreviewRows /\ NoRow.image \in Available
  BY <1>1, SameRowsFit, InsertingFacts, NewAskIs
<1>3. previews[KeyOf(a)] \in PreviewRows /\ (Calm' => previews[KeyOf(a)].image \in Available)
  BY <1>1, InsertingFacts, CalmBefore
<1>4. CASE ReturnWithCleanup(a, NoRow)
  BY <1>1, <1>2, <1>4, ReturnInv
<1>5. CASE ReturnWithCleanup(a, previews[KeyOf(a)])
  BY <1>1, <1>2, <1>3, <1>5, ReturnInv
<1>6. CASE AskGoes(a, "upgrade")
  <2>1. "upgrade" \in Inserting
    BY DEF Inserting
  <2> QED
    BY <1>1, <1>2, <1>6, <2>1, ResultMovesInv
<1> QED
  BY <1>4, <1>5, <1>6 DEF ReadExisting

LEMMA ReadUpgradedInv ==
    ASSUME PreviewInv, NEW a \in Askers, ReadUpgraded(a)
    PROVE  PreviewInv'
<1>1. ask[a].pc \in Inserting /\ UNCHANGED <<hour, previews, pictures, pictureFiles, trouble>>
  BY DEF ReadUpgraded, AskAt, Inserting
<1>2. RowsFit(previews, previews', NoRow) /\ trouble \subseteq Troubles /\ NoRow \in PreviewRows /\ NoRow.image \in Available
  BY <1>1, SameRowsFit, InsertingFacts, NewAskIs
<1>3. previews[KeyOf(a)] \in PreviewRows /\ (Calm' => previews[KeyOf(a)].image \in Available)
  BY <1>1, InsertingFacts, CalmBefore
<1>4. CASE ReturnWithCleanup(a, NoRow)
  BY <1>1, <1>2, <1>4, ReturnInv
<1>5. CASE ReturnWithCleanup(a, previews[KeyOf(a)])
  BY <1>1, <1>2, <1>3, <1>5, ReturnInv
<1> QED
  BY <1>4, <1>5 DEF ReadUpgraded

(* A statement that may have been executed: unless it was, nothing is unsure. *)
LEMMA UnsureIs ==
    ASSUME trouble \subseteq Troubles,
           trouble' = IF previews' = previews THEN trouble ELSE trouble \cup {"unsure"}
    PROVE  trouble \subseteq trouble' /\ trouble' \subseteq Troubles /\ (Calm' => previews' = previews)
  BY DEF Troubles, Calm

LEMMA InsertPreviewInv ==
    ASSUME PreviewInv, NEW a \in Askers, InsertPreview(a)
    PROVE  PreviewInv'
<1>1. ask[a].pc \in Inserting /\ UNCHANGED <<hour, pictures, pictureFiles>>
  BY DEF InsertPreview, AskAt, Inserting
<1>2. /\ NoRow \in PreviewRows /\ NoRow.image = NoImage /\ NoRow.image \in Available /\ trouble \subseteq Troubles
      /\ KeyOf(a) \in PreviewKeys /\ ask[a].res \in PreviewRows /\ ask[a].res.code = ""
  BY <1>1, InsertingFacts, NewAskIs
<1>3. CASE /\ previews' = Inserted(KeyOf(a), ask[a].res) /\ UNCHANGED trouble
           /\ AskGoes(a, IF previews[KeyOf(a)] = NoRow THEN "landed" ELSE "conflict")
  <2>1. CASE previews[KeyOf(a)] = NoRow
    <3>1. previews' = [previews EXCEPT ![KeyOf(a)] = ask[a].res] /\ previews[KeyOf(a)].image = NoImage /\ AskGoes(a, "landed")
      BY <1>2, <1>3, <2>1 DEF Inserted
    <3> QED
      BY <1>1, <1>3, <3>1, ResultLandsInv
  <2>2. CASE previews[KeyOf(a)] # NoRow
    <3>1. previews' = previews /\ AskGoes(a, "conflict") /\ "conflict" \in Inserting
      BY <1>3, <2>2 DEF Inserted, Inserting
    <3>2. RowsFit(previews, previews', NoRow)
      BY <3>1, SameRowsFit
    <3> QED
      BY <1>1, <1>2, <1>3, <3>1, <3>2, ResultMovesInv
  <2> QED
    BY <2>1, <2>2
<1>4. CASE /\ previews' \in {previews, Inserted(KeyOf(a), ask[a].res)} /\ ReturnWithCleanup(a, NoRow)
           /\ trouble' = IF previews' = previews THEN trouble ELSE trouble \cup {"unsure"}
  <2>1. MayReplace(previews, previews', KeyOf(a), ask[a].res)
    BY <1>2, <1>4 DEF MayReplace, Inserted
  <2>2. RowsFit(previews, previews', ask[a].res)
    BY <1>2, <2>1, InsertedIs, AskFacts
  <2>3. trouble \subseteq trouble' /\ trouble' \subseteq Troubles /\ (Calm' => previews' = previews)
    BY <1>2, <1>4, UnsureIs
  <2> QED
    BY <1>1, <1>2, <1>4, <2>2, <2>3, ReturnInv
<1> QED
  BY <1>3, <1>4 DEF InsertPreview

LEMMA UpdateIfErrorInv ==
    ASSUME PreviewInv, NEW a \in Askers, UpdateIfError(a)
    PROVE  PreviewInv'
<1> DEFINE isError == previews[KeyOf(a)].code \in ErrorCodes
           updated == IF isError THEN [previews EXCEPT ![KeyOf(a)] = ask[a].res] ELSE previews
<1>1. ask[a].pc \in Inserting /\ UNCHANGED <<hour, pictures, pictureFiles>>
  BY DEF UpdateIfError, AskAt, Inserting
<1>2. /\ trouble \subseteq Troubles /\ "again" \in Inserting
      /\ KeyOf(a) \in PreviewKeys /\ ask[a].res \in PreviewRows /\ ask[a].res.code = ""
  BY <1>1, InsertingFacts DEF Inserting
<1>3. isError => previews[KeyOf(a)].image = NoImage
  BY <1>2, AskFacts DEF ErrorsHaveNoImage, ErrorCodes
<1>4. CASE previews' = updated /\ AskGoes(a, IF isError THEN "landed" ELSE "again") /\ UNCHANGED trouble
  <2>1. CASE isError
    <3>1. previews' = [previews EXCEPT ![KeyOf(a)] = ask[a].res] /\ previews[KeyOf(a)].image = NoImage /\ AskGoes(a, "landed")
      BY <1>3, <1>4, <2>1
    <3> QED
      BY <1>1, <1>4, <3>1, ResultLandsInv
  <2>2. CASE ~isError
    <3>1. previews' = previews /\ AskGoes(a, "again")
      BY <1>4, <2>2
    <3>2. RowsFit(previews, previews', NoRow)
      BY <3>1, SameRowsFit
    <3> QED
      BY <1>1, <1>2, <1>4, <3>1, <3>2, ResultMovesInv
  <2> QED
    BY <2>1, <2>2
<1>5. CASE /\ previews' \in {previews, updated} /\ AskGoes(a, "again")
           /\ trouble' = IF previews' = previews THEN trouble ELSE trouble \cup {"unsure"}
  <2>1. MayReplace(previews, previews', KeyOf(a), ask[a].res)
    BY <1>3, <1>5 DEF MayReplace
  <2>2. RowsFit(previews, previews', ask[a].res)
    BY <1>2, <2>1, InsertedIs, AskFacts
  <2>3. trouble \subseteq trouble' /\ trouble' \subseteq Troubles /\ (Calm' => previews' = previews)
    BY <1>2, <1>5, UnsureIs
  <2> QED
    BY <1>1, <1>2, <1>5, <2>2, <2>3, ResultMovesInv
<1> QED
  BY <1>4, <1>5 DEF UpdateIfError

(* A step that changes the request's own image. *)
LEMMA ImageMovesInv ==
    ASSUME PreviewInv, NEW a \in Askers, NEW r \in Asks, ask' = [ask EXCEPT ![a] = r], ask[a].pc \notin Ended,
           UNCHANGED <<hour, previews>>, trouble \subseteq trouble', trouble' \subseteq Troubles,
           pictures' \in [Askers -> Images], \A b \in Askers \ {a} : pictures'[b] = pictures[b],
           pictureFiles' \subseteq Askers, AskInv(a, r, pictures'[a]),
           {pictures'[a], r.place} \subseteq Placed \cup {x \in {a} : r.pc \notin NothingUploaded} \cup {NoImage},
           ask[a].pc \notin NothingUploaded => r.pc \notin NothingUploaded,
           r.pc \in Ended => pictures'[a] = NoImage,
           Calm' => /\ r.existing.image \in Available
                    /\ r.res.image \in Available \/ (r.res.image = a /\ r.pc \notin Ended),
           Calm' /\ FilesInv => FilesInv'
    PROVE  PreviewInv'
<1>1. ask' \in [Askers -> Asks] /\ AsksInv' /\ ask'[a] = r /\ \A b \in Askers \ {a} : ask'[b] = ask[b]
  BY OneAskMoves
<1>2. PreviewTypes'
  BY <1>1 DEF PreviewInv, PreviewTypes
<1>3. PlacesInv'
  <2>1. PlacesInv
    BY DEF PreviewInv
  <2> QED
    BY <1>1, <2>1, PlacesStay
<1>4. ASSUME Calm' PROVE ShownInv' /\ FilesInv'
  <2>1. ShownInv /\ FilesInv
    BY <1>4, CalmBefore DEF PreviewInv
  <2>2. \A k \in PreviewKeys : previews'[k].image \in Available
    BY <2>1 DEF ShownInv
  <2>3. ShownInv'
    BY <1>1, <1>4, <2>1, <2>2, ShownStays
  <2> QED
    BY <1>4, <2>1, <2>3
<1>5. ASSUME trouble' = {} PROVE UsedInv'
  <2>1. UsedInv
    BY <1>5, CalmBefore DEF PreviewInv
  <2> QED
    BY <1>1, <1>5, <2>1, UsedStays, PreviewAssumption
<1> QED
  BY <1>1, <1>2, <1>3, <1>4, <1>5 DEF PreviewInv

LEMMA PictureFacts ==
    ASSUME PreviewInv
    PROVE  /\ pictures \in [Askers -> Images] /\ pictureFiles \subseteq Askers /\ NoImage \notin Askers
           /\ \A b \in Askers : {pictures[b], ask[b].place} \subseteq Placed \cup {NoImage}
           /\ ask \in [Askers -> Asks] /\ Placed \subseteq Askers
  BY PreviewAssumption DEF PreviewInv, PreviewTypes, PlacesInv, Placed

LEMMA UploadImageInv ==
    ASSUME PreviewInv, NEW a \in Askers, UploadImage(a)
    PROVE  PreviewInv'
<1>1. ask[a].pc = "upload" /\ UNCHANGED <<hour, previews, pictures, trouble>>
  BY DEF UploadImage, AskAt
<1>2. /\ ask[a].pc \in NothingUploaded /\ ask[a].pc \notin Ended /\ ask[a] \in Asks
      /\ ask[a].res.image = NoImage /\ ask[a].res.code = "" /\ pictures[a] = NoImage /\ NoImage \in Available
      /\ trouble \subseteq Troubles
      /\ Calm => ask[a].existing.image \in Available
  <2>1. ask[a].pc \in NothingUploaded /\ ask[a].pc \notin Ended
    BY <1>1 DEF NothingUploaded, Ended
  <2>2. ask[a].res.image = NoImage /\ ask[a].res.code = "" /\ pictures[a] = NoImage
    BY <1>1, <2>1, AskFacts DEF AskInv
  <2> QED
    BY <2>1, <2>2, AskFacts DEF AskShows
<1>3. ask[a].res = Row("", NoImage)
  <2>1. ask[a].res \in PreviewRows
    BY <1>2 DEF Asks
  <2> QED
    BY <1>2, <2>1 DEF Row, PreviewRows
<1>4. CASE AskGoes(a, "insert") /\ UNCHANGED pictureFiles
  <2> DEFINE r == [ask[a] EXCEPT !.pc = "insert"]
  <2>1. ask' = [ask EXCEPT ![a] = r]
    BY <1>4 DEF AskGoes
  <2>2. r \in Asks /\ r.pc = "insert" /\ r.place = ask[a].place /\ r.existing = ask[a].existing /\ r.res = ask[a].res
    BY <1>2, AskPc
  <2> HIDE DEF r
  <2> QED
    BY <1>1, <1>2, <1>3, <1>4, <2>1, <2>2, EarlyInv
<1>5. ASSUME NEW place \in (IF \E b \in Askers : pictures[b] # NoImage
                            THEN {pictures[b] : b \in Askers} \ {NoImage} ELSE {a}),
             pictureFiles' = (IF place = a THEN pictureFiles \cup {a} ELSE pictureFiles),
             ask' = [ask EXCEPT ![a].pc = "store", ![a].place = place]
      PROVE  PreviewInv'
  <2> DEFINE r == [ask[a] EXCEPT !.pc = "store", !.place = place]
  <2>1. ask' = [ask EXCEPT ![a] = r]
    BY <1>5
  <2>2. place # NoImage /\ (place = a \/ \E b \in Askers : pictures[b] = place)
    BY <1>5, PictureFacts
  <2>3. place \in Askers /\ place \in Placed \cup {a}
    BY <2>2, PictureFacts
  <2>4. r \in Asks /\ r.pc = "store" /\ r.place = place /\ r.existing = ask[a].existing /\ r.res = ask[a].res
    BY <1>2, <2>3 DEF Asks, Images
  <2> HIDE DEF r
  <2>5. AskInv(a, r, pictures'[a]) /\ r.pc \notin Ended /\ r.pc \notin NothingUploaded
    BY <1>1, <1>2, <2>2, <2>4 DEF AskInv, NothingUploaded, Inserting, Ended
  <2>6. {pictures'[a], r.place} \subseteq Placed \cup {x \in {a} : r.pc \notin NothingUploaded} \cup {NoImage}
    BY <1>1, <1>2, <2>3, <2>4, <2>5
  <2>7. pictureFiles' \subseteq Askers /\ pictures' \in [Askers -> Images] /\ \A b \in Askers \ {a} : pictures'[b] = pictures[b]
    BY <1>1, <1>5, PictureFacts
  <2>8. ASSUME FilesInv PROVE FilesInv'
    <3>1. ask'[a] = r /\ \A b \in Askers \ {a} : ask'[b] = ask[b]
      BY <2>1, PictureFacts
    <3>2. pictureFiles \subseteq pictureFiles' /\ place \in pictureFiles'
      BY <1>5, <2>2, <2>8 DEF FilesInv
    <3>3. a \notin Placed
      BY <1>2 DEF Placed
    <3>4. ASSUME NEW x \in Askers, ask'[x].pc = "cleanFile" PROVE x # a /\ ask'[x] = ask[x] /\ place # ask[x].place
      <4>1. x # a /\ ask'[x] = ask[x] /\ ask[x].pc = "cleanFile"
        BY <2>4, <3>1, <3>4
      <4>2. ask[x].place \in Placed \cup {NoImage}
        BY PictureFacts
      <4>3. CASE place = a
        BY <2>2, <3>3, <4>1, <4>2, <4>3
      <4>4. CASE place # a
        BY <2>2, <2>8, <4>1, <4>4 DEF FilesInv
      <4> QED
        BY <4>1, <4>3, <4>4
    <3>5. \A b \in Askers : pictures'[b] # NoImage => pictures'[b] \in pictureFiles'
      BY <1>1, <2>8, <3>2 DEF FilesInv
    <3>6. \A b \in Askers : ask'[b].pc = "store" => ask'[b].place \in pictureFiles'
      BY <2>4, <2>8, <3>1, <3>2 DEF FilesInv
    <3>7. ASSUME NEW x \in Askers, NEW b \in Askers, ask'[x].pc = "cleanFile"
          PROVE  /\ pictures'[b] # NoImage => pictures'[b] # ask'[x].place
                 /\ ask'[b].pc = "store" => ask'[b].place # ask'[x].place
      <4>1. x # a /\ ask'[x] = ask[x] /\ place # ask[x].place
        BY <3>4, <3>7
      <4>2. CASE b = a
        BY <1>1, <1>2, <2>4, <3>1, <4>1, <4>2
      <4>3. CASE b # a
        BY <1>1, <2>8, <3>1, <3>7, <4>1, <4>3 DEF FilesInv
      <4> QED
        BY <4>2, <4>3
    <3> QED
      BY <3>5, <3>6, <3>7 DEF FilesInv
  <2>9. Calm' => r.existing.image \in Available /\ r.res.image \in Available
    BY <1>1, <1>2, <2>4, CalmBefore
  <2> QED
    BY <1>1, <1>2, <2>1, <2>4, <2>5, <2>6, <2>7, <2>8, <2>9, ImageMovesInv
<1> QED
  BY <1>4, <1>5 DEF UploadImage

LEMMA StorePictureInv ==
    ASSUME PreviewInv, NEW a \in Askers, StorePicture(a)
    PROVE  PreviewInv'
<1> DEFINE place == ask[a].place
           r == [ask[a] EXCEPT !.pc = "insert", !.res = Row("", a)]
<1>1. /\ ask[a].pc = "store" /\ UNCHANGED <<hour, previews, pictureFiles, trouble>>
      /\ pictures' = [pictures EXCEPT ![a] = place] /\ ask' = [ask EXCEPT ![a] = r]
  BY DEF StorePicture, AskAt
<1>2. /\ ask[a] \in Asks /\ place \in Images /\ trouble \subseteq Troubles
      /\ Calm => ask[a].existing.image \in Available
  BY AskFacts DEF AskShows, Asks
<1>3. place # NoImage
  BY <1>1, AskFacts DEF AskInv
<1>4. Row("", a) \in PreviewRows /\ Row("", a).image = a
  BY AskFacts, RowIs
<1>5. r \in Asks /\ r.pc = "insert" /\ r.place = place /\ r.existing = ask[a].existing /\ r.res = Row("", a)
  BY <1>2, <1>4 DEF Asks
<1> HIDE DEF r
<1>6. pictures'[a] = place /\ pictures' \in [Askers -> Images] /\ \A b \in Askers \ {a} : pictures'[b] = pictures[b]
  BY <1>1, <1>2, PictureFacts
<1>7. AskInv(a, r, pictures'[a]) /\ r.pc \notin Ended /\ r.pc \notin NothingUploaded /\ ask[a].pc \notin Ended
  BY <1>1, <1>3, <1>5, <1>6 DEF AskInv, NothingUploaded, Inserting, Ended
<1>8. {pictures'[a], r.place} \subseteq Placed \cup {x \in {a} : r.pc \notin NothingUploaded} \cup {NoImage}
  BY <1>5, <1>6, PictureFacts
<1>9. ASSUME FilesInv PROVE FilesInv'
  <2>1. ask'[a] = r /\ \A b \in Askers \ {a} : ask'[b] = ask[b]
    BY <1>1, PictureFacts
  <2>2. place \in pictureFiles /\ pictureFiles' = pictureFiles
    BY <1>1, <1>9 DEF FilesInv
  <2>3. \A b \in Askers : pictures'[b] # NoImage => pictures'[b] \in pictureFiles'
    BY <1>6, <1>9, <2>2 DEF FilesInv
  <2>4. \A b \in Askers : ask'[b].pc \in {"store", "cleanFile"} => b # a /\ ask'[b] = ask[b]
    BY <1>5, <2>1
  <2>5. \A b \in Askers : ask'[b].pc = "store" => ask'[b].place \in pictureFiles'
    BY <1>9, <2>2, <2>4 DEF FilesInv
  <2>6. ASSUME NEW x \in Askers, NEW b \in Askers, ask'[x].pc = "cleanFile"
        PROVE  /\ pictures'[b] # NoImage => pictures'[b] # ask'[x].place
               /\ ask'[b].pc = "store" => ask'[b].place # ask'[x].place
    <3>1. ask'[x] = ask[x] /\ ask[x].pc = "cleanFile" /\ place # ask[x].place
      BY <1>1, <1>9, <2>4, <2>6 DEF FilesInv
    <3>2. pictures'[b] # NoImage => pictures'[b] # ask'[x].place
      <4>1. CASE b = a
        BY <1>6, <3>1, <4>1
      <4>2. CASE b # a
        BY <1>6, <1>9, <3>1, <4>2 DEF FilesInv
      <4> QED
        BY <4>1, <4>2
    <3>3. ask'[b].pc = "store" => ask'[b].place # ask'[x].place
      BY <1>9, <2>4, <3>1 DEF FilesInv
    <3> QED
      BY <3>2, <3>3
  <2> QED
    BY <2>3, <2>5, <2>6 DEF FilesInv
<1>10. Calm' => r.existing.image \in Available
  BY <1>1, <1>2, <1>5, CalmBefore
<1>11. pictureFiles' \subseteq Askers
  BY <1>1, PictureFacts
<1> QED
  BY <1>1, <1>2, <1>4, <1>5, <1>6, <1>7, <1>8, <1>9, <1>10, <1>11, ImageMovesInv

Cleaning == {"cleanRow", "cleanCheck", "cleanFile"}

LEMMA CleaningFacts ==
    ASSUME PreviewInv, NEW a \in Askers, ask[a].pc \in Cleaning
    PROVE  /\ ask[a] \in Asks /\ ask[a].pc \notin Ended /\ ask[a].pc \notin NothingUploaded
           /\ ask[a].existing \in PreviewRows /\ ask[a].res \in PreviewRows
           /\ ask[a].res = Row("", a) /\ ask[a].res.image = a
           /\ ask[a].pc # "cleanRow" => pictures[a] = NoImage
           /\ Calm => ask[a].existing.image \in Available
           /\ trouble \subseteq Troubles /\ NoImage \in Available /\ NoImage \in Images
<1>1. ask[a] \in Asks /\ AskInv(a, ask[a], pictures[a]) /\ trouble \subseteq Troubles /\ NoImage \in Available /\ NoImage \in Images
  BY AskFacts
<1>2. ask[a].pc \notin Ended /\ ask[a].pc \notin NothingUploaded
  BY DEF Cleaning, Ended, NothingUploaded
<1>3. ask[a].res = Row("", a) /\ (ask[a].pc # "cleanRow" => pictures[a] = NoImage)
  BY <1>1 DEF AskInv, Cleaning
<1>4. Row("", a).image = a
  BY DEF Row
<1>5. ask[a].existing \in PreviewRows /\ ask[a].res \in PreviewRows
  BY <1>1 DEF Asks
<1>6. Calm => ask[a].existing.image \in Available
  BY AskFacts DEF AskShows
<1> QED
  BY <1>1, <1>2, <1>3, <1>4, <1>5, <1>6

LEMMA CleanupFailsInv ==
    ASSUME PreviewInv, NEW a \in Askers, ask[a].pc \in Cleaning, CleanupFails(a),
           UNCHANGED <<hour, previews, pictures, pictureFiles>>
    PROVE  PreviewInv'
<1> DEFINE got == IF ask[a].existing = NoRow THEN ask[a].res ELSE ask[a].existing
           r == [ask[a] EXCEPT !.pc = "landed", !.res = got]
<1>1. ask' = [ask EXCEPT ![a] = r] /\ trouble' = trouble \cup {"cleanup failed"}
  BY DEF CleanupFails
<1>2. got \in PreviewRows /\ ask[a] \in Asks
  BY CleaningFacts
<1> HIDE DEF got
<1>3. r \in Asks /\ r.pc = "landed" /\ r.place = ask[a].place
  BY <1>2 DEF Asks
<1> HIDE DEF r
<1>4. AskInv(a, r, pictures[a]) /\ r.pc \notin NothingUploaded
  BY <1>3 DEF AskInv, NothingUploaded, Inserting
<1>5. trouble \subseteq trouble' /\ trouble' \subseteq Troubles /\ ~Calm'
  BY <1>1, CleaningFacts DEF Troubles, Calm
<1> QED
  BY <1>1, <1>3, <1>4, <1>5, CleaningFacts, QuietTable

(* The image is taken back: the other row is returned, or one without an image. *)
LEMMA CleanedUpInv ==
    ASSUME PreviewInv, NEW a \in Askers, ask[a].pc \in {"cleanCheck", "cleanFile"}, CleanedUp(a),
           UNCHANGED <<hour, previews, pictures>>, trouble \subseteq trouble', trouble' \subseteq Troubles,
           pictureFiles' \subseteq Askers,
           Calm' /\ FilesInv => \A b \in Askers :
               /\ pictures[b] # NoImage => pictures[b] \in pictureFiles'
               /\ ask[b].pc = "store" => ask[b].place \in pictureFiles'
    PROVE  PreviewInv'
<1> DEFINE got == IF ask[a].existing = NoRow THEN Row("", NoImage) ELSE ask[a].existing
           r == [ask[a] EXCEPT !.pc = "landed", !.res = got]
<1>1. ask' = [ask EXCEPT ![a] = r]
  BY DEF CleanedUp
<1>2. /\ ask[a] \in Asks /\ ask[a].existing \in PreviewRows /\ NoImage \in Images /\ NoImage \in Available
      /\ Calm => ask[a].existing.image \in Available
      /\ pictures[a] = NoImage /\ ask[a].pc \notin Ended
  BY CleaningFacts DEF Cleaning
<1>3. Row("", NoImage) \in PreviewRows /\ Row("", NoImage).image = NoImage
  BY <1>2, RowIs
<1>4. got \in PreviewRows /\ (Calm => got.image \in Available)
  BY <1>2, <1>3
<1> HIDE DEF got
<1>5. r \in Asks /\ r.pc = "landed" /\ r.place = ask[a].place /\ r.existing = ask[a].existing /\ r.res = got
  BY <1>2, <1>4 DEF Asks
<1> HIDE DEF r
<1>6. AskInv(a, r, pictures'[a]) /\ r.pc \notin NothingUploaded
  BY <1>5 DEF AskInv, NothingUploaded, Inserting
<1>7. pictures' \in [Askers -> Images] /\ \A b \in Askers \ {a} : pictures'[b] = pictures[b]
  BY PictureFacts
<1>8. {pictures'[a], r.place} \subseteq Placed \cup {x \in {a} : r.pc \notin NothingUploaded} \cup {NoImage}
  BY <1>5, PictureFacts
<1>9. Calm' => r.existing.image \in Available /\ r.res.image \in Available
  BY <1>2, <1>4, <1>5, CalmBefore
<1>10. ASSUME Calm', FilesInv PROVE FilesInv'
  <2>1. ask'[a] = r /\ \A b \in Askers \ {a} : ask'[b] = ask[b]
    BY <1>1, PictureFacts
  <2>2. \A b \in Askers : ask'[b].pc \in {"store", "cleanFile"} => ask'[b] = ask[b]
    BY <1>5, <2>1
  <2>3. \A b \in Askers : /\ pictures[b] # NoImage => pictures[b] \in pictureFiles'
                          /\ ask[b].pc = "store" => ask[b].place \in pictureFiles'
    BY <1>10
  <2> QED
    BY <1>10, <2>2, <2>3 DEF FilesInv
<1> QED
  BY <1>1, <1>2, <1>5, <1>6, <1>7, <1>8, <1>9, <1>10, ImageMovesInv

LEMMA DeletePictureInv ==
    ASSUME PreviewInv, NEW a \in Askers, DeletePicture(a)
    PROVE  PreviewInv'
<1>1. ask[a].pc = "cleanRow" /\ ask[a].pc \in Cleaning /\ UNCHANGED <<hour, previews, pictureFiles>>
  BY DEF DeletePicture, AskAt, Cleaning
<1>2. CASE CleanupFails(a) /\ UNCHANGED pictures
  BY <1>1, <1>2, CleanupFailsInv
<1>3. CASE pictures' = [pictures EXCEPT ![a] = NoImage] /\ AskGoes(a, "cleanCheck") /\ UNCHANGED trouble
  <2> DEFINE r == [ask[a] EXCEPT !.pc = "cleanCheck"]
  <2>1. ask' = [ask EXCEPT ![a] = r]
    BY <1>3 DEF AskGoes
  <2>2. /\ ask[a] \in Asks /\ NoImage \in Images /\ NoImage \in Available /\ ask[a].pc \notin Ended
        /\ ask[a].res = Row("", a) /\ ask[a].res.image = a /\ trouble \subseteq Troubles
        /\ Calm => ask[a].existing.image \in Available
    BY <1>1, CleaningFacts
  <2>3. r \in Asks /\ r.pc = "cleanCheck" /\ r.place = ask[a].place /\ r.existing = ask[a].existing /\ r.res = ask[a].res
    BY <2>2, AskPc
  <2> HIDE DEF r
  <2>4. pictures'[a] = NoImage /\ pictures' \in [Askers -> Images] /\ \A b \in Askers \ {a} : pictures'[b] = pictures[b]
    BY <1>3, <2>2, PictureFacts
  <2>5. AskInv(a, r, pictures'[a]) /\ r.pc \notin Ended /\ r.pc \notin NothingUploaded
    BY <2>2, <2>3, <2>4 DEF AskInv, NothingUploaded, Inserting, Ended
  <2>6. {pictures'[a], r.place} \subseteq Placed \cup {x \in {a} : r.pc \notin NothingUploaded} \cup {NoImage}
    BY <2>3, <2>4, PictureFacts
  <2>7. Calm' => r.existing.image \in Available
    BY <1>3, <2>2, <2>3, CalmBefore
  <2>8. ASSUME FilesInv PROVE FilesInv'
    <3>1. ask'[a] = r /\ \A b \in Askers \ {a} : ask'[b] = ask[b]
      BY <2>1, PictureFacts
    <3>2. \A b \in Askers : ask'[b].pc \in {"store", "cleanFile"} => ask'[b] = ask[b]
      BY <2>3, <3>1
    <3>3. \A b \in Askers : pictures'[b] # NoImage => pictures'[b] = pictures[b]
      BY <2>4
    <3> QED
      BY <1>1, <2>8, <3>2, <3>3 DEF FilesInv
  <2>9. pictureFiles' \subseteq Askers
    BY <1>1, PictureFacts
  <2> QED
    BY <1>1, <1>3, <2>1, <2>2, <2>3, <2>4, <2>5, <2>6, <2>7, <2>8, <2>9, ImageMovesInv
<1> QED
  BY <1>2, <1>3 DEF DeletePicture

LEMMA CheckLocationInv ==
    ASSUME PreviewInv, NEW a \in Askers, CheckLocation(a)
    PROVE  PreviewInv'
<1>1. ask[a].pc = "cleanCheck" /\ ask[a].pc \in Cleaning /\ UNCHANGED <<hour, previews, pictures, pictureFiles>>
  BY DEF CheckLocation, AskAt, Cleaning
<1>2. CASE CleanupFails(a)
  BY <1>1, <1>2, CleanupFailsInv
<1> DEFINE overlap == {t \in {"overlap"} : \E b \in Askers : AskAt(b, "store") /\ ask[b].place = ask[a].place}
<1>3. ASSUME trouble' = trouble \cup overlap
      PROVE  /\ trouble \subseteq trouble' /\ trouble' \subseteq Troubles
             /\ Calm' => \A b \in Askers : ask[b].pc = "store" => ask[b].place # ask[a].place
  <2>1. trouble \subseteq Troubles
    BY <1>1, CleaningFacts
  <2> QED
    BY <1>3, <2>1 DEF Troubles, Calm, AskAt
<1>4. CASE trouble' = trouble \cup overlap /\ CleanedUp(a)
  <2>1. FilesInv => \A b \in Askers : /\ pictures[b] # NoImage => pictures[b] \in pictureFiles'
                                      /\ ask[b].pc = "store" => ask[b].place \in pictureFiles'
    BY <1>1 DEF FilesInv
  <2>2. pictureFiles' \subseteq Askers
    BY <1>1, PictureFacts
  <2> HIDE DEF overlap
  <2> QED
    BY <1>1, <1>3, <1>4, <2>1, <2>2, CleanedUpInv
<1>5. CASE /\ trouble' = trouble \cup overlap /\ AskGoes(a, "cleanFile")
           /\ ~\E b \in Askers : pictures[b] = ask[a].place
  <2> DEFINE r == [ask[a] EXCEPT !.pc = "cleanFile"]
  <2>1. ask' = [ask EXCEPT ![a] = r]
    BY <1>5 DEF AskGoes
  <2>2. /\ ask[a] \in Asks /\ NoImage \in Available /\ ask[a].pc \notin Ended /\ pictures[a] = NoImage
        /\ ask[a].res = Row("", a) /\ ask[a].res.image = a
        /\ Calm => ask[a].existing.image \in Available
    BY <1>1, CleaningFacts
  <2>3. r \in Asks /\ r.pc = "cleanFile" /\ r.place = ask[a].place /\ r.existing = ask[a].existing /\ r.res = ask[a].res
    BY <2>2, AskPc
  <2> HIDE DEF r
  <2>4. pictures' \in [Askers -> Images] /\ \A b \in Askers \ {a} : pictures'[b] = pictures[b]
    BY <1>1, PictureFacts
  <2>5. AskInv(a, r, pictures'[a]) /\ r.pc \notin Ended /\ r.pc \notin NothingUploaded
    BY <1>1, <2>2, <2>3 DEF AskInv, NothingUploaded, Inserting, Ended
  <2>6. {pictures'[a], r.place} \subseteq Placed \cup {x \in {a} : r.pc \notin NothingUploaded} \cup {NoImage}
    BY <1>1, <2>3, PictureFacts
  <2>7. /\ trouble \subseteq trouble' /\ trouble' \subseteq Troubles
        /\ Calm' => \A b \in Askers : ask[b].pc = "store" => ask[b].place # ask[a].place
    BY <1>3, <1>5
  <2>8. Calm' => r.existing.image \in Available
    BY <2>2, <2>3, <2>7, CalmBefore
  <2>9. ASSUME Calm', FilesInv PROVE FilesInv'
    <3>1. ask'[a] = r /\ \A b \in Askers \ {a} : ask'[b] = ask[b]
      BY <2>1, PictureFacts
    <3>2. \A b \in Askers : ask'[b].pc = "store" => ask'[b] = ask[b]
      BY <2>3, <3>1
    <3>3. ASSUME NEW x \in Askers, NEW b \in Askers, ask'[x].pc = "cleanFile"
          PROVE  /\ pictures'[b] # NoImage => pictures'[b] # ask'[x].place
                 /\ ask'[b].pc = "store" => ask'[b].place # ask'[x].place
      <4>1. CASE x = a
        BY <1>1, <1>5, <2>3, <2>7, <2>9, <3>1, <3>2, <4>1
      <4>2. CASE x # a
        BY <1>1, <2>9, <3>1, <3>2, <3>3, <4>2 DEF FilesInv
      <4> QED
        BY <4>1, <4>2
    <3>4. \A b \in Askers : /\ pictures'[b] # NoImage => pictures'[b] \in pictureFiles'
                            /\ ask'[b].pc = "store" => ask'[b].place \in pictureFiles'
      BY <1>1, <2>9, <3>2 DEF FilesInv
    <3> QED
      BY <3>3, <3>4 DEF FilesInv
  <2>10. pictureFiles' \subseteq Askers
    BY <1>1, PictureFacts
  <2> QED
    BY <1>1, <2>1, <2>2, <2>3, <2>4, <2>5, <2>6, <2>7, <2>8, <2>9, <2>10, ImageMovesInv
<1> QED
  BY <1>2, <1>4, <1>5 DEF CheckLocation

LEMMA RemovePictureInv ==
    ASSUME PreviewInv, NEW a \in Askers, RemovePicture(a)
    PROVE  PreviewInv'
<1>1. ask[a].pc = "cleanFile" /\ ask[a].pc \in Cleaning /\ UNCHANGED <<hour, previews, pictures>>
  BY DEF RemovePicture, AskAt, Cleaning
<1>2. CASE CleanupFails(a) /\ UNCHANGED pictureFiles
  BY <1>1, <1>2, CleanupFailsInv
<1>3. CASE pictureFiles' = pictureFiles \ {ask[a].place} /\ CleanedUp(a) /\ UNCHANGED trouble
  <2>1. FilesInv => \A b \in Askers : /\ pictures[b] # NoImage => pictures[b] \in pictureFiles'
                                      /\ ask[b].pc = "store" => ask[b].place \in pictureFiles'
    BY <1>1, <1>3 DEF FilesInv
  <2>2. pictureFiles' \subseteq Askers /\ trouble' \subseteq Troubles /\ trouble \subseteq trouble'
    BY <1>1, <1>3, PictureFacts, CleaningFacts
  <2> QED
    BY <1>1, <1>3, <2>1, <2>2, CleanedUpInv
<1> QED
  BY <1>2, <1>3 DEF RemovePicture

LEMMA PreviewLandsInv ==
    ASSUME PreviewInv, NEW a \in Askers, PreviewLands(a)
    PROVE  PreviewInv'
<1> DEFINE r == AnsweredWith(ask[a].res)
           Waits(b) == b = a \/ (AskAt(b, "joined") /\ SameFlight(a, b))
<1>1. /\ ask[a].pc = "landed" /\ UNCHANGED <<hour, previews, pictures, pictureFiles, trouble>>
      /\ ask' = [b \in Askers |-> IF Waits(b) THEN r ELSE ask[b]]
  BY DEF PreviewLands, AskAt
<1>2. ask[a].res \in PreviewRows
  BY AskFacts DEF Asks
<1>3. r \in Asks /\ r.pc = "answered" /\ r.res = ask[a].res /\ r.place = NoImage /\ r.existing = NoRow
  BY <1>2, AnswerIs
<1>4. \A b \in Askers : Waits(b) => b = a \/ ask[b].pc = "joined"
  BY DEF AskAt
<1> HIDE DEF r, Waits
<1>5. ask \in [Askers -> Asks] /\ \A b \in Askers : AskInv(b, ask[b], pictures[b])
  BY DEF PreviewInv, PreviewTypes, AsksInv
<1>6. \A b \in Askers : \/ ask'[b] = ask[b]
                        \/ ask'[b] = r /\ (ask[b].pc = "landed" \/ (ask[b].pc = "joined" /\ pictures[b] = NoImage))
  <2>1. ASSUME NEW b \in Askers, ask[b].pc = "joined" PROVE pictures[b] = NoImage
    BY <1>5, <2>1 DEF AskInv, NothingUploaded
  <2> QED
    BY <1>1, <1>4, <2>1
<1>7. PreviewTypes'
  <2>1. ask' \in [Askers -> Asks]
    BY <1>1, <1>3, <1>5
  <2> QED
    BY <1>1, <2>1 DEF PreviewInv, PreviewTypes
<1>8. AsksInv'
  <2>1. \A b \in Askers : AskInv(b, r, pictures[b])
    BY <1>3 DEF AskInv, NothingUploaded, Inserting
  <2>2. \A b \in Askers : AskInv(b, ask'[b], pictures[b])
    BY <1>5, <1>6, <2>1
  <2> QED
    BY <1>1, <2>2 DEF AsksInv
<1>9. PlacesInv'
  <2>1. Placed \subseteq Placed'
    BY <1>3, <1>6 DEF Placed, NothingUploaded
  <2>2. \A b \in Askers : {pictures'[b], ask'[b].place} \subseteq Placed \cup {NoImage}
    BY <1>1, <1>3, <1>6, PictureFacts
  <2> QED
    BY <2>1, <2>2 DEF PlacesInv
<1>10. ShownImages' = ShownImages
  BY <1>1, <1>3, <1>6 DEF ShownImages, Ended
<1>11. ASSUME Calm' PROVE ShownInv' /\ FilesInv'
  <2>1. ShownInv /\ FilesInv
    BY <1>1, <1>11, CalmBefore DEF PreviewInv
  <2>2. Available' = Available
    BY <1>10 DEF Available
  <2>3. ask[a].res.image \in Available /\ NoRow.image \in Available
    BY <1>1, <2>1, NewAskIs, AskFacts DEF ShownInv, AskShows, Ended
  <2>4. \A b \in Askers : AskShows(b, r, Available)
    BY <1>3, <2>3 DEF AskShows
  <2>5. \A b \in Askers : AskShows(b, ask'[b], Available')
    BY <1>6, <2>1, <2>2, <2>4 DEF ShownInv
  <2>6. ShownInv'
    BY <1>1, <2>1, <2>2, <2>5 DEF ShownInv
  <2>7. \A b \in Askers : ask'[b].pc \in {"store", "cleanFile"} => ask'[b] = ask[b]
    BY <1>3, <1>6
  <2>8. FilesInv'
    BY <1>1, <2>1, <2>7 DEF FilesInv
  <2> QED
    BY <2>6, <2>8
<1>12. ASSUME trouble' = {} PROVE UsedInv'
  <2>1. UsedInv
    BY <1>1, <1>12 DEF PreviewInv
  <2> QED
    BY <1>1, <1>10, <2>1 DEF UsedInv
<1> QED
  BY <1>7, <1>8, <1>9, <1>11, <1>12 DEF PreviewInv

(* A step that leaves the requests alone may change the clock, and empty rows. *)
LEMMA TimePassesInv ==
    ASSUME PreviewInv, UNCHANGED <<pictures, pictureFiles, ask>>, hour' \in Hours,
           trouble \subseteq trouble', trouble' \subseteq Troubles,
           previews' \in [PreviewKeys -> PreviewRows],
           \A k \in PreviewKeys : previews'[k] = previews[k] \/ previews'[k] = NoRow,
           trouble' = {} => previews' = previews
    PROVE  PreviewInv'
<1>1. PreviewTypes'
  <2>1. ErrorsHaveNoImage(previews')
    BY NewAskIs DEF PreviewInv, PreviewTypes, ErrorsHaveNoImage
  <2> QED
    BY <2>1 DEF PreviewInv, PreviewTypes
<1>2. AsksInv' /\ PlacesInv'
  BY DEF PreviewInv, AsksInv, PlacesInv, Placed
<1>3. ShownImages' = ShownImages /\ Available' = Available
  BY DEF ShownImages, Available
<1>4. ASSUME Calm' PROVE ShownInv' /\ FilesInv'
  <2>1. ShownInv /\ FilesInv
    BY <1>4, CalmBefore DEF PreviewInv
  <2>2. NoRow.image \in Available
    BY NewAskIs DEF Available
  <2>3. \A k \in PreviewKeys : previews'[k].image \in Available
    BY <2>1, <2>2 DEF ShownInv
  <2>4. \A b \in Askers : AskShows(b, ask'[b], Available')
    BY <1>3, <2>1 DEF ShownInv
  <2> QED
    BY <1>3, <2>1, <2>3, <2>4 DEF ShownInv, FilesInv
<1>5. ASSUME trouble' = {} PROVE UsedInv'
  <2>1. UsedInv /\ previews' = previews
    BY <1>5 DEF PreviewInv
  <2> QED
    BY <1>3, <2>1 DEF UsedInv
<1> QED
  BY <1>1, <1>2, <1>4, <1>5 DEF PreviewInv

LEMMA NextHourInv ==
    ASSUME PreviewInv, NextHour
    PROVE  PreviewInv'
<1>1. hour \in Hours /\ trouble \subseteq Troubles /\ previews \in [PreviewKeys -> PreviewRows]
  BY DEF PreviewInv, PreviewTypes
<1>2. hour' \in Hours
  BY <1>1, PreviewAssumption DEF NextHour, Hours
<1> QED
  BY <1>1, <1>2, TimePassesInv DEF NextHour

LEMMA PurgePreviewsInv ==
    ASSUME PreviewInv, PurgePreviews
    PROVE  PreviewInv'
<1>1. hour \in Hours /\ trouble \subseteq Troubles /\ previews \in [PreviewKeys -> PreviewRows] /\ NoRow \in PreviewRows
  BY NewAskIs DEF PreviewInv, PreviewTypes
<1>2. /\ previews' \in [PreviewKeys -> PreviewRows]
      /\ \A k \in PreviewKeys : previews'[k] = previews[k] \/ previews'[k] = NoRow
  BY <1>1 DEF PurgePreviews
<1>3. trouble \subseteq trouble' /\ trouble' \subseteq Troubles /\ (trouble' = {} => previews' = previews)
  BY <1>1 DEF PurgePreviews, Troubles
<1>4. UNCHANGED <<hour, pictures, pictureFiles, ask>>
  BY DEF PurgePreviews
<1> QED
  BY <1>1, <1>2, <1>3, <1>4, TimePassesInv

LEMMA PreviewInvInit == PreviewInit => PreviewInv
<1> SUFFICES ASSUME PreviewInit PROVE PreviewInv
  OBVIOUS
<1>1. /\ previews = [k \in PreviewKeys |-> NoRow] /\ pictures = [b \in Askers |-> NoImage] /\ pictureFiles = {}
      /\ ask = [b \in Askers |-> NewAsk] /\ trouble = {} /\ hour \in Hours
  BY PreviewAssumption DEF PreviewInit, Hours
<1>2. PreviewTypes
  BY <1>1, NewAskIs DEF PreviewTypes, ErrorsHaveNoImage, Images
<1>3. \A b \in Askers : AskInv(b, NewAsk, NoImage)
  BY NewAskIs DEF AskInv, NothingUploaded, Inserting
<1>4. AsksInv /\ PlacesInv
  BY <1>1, <1>3, NewAskIs DEF AsksInv, PlacesInv
<1>5. NoImage \in Available
  BY DEF Available
<1>6. \A b \in Askers : AskShows(b, NewAsk, Available)
  BY <1>5, NewAskIs DEF AskShows
<1>7. ShownInv
  BY <1>1, <1>5, <1>6, NewAskIs DEF ShownInv
<1>8. FilesInv
  BY <1>1, NewAskIs DEF FilesInv
<1>9. UsedInv
  BY <1>1 DEF UsedInv, ShownImages
<1> QED
  BY <1>2, <1>4, <1>7, <1>8, <1>9 DEF PreviewInv

LEMMA PreviewInvStep ==
    ASSUME PreviewInv, [PreviewNext]_previewVars
    PROVE  PreviewInv'
<1>1. CASE UNCHANGED previewVars
  <2>1. UNCHANGED <<hour, previews, pictures, pictureFiles, ask, trouble>>
    BY <1>1 DEF previewVars
  <2>2. hour \in Hours /\ trouble \subseteq Troubles /\ previews \in [PreviewKeys -> PreviewRows]
    BY DEF PreviewInv, PreviewTypes
  <2> QED
    BY <2>1, <2>2, TimePassesInv
<1>2. ASSUME NEW a \in Askers, PreviewStep(a) PROVE PreviewInv'
  BY <1>2, LookUpPreviewInv, FixBucketInv, JoinPreviewInv, GeneratePreviewInv, InsertErrorInv, UploadImageInv,
     StorePictureInv, InsertPreviewInv, ReadExistingInv, UpdateIfErrorInv, ReadUpgradedInv, DeletePictureInv,
     CheckLocationInv, RemovePictureInv, PreviewLandsInv DEF PreviewStep
<1> QED
  BY <1>1, <1>2, PreviewUrlInv, NextHourInv, PurgePreviewsInv DEF PreviewNext

LEMMA PreviewInvIsEnough == PreviewInv => PreviewTypeOK /\ ShownImagesExist /\ UnusedImagesAreRemoved
<1> SUFFICES ASSUME PreviewInv PROVE PreviewTypeOK /\ ShownImagesExist /\ UnusedImagesAreRemoved
  OBVIOUS
<1>1. PreviewTypeOK
  BY DEF PreviewInv, PreviewTypes, PreviewTypeOK, Asks, ErrorsHaveNoImage
<1>2. ShownImagesExist
  <2> SUFFICES ASSUME Calm, NEW row \in {previews[k] : k \in PreviewKeys}
                                        \cup {ask[a].res : a \in {b \in Askers : AskAt(b, "answered")}},
                      row.image # NoImage
               PROVE  pictures[row.image] \in pictureFiles
    BY DEF ShownImagesExist, Calm
  <2>1. ShownInv /\ FilesInv
    BY DEF PreviewInv
  <2>2. row.image \in Available
    <3>1. CASE row \in {previews[k] : k \in PreviewKeys}
      BY <2>1, <3>1 DEF ShownInv
    <3>2. CASE row \in {ask[a].res : a \in {b \in Askers : AskAt(b, "answered")}}
      <4>1. PICK a \in Askers : ask[a].pc = "answered" /\ row = ask[a].res
        BY <3>2 DEF AskAt
      <4> QED
        BY <2>1, <4>1 DEF ShownInv, AskShows, Ended
    <3> QED
      BY <3>1, <3>2
  <2>3. row.image \in Askers /\ pictures[row.image] # NoImage
    BY <2>2 DEF Available, ShownImages
  <2> QED
    BY <2>1, <2>3 DEF FilesInv
<1>3. UnusedImagesAreRemoved
  <2> SUFFICES ASSUME trouble = {}, \A a \in Askers : ask[a].pc \in {"idle", "answered"},
                      NEW a \in Askers, pictures[a] # NoImage
               PROVE  \E k \in PreviewKeys : previews[k].image = a
    BY DEF UnusedImagesAreRemoved
  <2>1. ask[a].pc # "idle"
    BY AskFacts DEF AskInv, NothingUploaded
  <2>2. a \in ShownImages
    BY <2>1 DEF ShownImages, Ended
  <2> QED
    BY <2>2 DEF PreviewInv, UsedInv
<1> QED
  BY <1>1, <1>2, <1>3

(* No statement replaces a preview that was generated. *)
GeneratedStay == \A k \in PreviewKeys : previews[k].code = "" => previews'[k] \in {previews[k], NoRow}

LEMMA PreviewsStay ==
    ASSUME PreviewInv, [PreviewNext]_previewVars
    PROVE  GeneratedStay
<1>1. previews \in [PreviewKeys -> PreviewRows] /\ NoRow.code = "absent"
  BY NewAskIs DEF PreviewInv, PreviewTypes
<1>2. ASSUME NEW k, NEW row, previews' \in {previews, Inserted(k, row)} PROVE GeneratedStay
  BY <1>1, <1>2 DEF Inserted, GeneratedStay
<1>3. CASE UNCHANGED previews
  BY <1>3 DEF GeneratedStay
<1>4. ASSUME NEW a \in Askers, FixBucket(a) PROVE GeneratedStay
  <2>1. previews' \in {previews, Inserted(KeyOf(a), Row("invalidHost", NoImage))}
    BY <1>4 DEF FixBucket
  <2> QED
    BY <1>2, <2>1
<1>5. ASSUME NEW a \in Askers, InsertError(a) \/ InsertPreview(a) PROVE GeneratedStay
  <2>1. previews' \in {previews, Inserted(KeyOf(a), ask[a].res)}
    BY <1>5 DEF InsertError, InsertPreview
  <2> QED
    BY <1>2, <2>1
<1>6. ASSUME NEW a \in Askers, UpdateIfError(a) PROVE GeneratedStay
  <2> DEFINE isError == previews[KeyOf(a)].code \in ErrorCodes
             updated == IF isError THEN [previews EXCEPT ![KeyOf(a)] = ask[a].res] ELSE previews
  <2>1. previews' \in {previews, updated}
    BY <1>6 DEF UpdateIfError
  <2>2. \A j \in PreviewKeys : previews[j].code = "" => updated[j] = previews[j]
    BY <1>1 DEF ErrorCodes
  <2> QED
    BY <2>1, <2>2 DEF GeneratedStay
<1>7. CASE PurgePreviews
  BY <1>1, <1>7 DEF PurgePreviews, GeneratedStay
<1>8. ASSUME NEW a \in Askers, PreviewStep(a) PROVE GeneratedStay
  BY <1>3, <1>4, <1>5, <1>6, <1>8
     DEF PreviewStep, LookUpPreview, JoinPreview, GeneratePreview, UploadImage, StorePicture, ReadExisting,
         ReadUpgraded, DeletePicture, CheckLocation, RemovePicture, PreviewLands
<1>9. ASSUME NEW a \in Askers, NEW host, NEW u, NEW h, PreviewUrl(a, host, u, h) PROVE GeneratedStay
  BY <1>3, <1>9 DEF PreviewUrl
<1> QED
  BY <1>3, <1>7, <1>8, <1>9 DEF PreviewNext, NextHour, previewVars

(* However many requests ask for previews of however many pages, and whatever    *)
(* fails: the variables have their types, what is shown has an image that is     *)
(* there, an image that is stored is shown or removed, and a preview that was    *)
(* generated is not replaced before it expires (table_url_previews.go:94).       *)
THEOREM PreviewsAndImagesAgree == PreviewSpec => []PreviewTypeOK /\ PreviewsAreSound
<1>1. GeneratedStay => [\A k \in PreviewKeys : previews[k].code = "" => previews'[k] \in {previews[k], NoRow}]_previewVars
  BY DEF GeneratedStay
<1> QED
  BY <1>1, PreviewInvInit, PreviewInvStep, PreviewInvIsEnough, PreviewsStay, PTL DEF PreviewSpec, PreviewsAreSound

-----------------------------------------------------------------------------
(* Requests of other servers. *)

(* A request as its steps leave it. *)
Inbounds == [pc : {"idle", "read", "join", "joined", "lock", "fetch", "fetched", "validate", "done"},
             headers : Signed \cup {<< >>}, keys : SUBSET Keys,
             out : {"", "ok", "noAuth", "wrongDestination", "invalid", "noKeys"}]

(* Keys that belong to a server. *)
KeysBelongTo(keys, s) == \A k \in keys : k.owner = s

(* What the headers of a request that is accepted say. *)
SignedByOrigin(headers) ==
    \A i \in DOMAIN headers :
        headers[i].owner = headers[1].origin /\ headers[i].covers /\ headers[i].destination \in {"", OurHost}

(* A request holds keys of its origin only, and is judged by its headers. *)
RequestInv(r) ==
    /\ r.pc \notin {"idle", "done"} => r.headers # << >>
    /\ r.pc = "idle" => r.keys = {}
    /\ KeysBelongTo(r.keys, r.headers[1].origin)
    /\ r.out = "ok" => r.pc = "done" /\ SignedByOrigin(r.headers)

FetchingNow(r) == r.pc \in {"fetch", "fetched"}

FederationInv ==
    /\ FederationTypeOK
    /\ \A s \in Servers : KeysBelongTo(keyStore[s], s)
    /\ \A c \in Inbound : RequestInv(inbound[c])

WorldTypes ==
    /\ address \in [Servers -> Addresses]
    /\ generation \in [Servers -> 0..MaxRotations]
    /\ foundAt \in [Servers -> Addresses \cup {""}]

LEMMA FederationTypes ==
    FederationTypeOK <=>
        /\ WorldTypes
        /\ keyStore \in [Servers -> SUBSET Keys]
        /\ keyLock \in Inbound \cup {NoCaller}
        /\ \A c \in Inbound : keyLock = c <=> FetchingNow(inbound[c])
        /\ inbound \in [Inbound -> Inbounds]
  BY DEF FederationTypeOK, WorldTypes, Inbounds, FetchingNow

LEMMA OriginsAreServers ==
    ASSUME NEW headers \in Signed \cup {<< >>}, headers # << >>
    PROVE  1 \in DOMAIN headers /\ headers[1].origin \in Servers
<1>1. headers \in Seq({headers[i] : i \in DOMAIN headers})
  BY FederationAssumption
<1>2. PICK S : headers \in Seq(S)
  BY <1>1
<1>3. 1 \in DOMAIN headers
  BY <1>2
<1> QED
  BY <1>3, FederationAssumption

(* A request that is accepted passed every check for every header. *)
LEMMA AcceptedIsSigned ==
    ASSUME NEW headers \in Signed, headers # << >>, NEW keys, KeysBelongTo(keys, headers[1].origin)
    PROVE  /\ ValidateXMatrixAuthHeader(headers, keys) \in {"ok", "noAuth", "invalid", "wrongDestination"}
           /\ ValidateXMatrixAuthHeader(headers, keys) = "ok" => SignedByOrigin(headers)
<1> DEFINE Fits(h) == h.origin = headers[1].origin /\ h.destination = headers[1].destination
           ForUs(h) == h.destination \in {"", OurHost}
           Judge(h) == CASE ~Fits(h) -> "invalid"
                         [] ~ForUs(h) -> "wrongDestination"
                         [] OTHER -> IF Verified(h, keys) THEN "ok" ELSE "invalid"
           bad == {i \in DOMAIN headers : Judge(headers[i]) # "ok"}
           first == CHOOSE i \in bad : \A j \in bad : i <= j
           v == CASE headers = << >> -> "noAuth"
                  [] bad = {} -> "ok"
                  [] OTHER -> Judge(headers[first])
<1>1. ValidateXMatrixAuthHeader(headers, keys) = v
  BY DEF ValidateXMatrixAuthHeader
<1>2. \A h : /\ Judge(h) \in {"ok", "invalid", "wrongDestination"}
             /\ Judge(h) = "ok" => ForUs(h) /\ Verified(h, keys)
  OBVIOUS
<1>3. bad # {} => first \in bad
  <2> SUFFICES ASSUME bad # {} PROVE \E i \in bad : \A j \in bad : i <= j
    OBVIOUS
  <2>1. headers \in Seq({headers[i] : i \in DOMAIN headers})
    BY FederationAssumption
  <2>2. DOMAIN headers \subseteq Nat
    <3>1. PICK S : headers \in Seq(S)
      BY <2>1
    <3> QED
      BY <3>1, PositionsAreNaturals
  <2>3. bad \subseteq Nat
    BY <2>2
  <2> HIDE DEF bad
  <2> QED
    BY <2>3, SmallestOf
<1> HIDE DEF Judge
<1>4. v \in {"ok", "noAuth", "invalid", "wrongDestination"}
  BY <1>2
<1>5. ASSUME v = "ok" PROVE bad = {}
  <2> SUFFICES ASSUME bad # {} PROVE FALSE
    OBVIOUS
  <2>1. first \in bad
    BY <1>3
  <2>2. Judge(headers[first]) # "ok"
    BY <2>1
  <2>3. v = Judge(headers[first])
    <3> HIDE DEF bad, first
    <3> QED
      OBVIOUS
  <2> QED
    BY <1>5, <2>2, <2>3
<1>6. ASSUME v = "ok", NEW i \in DOMAIN headers
      PROVE  headers[i].owner = headers[1].origin /\ headers[i].covers /\ headers[i].destination \in {"", OurHost}
  <2>1. Judge(headers[i]) = "ok"
    BY <1>5, <1>6
  <2>2. ForUs(headers[i]) /\ Verified(headers[i], keys)
    BY <1>2, <2>1
  <2> QED
    BY <2>2 DEF Verified, KeysBelongTo
<1> HIDE DEF v
<1> QED
  BY <1>1, <1>4, <1>6 DEF SignedByOrigin

(* One request goes on. *)
LEMMA OneInbound ==
    ASSUME FederationInv, NEW c \in Inbound, NEW r \in Inbounds, RequestInv(r),
           inbound' = [inbound EXCEPT ![c] = r],
           WorldTypes', keyStore' \in [Servers -> SUBSET Keys],
           \A s \in Servers : KeysBelongTo(keyStore'[s], s),
           keyLock' \in Inbound \cup {NoCaller},
           keyLock' = c <=> FetchingNow(r),
           \A d \in Inbound : d # c => (keyLock' = d <=> keyLock = d)
    PROVE  FederationInv'
<1>1. inbound \in [Inbound -> Inbounds] /\ (\A d \in Inbound : keyLock = d <=> FetchingNow(inbound[d]))
      /\ \A d \in Inbound : RequestInv(inbound[d])
  BY FederationTypes DEF FederationInv
<1>2. inbound' \in [Inbound -> Inbounds]
  BY <1>1
<1>3. \A d \in Inbound : inbound'[d] = IF d = c THEN r ELSE inbound[d]
  BY <1>1
<1>4. \A d \in Inbound : (keyLock' = d <=> FetchingNow(inbound'[d])) /\ RequestInv(inbound'[d])
  BY <1>1, <1>3
<1>5. FederationTypeOK'
  <2>1. \A d \in Inbound : keyLock' = d <=> inbound'[d].pc \in {"fetch", "fetched"}
    BY <1>4 DEF FetchingNow
  <2> QED
    BY <1>2, <2>1 DEF FederationTypeOK, WorldTypes, Inbounds
<1> QED
  BY <1>4, <1>5 DEF FederationInv

(* One request goes on, and leaves the rest alone. *)
LEMMA OneQuietInbound ==
    ASSUME FederationInv, NEW c \in Inbound, NEW r \in Inbounds, RequestInv(r),
           inbound' = [inbound EXCEPT ![c] = r], ~FetchingNow(r), ~FetchingNow(inbound[c]),
           UNCHANGED <<worldVars, foundAt, keyStore, keyLock>>
    PROVE  FederationInv'
<1>1. /\ WorldTypes /\ keyStore \in [Servers -> SUBSET Keys] /\ keyLock \in Inbound \cup {NoCaller}
      /\ keyLock # c /\ \A s \in Servers : KeysBelongTo(keyStore[s], s)
  BY FederationTypes DEF FederationInv
<1>2. WorldTypes'
  BY <1>1 DEF WorldTypes, worldVars
<1> QED
  BY <1>1, <1>2, OneInbound

LEMMA InboundIs ==
    ASSUME FederationInv, NEW c \in Inbound
    PROVE  /\ inbound[c] \in Inbounds /\ RequestInv(inbound[c])
           /\ WorldTypes /\ keyStore \in [Servers -> SUBSET Keys] /\ keyLock \in Inbound \cup {NoCaller}
           /\ keyLock = c <=> FetchingNow(inbound[c])
           /\ \A s \in Servers : KeysBelongTo(keyStore[s], s)
           /\ inbound[c].pc \notin {"idle", "done"} =>
                  inbound[c].headers \in Signed /\ inbound[c].headers # << >> /\ OriginOf(c) \in Servers
<1>1. /\ inbound[c] \in Inbounds /\ RequestInv(inbound[c])
      /\ WorldTypes /\ keyStore \in [Servers -> SUBSET Keys] /\ keyLock \in Inbound \cup {NoCaller}
      /\ keyLock = c <=> FetchingNow(inbound[c])
      /\ \A s \in Servers : KeysBelongTo(keyStore[s], s)
  BY FederationTypes DEF FederationInv
<1>2. ASSUME inbound[c].pc \notin {"idle", "done"}
      PROVE  inbound[c].headers \in Signed /\ inbound[c].headers # << >> /\ OriginOf(c) \in Servers
  <2>1. inbound[c].headers \in Signed \cup {<< >>} /\ inbound[c].headers # << >>
    BY <1>1, <1>2 DEF Inbounds, RequestInv
  <2> QED
    BY <2>1, OriginsAreServers DEF OriginOf
<1> QED
  BY <1>1, <1>2

LEMMA ArriveInv ==
    ASSUME FederationInv, NEW c \in Inbound, NEW headers \in Signed, Arrive(c, headers)
    PROVE  FederationInv'
<1>1. inbound[c].pc = "idle" /\ UNCHANGED <<worldVars, foundAt, keyStore, keyLock>>
  BY DEF Arrive, InboundAt
<1>2. /\ inbound[c] \in Inbounds /\ inbound[c].keys = {} /\ inbound[c].out # "ok" /\ ~FetchingNow(inbound[c])
      /\ RequestInv(inbound[c])
  BY <1>1, InboundIs DEF RequestInv, FetchingNow
<1>3. CASE headers = << >>
  <2> DEFINE r == [inbound[c] EXCEPT !.pc = "done", !.out = "noAuth"]
  <2>1. inbound' = [inbound EXCEPT ![c] = r]
    BY <1>3 DEF Arrive
  <2>2. r \in Inbounds /\ RequestInv(r) /\ ~FetchingNow(r)
    BY <1>2 DEF Inbounds, RequestInv, FetchingNow, KeysBelongTo
  <2> HIDE DEF r
  <2> QED
    BY <1>1, <1>2, <2>1, <2>2, OneQuietInbound
<1>4. CASE headers # << >>
  <2> DEFINE r == [inbound[c] EXCEPT !.pc = "read", !.headers = headers]
  <2>1. inbound' = [inbound EXCEPT ![c] = r]
    BY <1>4 DEF Arrive
  <2>2. r \in Inbounds /\ r.pc = "read" /\ r.headers = headers /\ r.keys = {} /\ r.out # "ok"
    BY <1>2 DEF Inbounds
  <2> HIDE DEF r
  <2>3. RequestInv(r) /\ ~FetchingNow(r)
    BY <1>4, <2>2 DEF RequestInv, FetchingNow, KeysBelongTo
  <2> QED
    BY <1>1, <1>2, <2>1, <2>2, <2>3, OneQuietInbound
<1> QED
  BY <1>3, <1>4

LEMMA ValidateInv ==
    ASSUME FederationInv, NEW c \in Inbound, Validate(c)
    PROVE  FederationInv'
<1> DEFINE out == IF inbound[c].keys = {} THEN "noKeys"
                  ELSE ValidateXMatrixAuthHeader(inbound[c].headers, inbound[c].keys)
           r == [inbound[c] EXCEPT !.pc = "done", !.keys = {}, !.out = out]
<1>1. inbound[c].pc = "validate" /\ UNCHANGED <<worldVars, foundAt, keyStore, keyLock>>
  BY DEF Validate, InboundAt
<1>2. inbound' = [inbound EXCEPT ![c] = r]
  BY DEF Validate
<1>3. /\ inbound[c] \in Inbounds /\ ~FetchingNow(inbound[c]) /\ RequestInv(inbound[c])
      /\ inbound[c].headers \in Signed /\ inbound[c].headers # << >>
  BY <1>1, InboundIs DEF FetchingNow
<1>4. KeysBelongTo(inbound[c].keys, inbound[c].headers[1].origin)
  BY <1>3 DEF RequestInv
<1>5. /\ out \in {"ok", "noAuth", "invalid", "wrongDestination", "noKeys"}
      /\ out = "ok" => SignedByOrigin(inbound[c].headers)
  BY <1>3, <1>4, AcceptedIsSigned
<1> HIDE DEF out
<1>6. r \in Inbounds /\ r.pc = "done" /\ r.headers = inbound[c].headers /\ r.keys = {} /\ r.out = out
  BY <1>3, <1>5 DEF Inbounds
<1> HIDE DEF r
<1>7. RequestInv(r) /\ ~FetchingNow(r)
  BY <1>5, <1>6 DEF RequestInv, FetchingNow, KeysBelongTo
<1> QED
  BY <1>1, <1>2, <1>3, <1>6, <1>7, OneQuietInbound

LEMMA NewInboundIs == NewInbound \in Inbounds /\ RequestInv(NewInbound) /\ ~FetchingNow(NewInbound)
  BY DEF NewInbound, Inbounds, RequestInv, FetchingNow, KeysBelongTo

LEMMA RespondInv ==
    ASSUME FederationInv, NEW c \in Inbound, Respond(c)
    PROVE  FederationInv'
<1>1. /\ inbound[c].pc = "done" /\ UNCHANGED <<worldVars, foundAt, keyStore, keyLock>>
      /\ inbound' = [inbound EXCEPT ![c] = NewInbound]
  BY DEF Respond, InboundAt
<1>2. ~FetchingNow(inbound[c])
  BY <1>1 DEF FetchingNow
<1> QED
  BY <1>1, <1>2, NewInboundIs, OneQuietInbound

LEMMA ReadCacheInv ==
    ASSUME FederationInv, NEW c \in Inbound, ReadCache(c)
    PROVE  FederationInv'
<1> DEFINE keys == keyStore[OriginOf(c)]
           pc == IF keys = {} THEN "join" ELSE "validate"
           r == [inbound[c] EXCEPT !.keys = keys, !.pc = pc]
<1>1. /\ inbound[c].pc = "read" /\ UNCHANGED <<worldVars, foundAt, keyStore, keyLock>>
      /\ inbound' = [inbound EXCEPT ![c] = r]
  BY DEF ReadCache, InboundAt
<1>2. /\ inbound[c] \in Inbounds /\ ~FetchingNow(inbound[c]) /\ RequestInv(inbound[c])
      /\ inbound[c].headers # << >> /\ keys \in SUBSET Keys /\ KeysBelongTo(keys, OriginOf(c))
  BY <1>1, InboundIs DEF FetchingNow
<1>3. pc \in {"join", "validate"}
  OBVIOUS
<1> HIDE DEF keys, pc
<1>4. r \in Inbounds /\ r.pc = pc /\ r.headers = inbound[c].headers /\ r.keys = keys /\ r.out = inbound[c].out
  BY <1>2, <1>3 DEF Inbounds
<1> HIDE DEF r
<1>5. RequestInv(r) /\ ~FetchingNow(r)
  BY <1>1, <1>2, <1>3, <1>4 DEF RequestInv, FetchingNow, OriginOf
<1> QED
  BY <1>1, <1>2, <1>4, <1>5, OneQuietInbound

LEMMA JoinKeyFlightInv ==
    ASSUME FederationInv, NEW c \in Inbound, JoinKeyFlight(c)
    PROVE  FederationInv'
<1> DEFINE pc == IF \E d \in Inbound : inbound[d].pc \in Fetching /\ OriginOf(d) = OriginOf(c) THEN "joined" ELSE "lock"
           r == [inbound[c] EXCEPT !.pc = pc]
<1>1. /\ inbound[c].pc = "join" /\ UNCHANGED <<worldVars, foundAt, keyStore, keyLock>>
      /\ inbound' = [inbound EXCEPT ![c] = r]
  BY DEF JoinKeyFlight, InboundAt, InboundGoes
<1>2. inbound[c] \in Inbounds /\ ~FetchingNow(inbound[c]) /\ RequestInv(inbound[c])
  BY <1>1, InboundIs DEF FetchingNow
<1>3. pc \in {"joined", "lock"}
  OBVIOUS
<1> HIDE DEF pc
<1>4. r \in Inbounds /\ r.pc = pc /\ r.headers = inbound[c].headers /\ r.keys = inbound[c].keys /\ r.out = inbound[c].out
  BY <1>2, <1>3 DEF Inbounds
<1> HIDE DEF r
<1>5. RequestInv(r) /\ ~FetchingNow(r)
  BY <1>1, <1>2, <1>3, <1>4 DEF RequestInv, FetchingNow
<1> QED
  BY <1>1, <1>2, <1>4, <1>5, OneQuietInbound

LEMMA LockKeysInv ==
    ASSUME FederationInv, NEW c \in Inbound, LockKeys(c)
    PROVE  FederationInv'
<1> DEFINE r == [inbound[c] EXCEPT !.pc = "fetch"]
<1>1. /\ inbound[c].pc = "lock" /\ UNCHANGED <<worldVars, foundAt, keyStore>> /\ keyLock = NoCaller /\ keyLock' = c
      /\ inbound' = [inbound EXCEPT ![c] = r]
  BY DEF LockKeys, InboundAt, InboundGoes
<1>2. /\ inbound[c] \in Inbounds /\ RequestInv(inbound[c])
      /\ WorldTypes /\ keyStore \in [Servers -> SUBSET Keys] /\ \A s \in Servers : KeysBelongTo(keyStore[s], s)
  BY InboundIs
<1>3. r \in Inbounds /\ r.pc = "fetch" /\ r.headers = inbound[c].headers /\ r.keys = inbound[c].keys /\ r.out = inbound[c].out
  BY <1>2 DEF Inbounds
<1> HIDE DEF r
<1>4. RequestInv(r) /\ FetchingNow(r)
  BY <1>1, <1>2, <1>3 DEF RequestInv, FetchingNow
<1>5. WorldTypes'
  BY <1>1, <1>2 DEF WorldTypes, worldVars
<1>6. keyLock' \in Inbound \cup {NoCaller} /\ (keyLock' = c <=> FetchingNow(r))
      /\ \A d \in Inbound : d # c => (keyLock' = d <=> keyLock = d)
  BY <1>1, <1>4, FederationAssumption
<1> QED
  BY <1>1, <1>2, <1>3, <1>4, <1>5, <1>6, OneInbound

(* Keys that pass the checks are the server's own. *)
LEMMA AcceptedKeysBelong ==
    ASSUME WorldTypes, NEW s \in Servers, NEW a, NEW r \in FoundAt(a), AcceptKeys(s, r)
    PROVE  r.keys \in SUBSET Keys /\ KeysBelongTo(r.keys, s)
<1>1. PICK t \in Servers : r.name = t /\ r.keys = KeysOf(t)
  BY DEF FoundAt, Published
<1>2. t = s
  BY <1>1 DEF AcceptKeys
<1>3. generation[s] \in 0..MaxRotations
  BY DEF WorldTypes
<1> QED
  BY <1>1, <1>2, <1>3 DEF KeysOf, Keys, KeysBelongTo

LEMMA FetchKeysInv ==
    ASSUME FederationInv, NEW c \in Inbound, FetchKeys(c)
    PROVE  FederationInv'
<1> DEFINE s == OriginOf(c)
           R(keys) == [inbound[c] EXCEPT !.pc = "fetched", !.keys = keys]
<1>1. /\ inbound[c].pc = "fetch" /\ UNCHANGED <<worldVars, keyLock>>
      /\ foundAt' = [foundAt EXCEPT ![s] = GetServerApiUrl(s)]
  BY DEF FetchKeys, InboundAt
<1>2. /\ inbound[c] \in Inbounds /\ RequestInv(inbound[c]) /\ FetchingNow(inbound[c])
      /\ WorldTypes /\ keyStore \in [Servers -> SUBSET Keys] /\ \A x \in Servers : KeysBelongTo(keyStore[x], x)
      /\ keyLock = c /\ s \in Servers /\ inbound[c].headers # << >>
  BY <1>1, InboundIs DEF FetchingNow
<1>3. WorldTypes'
  <2>1. GetServerApiUrl(s) \in Addresses \cup {""}
    BY <1>2 DEF GetServerApiUrl, WorldTypes
  <2> QED
    BY <1>1, <1>2, <2>1 DEF WorldTypes, worldVars
<1>4. ASSUME NEW keys \in SUBSET Keys, KeysBelongTo(keys, s)
      PROVE  R(keys) \in Inbounds /\ RequestInv(R(keys)) /\ FetchingNow(R(keys))
  <2> DEFINE r == R(keys)
  <2>1. r \in Inbounds /\ r.pc = "fetched" /\ r.headers = inbound[c].headers /\ r.keys = keys /\ r.out = inbound[c].out
    BY <1>2 DEF Inbounds
  <2> HIDE DEF r
  <2>2. RequestInv(r) /\ FetchingNow(r)
    BY <1>1, <1>2, <1>4, <2>1 DEF RequestInv, FetchingNow, OriginOf
  <2> QED
    BY <2>1, <2>2 DEF r
<1>5. ASSUME NEW keys \in SUBSET Keys, KeysBelongTo(keys, s), inbound' = [inbound EXCEPT ![c] = R(keys)],
             keyStore' = keyStore \/ keyStore' = [keyStore EXCEPT ![s] = keys]
      PROVE  FederationInv'
  <2>1. R(keys) \in Inbounds /\ RequestInv(R(keys)) /\ FetchingNow(R(keys))
    BY <1>4, <1>5
  <2>2. keyStore' \in [Servers -> SUBSET Keys] /\ \A x \in Servers : KeysBelongTo(keyStore'[x], x)
    BY <1>2, <1>5
  <2>3. /\ keyLock' \in Inbound \cup {NoCaller} /\ keyLock' = c
        /\ \A d \in Inbound : d # c => (keyLock' = d <=> keyLock = d)
    BY <1>1, <1>2
  <2> HIDE DEF R
  <2> QED
    BY <1>3, <1>5, <2>1, <2>2, <2>3, OneInbound
<1>6. CASE inbound' = [inbound EXCEPT ![c].pc = "fetched", ![c].keys = {}] /\ UNCHANGED keyStore
  <2>1. inbound' = [inbound EXCEPT ![c] = R({})]
    BY <1>6
  <2>2. {} \in SUBSET Keys /\ KeysBelongTo({}, s)
    BY DEF KeysBelongTo
  <2> HIDE DEF R
  <2> QED
    BY <1>5, <1>6, <2>1, <2>2
<1>7. ASSUME NEW r \in FoundAt(GetServerApiUrl(s)), AcceptKeys(s, r), keyStore' = [keyStore EXCEPT ![s] = r.keys],
             inbound' = [inbound EXCEPT ![c].pc = "fetched", ![c].keys = r.keys]
      PROVE  FederationInv'
  <2>1. r.keys \in SUBSET Keys /\ KeysBelongTo(r.keys, s)
    BY <1>2, <1>7, AcceptedKeysBelong
  <2>2. inbound' = [inbound EXCEPT ![c] = R(r.keys)]
    BY <1>7
  <2> HIDE DEF R
  <2> QED
    BY <1>5, <1>7, <2>1, <2>2
<1> QED
  BY <1>6, <1>7 DEF FetchKeys

LEMMA KeysLandInv ==
    ASSUME FederationInv, NEW c \in Inbound, KeysLand(c)
    PROVE  FederationInv'
<1> DEFINE Gets(d) == d = c \/ (inbound[d].pc = "joined" /\ OriginOf(d) = OriginOf(c))
           After(d) == [inbound[d] EXCEPT !.pc = "validate", !.keys = inbound[c].keys]
<1>1. /\ inbound[c].pc = "fetched" /\ keyLock' = NoCaller /\ UNCHANGED <<worldVars, foundAt, keyStore>>
      /\ inbound' = [d \in Inbound |-> IF Gets(d) THEN After(d) ELSE inbound[d]]
  BY DEF KeysLand, InboundAt
<1>2. /\ inbound \in [Inbound -> Inbounds] /\ WorldTypes /\ keyStore \in [Servers -> SUBSET Keys]
      /\ \A d \in Inbound : keyLock = d <=> FetchingNow(inbound[d])
      /\ \A s \in Servers : KeysBelongTo(keyStore[s], s)
      /\ \A d \in Inbound : RequestInv(inbound[d])
  BY FederationTypes DEF FederationInv
<1>3. keyLock = c
  BY <1>1, <1>2 DEF FetchingNow
<1>4. ASSUME NEW d \in Inbound, Gets(d)
      PROVE  After(d) \in Inbounds /\ RequestInv(After(d)) /\ ~FetchingNow(After(d))
  <2> DEFINE r == After(d)
  <2>1. inbound[d] \in Inbounds /\ inbound[c] \in Inbounds /\ RequestInv(inbound[d]) /\ RequestInv(inbound[c])
    BY <1>2
  <2>2. /\ r \in Inbounds /\ r.pc = "validate" /\ r.headers = inbound[d].headers /\ r.keys = inbound[c].keys
        /\ r.out = inbound[d].out
    BY <2>1 DEF Inbounds
  <2>3. inbound[d].pc \in {"joined", "fetched"} /\ inbound[d].headers[1].origin = inbound[c].headers[1].origin
    BY <1>1, <1>4 DEF OriginOf
  <2> HIDE DEF r
  <2>4. RequestInv(r) /\ ~FetchingNow(r)
    BY <2>1, <2>2, <2>3 DEF RequestInv, FetchingNow
  <2> QED
    BY <2>2, <2>4 DEF r
<1> HIDE DEF After
<1>5. inbound' \in [Inbound -> Inbounds]
  BY <1>1, <1>2, <1>4
<1>6. ASSUME NEW d \in Inbound PROVE ~FetchingNow(inbound'[d]) /\ RequestInv(inbound'[d])
  <2>1. CASE Gets(d)
    BY <1>1, <1>4, <2>1
  <2>2. CASE ~Gets(d)
    <3>1. inbound'[d] = inbound[d] /\ d # c
      BY <1>1, <2>2
    <3> QED
      BY <1>2, <1>3, <3>1
  <2> QED
    BY <2>1, <2>2
<1>7. \A d \in Inbound : keyLock' = d <=> inbound'[d].pc \in {"fetch", "fetched"}
  BY <1>1, <1>6, FederationAssumption DEF FetchingNow
<1>8. FederationTypeOK'
  BY <1>1, <1>2, <1>5, <1>7 DEF FederationTypeOK, WorldTypes, worldVars, Inbounds
<1> QED
  BY <1>1, <1>2, <1>6, <1>8 DEF FederationInv

(* The world goes on, and what is cached expires. *)
LEMMA WorldInv ==
    ASSUME FederationInv,
           \/ \E s \in Changing : RotateKey(s) \/ Move(s) \/ UrlExpires(s)
           \/ \E s \in Servers : KeysExpire(s)
           \/ UNCHANGED federationVars
    PROVE  FederationInv'
<1>1. /\ inbound \in [Inbound -> Inbounds] /\ WorldTypes /\ keyStore \in [Servers -> SUBSET Keys]
      /\ keyLock \in Inbound \cup {NoCaller}
      /\ \A d \in Inbound : keyLock = d <=> FetchingNow(inbound[d])
      /\ \A s \in Servers : KeysBelongTo(keyStore[s], s)
      /\ \A d \in Inbound : RequestInv(inbound[d])
  BY FederationTypes DEF FederationInv
<1>2. UNCHANGED <<inbound, keyLock>>
  BY DEF RotateKey, Move, UrlExpires, KeysExpire, federationVars
<1>3. keyStore' = keyStore \/ \E s \in Servers : keyStore' = [keyStore EXCEPT ![s] = {}]
  BY DEF RotateKey, Move, UrlExpires, KeysExpire, federationVars
<1>4. keyStore' \in [Servers -> SUBSET Keys] /\ \A s \in Servers : KeysBelongTo(keyStore'[s], s)
  BY <1>1, <1>3 DEF KeysBelongTo
<1>5. WorldTypes'
  <2>1. Changing \subseteq Servers /\ MaxRotations \in Nat
    BY FederationAssumption
  <2>2. ASSUME NEW s \in Changing, RotateKey(s) PROVE WorldTypes'
    <3>1. generation[s] \in 0..MaxRotations /\ generation[s] < MaxRotations
      BY <1>1, <2>1, <2>2 DEF RotateKey, WorldTypes
    <3>2. generation[s] + 1 \in 0..MaxRotations
      BY <2>1, <3>1
    <3> QED
      BY <1>1, <2>1, <2>2, <3>2 DEF RotateKey, WorldTypes
  <2>3. ASSUME NEW s \in Changing, Move(s) \/ UrlExpires(s) PROVE WorldTypes'
    BY <1>1, <2>1, <2>3 DEF Move, UrlExpires, WorldTypes, worldVars, Addresses
  <2>4. ASSUME NEW s \in Servers, KeysExpire(s) PROVE WorldTypes'
    BY <1>1, <2>4 DEF KeysExpire, WorldTypes, worldVars
  <2>5. CASE UNCHANGED federationVars
    BY <1>1, <2>5 DEF federationVars, WorldTypes
  <2> QED
    BY <2>2, <2>3, <2>4, <2>5
<1>6. \A d \in Inbound : keyLock' = d <=> inbound'[d].pc \in {"fetch", "fetched"}
  BY <1>1, <1>2 DEF FetchingNow
<1>7. FederationTypeOK'
  BY <1>1, <1>2, <1>4, <1>5, <1>6 DEF FederationTypeOK, WorldTypes, Inbounds
<1> QED
  BY <1>1, <1>2, <1>4, <1>7 DEF FederationInv

LEMMA FederationInvInit == FederationInit => FederationInv
<1> SUFFICES ASSUME FederationInit PROVE FederationInv
  OBVIOUS
<1>1. MaxRotations \in Nat /\ NoCaller \notin Inbound
  BY FederationAssumption
<1>2. FederationTypeOK
  <2>1. WorldTypes
    <3>1. 0 \in 0..MaxRotations
      BY <1>1
    <3> QED
      BY <3>1 DEF FederationInit, WorldTypes, Addresses
  <2>2. keyStore \in [Servers -> SUBSET Keys] /\ keyLock \in Inbound \cup {NoCaller}
    BY DEF FederationInit
  <2>3. \A c \in Inbound : ~FetchingNow(inbound[c]) /\ keyLock # c
    BY <1>1, NewInboundIs DEF FederationInit
  <2>4. inbound \in [Inbound -> Inbounds]
    BY NewInboundIs DEF FederationInit
  <2> QED
    BY <2>1, <2>2, <2>3, <2>4, FederationTypes
<1> QED
  BY <1>2, NewInboundIs DEF FederationInit, FederationInv, KeysBelongTo

LEMMA FederationInvStep ==
    ASSUME FederationInv, [FederationNext]_federationVars
    PROVE  FederationInv'
  BY WorldInv, ArriveInv, ValidateInv, RespondInv, ReadCacheInv, JoinKeyFlightInv, LockKeysInv, FetchKeysInv,
     KeysLandInv DEF FederationNext, InboundStep, LockStep

(* A request that is accepted as a server's was signed by that server, whoever    *)
(* moved and whoever answered for whom (requests_signing.go:129, xmatrix.go:65-  *)
(* 83).                                                                          *)
THEOREM AcceptedAreSigned == FederationSpec => [](FederationTypeOK /\ AcceptedRequestsAreSigned)
<1>1. FederationInv => FederationTypeOK /\ AcceptedRequestsAreSigned
  BY DEF FederationInv, RequestInv, SignedByOrigin, AcceptedRequestsAreSigned, OriginOf
<1> QED
  BY <1>1, FederationInvInit, FederationInvStep, PTL DEF FederationSpec

-----------------------------------------------------------------------------
(* Calls to other servers. *)

(* Breakers, and callers, as the steps leave them. *)
Breakers == [fails : 0..BackoffAt, tripped : BOOLEAN]
RemoteCalls == [pc : {"idle", "create", "ready", "calling", "done"}, kind : Kinds,
                of : Callers \cup {NoBreaker}, got : CallResults]

CallInv == CallTypeOK /\ (~faults => \A c \in Callers : breakers[c] = Closed)

(* A call that has its breaker. *)
HasBreaker(call) == call.pc \in {"ready", "calling"} => call.of # NoBreaker

LEMMA CallTypes ==
    CallTypeOK <=> /\ behind \in {"breakers", "federationBreakers"}
                   /\ table \in Callers \cup {NoBreaker}
                   /\ breakers \in [Callers -> Breakers]
                   /\ remoteCall \in [Callers -> RemoteCalls]
                   /\ {hostFails, faults} \subseteq BOOLEAN
                   /\ \A c \in Callers : HasBreaker(remoteCall[c])
  BY DEF CallTypeOK, Breakers, RemoteCalls, HasBreaker

(* A breaker that counts a failure is a breaker, and a harmless answer is none. *)
LEMMA FailedIsABreaker ==
    ASSUME NEW b \in Breakers
    PROVE  Failed(b) \in Breakers
<1>1. b.fails \in 0..BackoffAt /\ BackoffAt \in Nat
  BY CallAssumption DEF Breakers
<1> DEFINE n == IF b.fails < BackoffAt THEN b.fails + 1 ELSE b.fails
           t == b.tripped \/ b.fails + 1 >= BackoffAt
<1>2. n \in 0..BackoffAt
  BY <1>1
<1>3. t \in BOOLEAN
  OBVIOUS
<1>4. Failed(b) = [fails |-> n, tripped |-> t]
  BY DEF Failed
<1> HIDE DEF n, t
<1> QED
  BY <1>2, <1>3, <1>4 DEF Breakers

LEMMA ClosedIsABreaker == Closed \in Breakers /\ Closed.tripped = FALSE
<1>1. 0 \in 0..BackoffAt
  BY CallAssumption
<1> QED
  BY <1>1 DEF Closed, Breakers

LEMMA OutcomeIs ==
    ASSUME NEW kind \in Kinds, NEW answer \in HostAnswers
    PROVE  /\ Outcome(kind, answer).caller \in CallResults
           /\ Outcome(kind, answer).breaker \in {"ok", "fail"}
           /\ Harmless(kind, answer) => Outcome(kind, answer).breaker = "ok"
  BY DEF Outcome, Harmless, Kinds, HostAnswers, CallResults

(* One caller goes on, one breaker may learn of it. *)
LEMMA OneCall ==
    ASSUME CallInv, NEW c \in Callers, NEW call \in RemoteCalls, HasBreaker(call),
           remoteCall' = [remoteCall EXCEPT ![c] = call],
           breakers' \in [Callers -> Breakers], table' \in Callers \cup {NoBreaker},
           faults' \in BOOLEAN,
           ~faults' => ~faults /\ \A b \in Callers : breakers'[b] \in {breakers[b], Closed},
           UNCHANGED <<behind, hostFails>>
    PROVE  CallInv'
<1>1. /\ behind \in {"breakers", "federationBreakers"}
      /\ remoteCall \in [Callers -> RemoteCalls] /\ hostFails \in BOOLEAN
      /\ \A d \in Callers : HasBreaker(remoteCall[d])
  BY CallTypes DEF CallInv
<1>2. remoteCall' \in [Callers -> RemoteCalls]
  BY <1>1
<1>3. \A d \in Callers : HasBreaker(remoteCall'[d])
  BY <1>1
<1>4. {hostFails', faults'} \subseteq BOOLEAN
  BY <1>1
<1>5. CallTypeOK'
  BY <1>1, <1>2, <1>3, <1>4 DEF CallTypeOK, Breakers, RemoteCalls, HasBreaker
<1>6. ~faults' => \A b \in Callers : breakers'[b] = Closed
  BY DEF CallInv
<1> QED
  BY <1>5, <1>6 DEF CallInv

LEMMA CallInvInit == CallInit => CallInv
<1> SUFFICES ASSUME CallInit PROVE CallInv
  OBVIOUS
<1>1. /\ behind \in {"breakers", "federationBreakers"} /\ table = NoBreaker
      /\ breakers = [c \in Callers |-> Closed] /\ remoteCall = [c \in Callers |-> NewCall]
  BY DEF CallInit
<1>2. {hostFails, faults} \subseteq BOOLEAN
  BY DEF CallInit
<1>3. NewCall \in RemoteCalls /\ HasBreaker(NewCall)
  BY DEF NewCall, RemoteCalls, HasBreaker, Kinds, CallResults
<1>4. CallTypeOK
  BY <1>1, <1>2, <1>3, ClosedIsABreaker, CallTypes
<1> QED
  BY <1>1, <1>4 DEF CallInv

LEMMA CallInvStep ==
    ASSUME CallInv, [CallNext]_callVars
    PROVE  CallInv'
<1>1. /\ table \in Callers \cup {NoBreaker} /\ breakers \in [Callers -> Breakers]
      /\ remoteCall \in [Callers -> RemoteCalls]
      /\ \A d \in Callers : HasBreaker(remoteCall[d])
  BY CallTypes DEF CallInv
<1>2. faults \in BOOLEAN /\ hostFails \in BOOLEAN
  BY CallTypes DEF CallInv
<1>3. CASE UNCHANGED callVars
  <2>1. UNCHANGED <<behind, table, breakers, remoteCall>> /\ hostFails' = hostFails /\ faults' = faults
    BY <1>3 DEF callVars
  <2>2. {hostFails', faults'} \subseteq BOOLEAN
    BY <1>2, <2>1
  <2>3. CallTypeOK'
    BY <2>1, <2>2 DEF CallInv, CallTypeOK
  <2> QED
    BY <2>1, <2>3 DEF CallInv
<1>4. ASSUME NEW c \in Callers, NEW call \in RemoteCalls, HasBreaker(call), remoteCall' = [remoteCall EXCEPT ![c] = call],
             UNCHANGED <<behind, breakers, hostFails, faults>>, table' \in {table, c}
      PROVE  CallInv'
  <2>1. faults' \in BOOLEAN /\ (~faults' => ~faults /\ \A b \in Callers : breakers'[b] \in {breakers[b], Closed})
    BY <1>2, <1>4
  <2>2. breakers' \in [Callers -> Breakers] /\ table' \in Callers \cup {NoBreaker} /\ UNCHANGED <<behind, hostFails>>
    BY <1>1, <1>4
  <2> QED
    BY <1>4, <2>1, <2>2, OneCall
<1>5. ASSUME NEW c \in Callers, NEW kind \in KindsHere, LoadBreaker(c, kind) PROVE CallInv'
  <2> DEFINE pc == IF table = NoBreaker THEN "create" ELSE "ready"
             call == [remoteCall[c] EXCEPT !.pc = pc, !.kind = kind, !.of = table]
  <2>1. remoteCall' = [remoteCall EXCEPT ![c] = call] /\ UNCHANGED <<behind, table, breakers, hostFails, faults>>
    BY <1>5 DEF LoadBreaker
  <2>2. kind \in Kinds
    BY DEF KindsHere, Kinds
  <2>3. pc \in {"create", "ready"} /\ (pc = "ready" => table # NoBreaker)
    OBVIOUS
  <2> HIDE DEF pc
  <2>4. call \in RemoteCalls /\ HasBreaker(call)
    BY <1>1, <2>2, <2>3 DEF RemoteCalls, HasBreaker
  <2> HIDE DEF call
  <2> QED
    BY <1>4, <2>1, <2>4
<1>6. ASSUME NEW c \in Callers, StoreBreaker(c) PROVE CallInv'
  <2> DEFINE call == [remoteCall[c] EXCEPT !.pc = "ready", !.of = c]
  <2>1. remoteCall' = [remoteCall EXCEPT ![c] = call] /\ UNCHANGED <<behind, breakers, hostFails, faults>> /\ table' = c
    BY <1>6 DEF StoreBreaker
  <2>2. call \in RemoteCalls /\ HasBreaker(call)
    BY <1>1, CallAssumption DEF RemoteCalls, HasBreaker
  <2> HIDE DEF call
  <2> QED
    BY <1>4, <2>1, <2>2
<1>7. ASSUME NEW c \in Callers, NEW got \in CallResults
      PROVE  /\ [remoteCall[c] EXCEPT !.pc = "done", !.got = got] \in RemoteCalls
             /\ HasBreaker([remoteCall[c] EXCEPT !.pc = "done", !.got = got])
             /\ CallReturns(c, got) => remoteCall' = [remoteCall EXCEPT ![c] = [remoteCall[c] EXCEPT !.pc = "done", !.got = got]]
  BY <1>1 DEF RemoteCalls, HasBreaker, CallReturns
<1>8. ASSUME NEW c \in Callers, AskBreaker(c) \/ CallCancelled(c) PROVE CallInv'
  <2>1. UNCHANGED <<behind, table, breakers, hostFails, faults>>
    BY <1>8 DEF AskBreaker, CallCancelled
  <2>2. CASE CallReturns(c, "open") \/ CallReturns(c, "error")
    <3>1. "open" \in CallResults /\ "error" \in CallResults
      BY DEF CallResults
    <3> QED
      BY <1>4, <1>7, <2>1, <2>2, <3>1
  <2>3. CASE AskBreaker(c) /\ remoteCall' = [remoteCall EXCEPT ![c].pc = "calling"]
    <3> DEFINE call == [remoteCall[c] EXCEPT !.pc = "calling"]
    <3>1. remoteCall' = [remoteCall EXCEPT ![c] = call] /\ remoteCall[c].pc = "ready"
      BY <2>3 DEF AskBreaker, CallAt
    <3>2. call \in RemoteCalls /\ HasBreaker(call)
      BY <1>1, <3>1 DEF RemoteCalls, HasBreaker
    <3> HIDE DEF call
    <3> QED
      BY <1>4, <2>1, <3>1, <3>2
  <2> QED
    BY <1>8, <2>2, <2>3 DEF AskBreaker, CallCancelled
<1>9. ASSUME NEW c \in Callers, remoteCall[c].pc = "calling"
      PROVE  /\ remoteCall[c].of \in Callers /\ breakers[remoteCall[c].of] \in Breakers
             /\ remoteCall[c].kind \in Kinds /\ Failed(breakers[remoteCall[c].of]) \in Breakers
  <2>1. remoteCall[c].of \in Callers /\ remoteCall[c].kind \in Kinds
    BY <1>1, <1>9 DEF RemoteCalls, HasBreaker
  <2> QED
    BY <1>1, <2>1, FailedIsABreaker
<1>10. ASSUME NEW c \in Callers, NEW answer \in HostAnswers, HostReplies(c, answer) PROVE CallInv'
  <2> DEFINE kind == remoteCall[c].kind
             b == remoteCall[c].of
             out == Outcome(kind, answer)
             new == IF out.breaker = "ok" THEN Closed ELSE Failed(breakers[b])
             harm == ~Harmless(kind, answer)
  <2>1. remoteCall[c].pc = "calling" /\ UNCHANGED <<behind, table, hostFails>>
    BY <1>10 DEF HostReplies, CallAt
  <2>2. breakers' = [breakers EXCEPT ![b] = new] /\ CallReturns(c, out.caller)
    BY <1>10 DEF HostReplies
  <2>3. faults' = (faults \/ harm)
    BY <1>10 DEF HostReplies
  <2>4. b \in Callers /\ kind \in Kinds /\ Failed(breakers[b]) \in Breakers
    BY <1>9, <2>1
  <2>5. out.caller \in CallResults /\ (~harm => out.breaker = "ok")
    BY <2>4, OutcomeIs
  <2>6. new \in Breakers /\ (~harm => new = Closed)
    BY <2>4, <2>5, ClosedIsABreaker
  <2> HIDE DEF new, harm, out
  <2>7. breakers' \in [Callers -> Breakers] /\ \A d \in Callers : breakers'[d] \in {breakers[d], new}
    BY <1>1, <2>2, <2>4, <2>6
  <2>8. ~faults' => ~faults /\ \A d \in Callers : breakers'[d] \in {breakers[d], Closed}
    <3> SUFFICES ASSUME ~faults' PROVE ~faults /\ \A d \in Callers : breakers'[d] \in {breakers[d], Closed}
      OBVIOUS
    <3>1. ~faults /\ ~harm
      BY <2>3
    <3> QED
      BY <2>6, <2>7, <3>1
  <2>9. faults' \in BOOLEAN /\ table' \in Callers \cup {NoBreaker}
    BY <1>1, <2>1, <2>3
  <2> QED
    BY <1>7, <2>1, <2>2, <2>5, <2>7, <2>8, <2>9, OneCall
<1>11. ASSUME NEW c \in Callers, CallTimesOut(c) PROVE CallInv'
  <2> DEFINE b == remoteCall[c].of
  <2>1. /\ remoteCall[c].pc = "calling" /\ UNCHANGED <<behind, table, hostFails>>
        /\ breakers' = [breakers EXCEPT ![b] = Failed(breakers[b])] /\ CallReturns(c, "timeout")
    BY <1>11 DEF CallTimesOut, CallAt
  <2>2. faults' = TRUE
    BY <1>11 DEF CallTimesOut
  <2>3. "timeout" \in CallResults
    BY DEF CallResults
  <2>4. breakers' \in [Callers -> Breakers]
    BY <1>1, <1>9, <2>1
  <2>5. faults' \in BOOLEAN /\ table' \in Callers \cup {NoBreaker}
        /\ (~faults' => ~faults /\ \A d \in Callers : breakers'[d] \in {breakers[d], Closed})
    BY <1>1, <2>1, <2>2
  <2> QED
    BY <1>7, <2>1, <2>3, <2>4, <2>5, OneCall
<1>12. ASSUME NEW c \in Callers, NextCall(c) PROVE CallInv'
  <2>1. remoteCall' = [remoteCall EXCEPT ![c] = NewCall] /\ UNCHANGED <<behind, table, breakers, hostFails, faults>>
    BY <1>12 DEF NextCall
  <2>2. NewCall \in RemoteCalls /\ HasBreaker(NewCall)
    BY DEF NewCall, RemoteCalls, HasBreaker, Kinds, CallResults
  <2> QED
    BY <1>4, <2>1, <2>2
<1>13. CASE HostGoesDown
  <2>1. UNCHANGED <<behind, table, breakers, remoteCall>> /\ hostFails' = TRUE /\ faults' = faults
    BY <1>13 DEF HostGoesDown
  <2>2. {hostFails', faults'} \subseteq BOOLEAN
    BY <1>2, <2>1
  <2>3. CallTypeOK'
    BY <2>1, <2>2 DEF CallInv, CallTypeOK
  <2> QED
    BY <2>1, <2>3 DEF CallInv
<1> QED
  BY <1>3, <1>5, <1>6, <1>8, <1>10, <1>11, <1>12, <1>13 DEF CallNext, CallStep, CallEnds

(* Unknown tokens, and the 404s of federation, do not trip a breaker, however     *)
(* many callers meet them and on whichever breakers (errors.go:24).              *)
THEOREM TokensTripNoBreaker == CallSpec => [](CallTypeOK /\ BadTokensDoNotTrip)
<1>1. CallInv => CallTypeOK /\ BadTokensDoNotTrip
  BY ClosedIsABreaker DEF CallInv, BadTokensDoNotTrip
<1> QED
  BY <1>1, CallInvInit, CallInvStep, PTL DEF CallSpec

-----------------------------------------------------------------------------
(* The copy of a remote stream. *)

(* Past its reads the upload has read everything, or failed; the pipe is closed *)
(* by the upload alone, after its result is known.                              *)
CopyInv ==
    /\ CopyTypeOK
    /\ uploader = "rest" => piped = CopyReads
    /\ uploader \in {"closing", "done"} => (uploaded = "error" \/ piped = CopyReads)
    /\ pipe = "closed" => uploader = "done"
    /\ bufferer = "idle" <=> uploader = "idle"
    /\ copyResult # "" => uploader = "done"
    /\ CopyIsComplete

LEMMA OneMoreRead == \A k \in Nat : \A n \in 0..k : n < k => n + 1 \in 0..k
OBVIOUS

LEMMA CopyInitInv == CopyInit => CopyInv
<1>1. 0 \in 0..CopyReads
  BY RemoteCopyAssumption
<1> QED
  BY <1>1 DEF CopyInit, CopyInv, CopyTypeOK, CopyIsComplete

LEMMA CopyNextInv == CopyInv /\ [CopyNext]_copyVars => CopyInv'
<1> SUFFICES ASSUME CopyInv, [CopyNext]_copyVars PROVE CopyInv'
  OBVIOUS
<1> USE RemoteCopyAssumption DEF CopyInv, CopyTypeOK, CopyIsComplete
<1>1. CASE StartCopy
  BY <1>1 DEF StartCopy
<1>2. CASE CopyPart
  <2>1. CopyReads \in Nat /\ piped \in 0..CopyReads /\ piped < CopyReads /\ piped' = piped + 1
    BY <1>2 DEF CopyPart
  <2>2. piped' \in 0..CopyReads
    BY <2>1, OneMoreRead
  <2> QED
    BY <1>2, <2>2 DEF CopyPart
<1>3. CASE InputEnds
  BY <1>3 DEF InputEnds
<1>4. CASE UploadFailsEarly
  BY <1>4 DEF UploadFailsEarly
<1>5. CASE UploadReturns
  BY <1>5 DEF UploadReturns
<1>6. CASE UpstreamClose
  BY <1>6 DEF UpstreamClose
<1>7. CASE BufferEnds
  BY <1>7 DEF BufferEnds
<1>8. CASE BufferFails
  BY <1>8 DEF BufferFails
<1>9. CASE PutAndReturnStream
  BY <1>9 DEF PutAndReturnStream
<1>10. CASE UNCHANGED copyVars
  BY <1>10 DEF copyVars
<1> QED
  BY <1>1, <1>2, <1>3, <1>4, <1>5, <1>6, <1>7, <1>8, <1>9, <1>10 DEF CopyNext, CopyStep

LEMMA CopyInvariance == CopySpec => []CopyInv
BY CopyInitInv, CopyNextInv, PTL DEF CopySpec

(* The variables of the copy keep their types, for any number of reads.        *)
THEOREM CopyTypeCorrect == CopySpec => []CopyTypeOK
<1>1. CopyInv => CopyTypeOK
  BY DEF CopyInv
<1> QED
  BY <1>1, CopyInvariance, PTL

(* However long the remote media is, and wherever the upload or the buffer     *)
(* gives up, PutAndReturnStream returns the whole of it or an error            *)
(* (put_and_return_stream.go:40-90).                                           *)
THEOREM RemoteCopiesAreComplete == CopySpec => []CopyIsComplete
<1>1. CopyInv => CopyIsComplete
  BY DEF CopyInv
<1> QED
  BY <1>1, CopyInvariance, PTL

-----------------------------------------------------------------------------
(* Quotas. *)

(* The sizes of the stored files. *)
LEMMA StoredIsFinite ==
    ASSUME QuotaTypeOK
    PROVE  IsFiniteSet(Stored) /\ Stored \subseteq Slots /\ \A s \in Stored : files[s] \in Nat
<1>1. IsFiniteSet(Slots)
  BY QuotaAssumption, FS_Interval DEF Slots
<1>2. Stored \subseteq Slots
  BY DEF Stored
<1>3. ASSUME NEW s \in Stored PROVE files[s] \in Nat
  <2>1. files[s] \in Sizes \cup {NoFile} /\ files[s] >= 0
    BY DEF Stored, QuotaTypeOK
  <2>2. Sizes \subseteq Nat
    BY QuotaAssumption
  <2>3. CASE files[s] \in Sizes
    BY <2>2, <2>3
  <2>4. CASE files[s] = NoFile
    BY <2>1, <2>4 DEF NoFile
  <2> QED
    BY <2>1, <2>3, <2>4
<1> QED
  BY <1>1, <1>2, <1>3, FS_Subset

LEMMA UsageIsASum ==
    ASSUME QuotaTypeOK
    PROVE  /\ \E g : SumsOf(g, Stored, files) /\ SumOver(files, Stored) = g[Stored]
           /\ UsageIsExact <=> uploadedBytes = SumOver(files, Stored)
<1>1. IsFiniteSet(Stored) /\ \A s \in Stored : files[s] \in Int
  BY StoredIsFinite
<1>2. \E g : SumsOf(g, Stored, files) /\ SumOver(files, Stored) = g[Stored]
  BY <1>1, SumIsDefined
<1>3. UsageIsExact <=> uploadedBytes = SumOver(files, Stored)
  BY DEF UsageIsExact, SumOver, MapThenSumSet, MapThenFoldSet
<1> QED
  BY <1>2, <1>3

(* A row that is inserted adds its size, one that is deleted takes it away. *)
LEMMA SumOfOneMore ==
    ASSUME NEW S, IsFiniteSet(S), NEW x, x \notin S, NEW w, NEW v,
           \A y \in S : w[y] \in Int /\ v[y] = w[y], v[x] \in Int
    PROVE  SumOver(w, S) \in Int /\ SumOver(v, S \cup {x}) = v[x] + SumOver(w, S)
<1>1. IsFiniteSet(S \cup {x})
  BY FS_AddElement
<1>2. PICK g : SumsOf(g, S, w) /\ SumOver(w, S) = g[S]
  BY SumIsDefined
<1>3. \A y \in S \cup {x} : v[y] \in Int
  OBVIOUS
<1>4. PICK h : SumsOf(h, S \cup {x}, v) /\ SumOver(v, S \cup {x}) = h[S \cup {x}]
  BY <1>1, <1>3, SumIsDefined
<1>5. (S \cup {x}) \ {x} = S /\ S \cup {x} \in SUBSET (S \cup {x}) /\ x \in S \cup {x}
  OBVIOUS
<1>6. h[S \cup {x}] = v[x] + h[(S \cup {x}) \ {x}]
  BY <1>4, <1>5 DEF SumsOf
<1>7. S \subseteq S \cup {x} /\ \A y \in S : w[y] = v[y]
  OBVIOUS
<1>8. g[S] = h[S]
  BY <1>2, <1>4, <1>7, SumsAgree
<1>9. g[S] \in Int
  BY <1>2 DEF SumsOf
<1> QED
  BY <1>2, <1>4, <1>5, <1>6, <1>8, <1>9

(* No sum of sizes is negative. *)
LEMMA SumIsNatural ==
    ASSUME NEW S, IsFiniteSet(S), NEW w, \A y \in S : w[y] \in Nat
    PROVE  SumOver(w, S) \in Nat
<1>1. \A y \in S : w[y] \in Int
  OBVIOUS
<1>2. PICK g : SumsOf(g, S, w) /\ SumOver(w, S) = g[S]
  BY <1>1, SumIsDefined
<1> DEFINE c == [s \in SUBSET S |-> CHOOSE x \in s : TRUE]
           P == {s \in SUBSET S : g[s] \in Nat}
<1>3. Chooses(c, S)
  BY DEF Chooses
<1> HIDE DEF c
<1>4. {} \in P
  BY <1>2 DEF SumsOf
<1>5. ASSUME NEW s \in SUBSET S, s # {}, s \ {c[s]} \in P PROVE s \in P
  <2>1. c[s] \in s
    BY <1>3, <1>5 DEF Chooses
  <2>2. g[s] = w[c[s]] + g[s \ {c[s]}]
    BY <1>2, <2>1 DEF SumsOf
  <2>3. w[c[s]] \in Nat /\ g[s \ {c[s]}] \in Nat
    BY <1>5, <2>1
  <2> QED
    BY <2>2, <2>3
<1>6. \A s \in SUBSET S : s \in P
  <2> HIDE DEF P
  <2>1. Grows(P, S, c)
    BY <1>4, <1>5 DEF Grows
  <2> QED
    BY <1>3, <2>1, TakeAway
<1>7. S \in P
  BY <1>6
<1> QED
  BY <1>2, <1>7

(* Taking a file away is the other side of inserting it. *)
LEMMA SumOfOneLess ==
    ASSUME NEW S, IsFiniteSet(S), NEW x \in S, NEW w, NEW v,
           \A y \in S : w[y] \in Int, \A y \in S \ {x} : v[y] = w[y]
    PROVE  SumOver(w, S) = w[x] + SumOver(v, S \ {x}) /\ SumOver(v, S \ {x}) \in Int
<1>1. IsFiniteSet(S \ {x}) /\ x \notin S \ {x}
  BY FS_RemoveElement
<1>2. \A y \in S \ {x} : v[y] \in Int /\ w[y] = v[y]
  OBVIOUS
<1>3. SumOver(v, S \ {x}) \in Int /\ SumOver(w, (S \ {x}) \cup {x}) = w[x] + SumOver(v, S \ {x})
  BY <1>1, <1>2, SumOfOneMore
<1>4. (S \ {x}) \cup {x} = S
  OBVIOUS
<1> QED
  BY <1>3, <1>4

(* An upload that passed a check has a size. *)
UploadsHaveASize == \A r \in Requests : req[r].pc \in {"checkFiles", "insert"} => req[r].size \in Sizes

(* What a step does to the files and their count. *)
LEMMA FilesStep ==
    ASSUME QuotaTypeOK, UsageIsExact, UploadsHaveASize, [QuotaNext]_quotaVars
    PROVE  /\ files' \in [Slots -> Sizes \cup {NoFile}]
           /\ uploadedBytes' \in Nat
           /\ UsageIsExact'
           /\ Cardinality(Stored) \in Nat
           /\ \/ files' = files /\ uploadedBytes' = uploadedBytes
              \/ \E r \in Requests : /\ InsertMedia(r)
                                     /\ Cardinality(Stored)' = Cardinality(Stored) + 1
              \/ DeleteMedia /\ uploadedBytes' <= uploadedBytes /\ Cardinality(Stored)' = Cardinality(Stored) - 1
<1> DEFINE S == Stored
<1>1. IsFiniteSet(S) /\ S \subseteq Slots /\ \A s \in S : files[s] \in Nat
  BY StoredIsFinite
<1>2. uploadedBytes = SumOver(files, S)
  BY UsageIsASum
<1>3. Cardinality(S) \in Nat
  BY <1>1, FS_CardinalityType
<1>4. (UsageIsExact <=> uploadedBytes = SumOver(files, S))'
  BY DEF UsageIsExact, SumOver, MapThenSumSet, MapThenFoldSet
<1>5. Sizes \subseteq Nat \ {0} /\ NoFile \notin Sizes /\ NoFile = -1
  BY QuotaAssumption DEF NoFile
<1>6. CASE files' = files /\ uploadedBytes' = uploadedBytes
  <2>1. S' = S
    BY <1>6 DEF Stored
  <2>2. UsageIsExact'
    BY <1>2, <1>4, <1>6, <2>1
  <2> QED
    BY <1>3, <1>6, <2>2 DEF QuotaTypeOK
<1>7. ASSUME NEW r \in Requests, InsertMedia(r)
      PROVE  /\ files' \in [Slots -> Sizes \cup {NoFile}]
             /\ uploadedBytes' \in Nat
             /\ UsageIsExact'
             /\ Cardinality(S)' = Cardinality(S) + 1
  <2>1. PICK x \in Slots \ S : files' = [files EXCEPT ![x] = req[r].size]
    BY <1>7 DEF InsertMedia
  <2>2. req[r].size \in Sizes /\ files \in [Slots -> Sizes \cup {NoFile}] /\ uploadedBytes' = uploadedBytes + req[r].size
    BY <1>7 DEF QuotaTypeOK, UploadsHaveASize, InsertMedia
  <2>3. files' \in [Slots -> Sizes \cup {NoFile}] /\ files'[x] = req[r].size /\ \A y \in Slots \ {x} : files'[y] = files[y]
    BY <2>1, <2>2
  <2>4. files'[x] \in Nat /\ \A y \in S : files'[y] = files[y] /\ files[y] \in Int
    <3> HIDE DEF S
    <3>1. files'[x] \in Nat
      BY <1>5, <2>2, <2>3
    <3>2. ASSUME NEW y \in S PROVE files'[y] = files[y] /\ files[y] \in Int
      <4>1. files[y] \in Nat /\ y \in Slots \ {x}
        BY <1>1, <2>1
      <4> QED
        BY <2>3, <4>1
    <3> QED
      BY <3>1, <3>2
  <2>5. S' = S \cup {x}
    <3>1. S' = {y \in Slots : files'[y] >= 0} /\ S = {y \in Slots : files[y] >= 0}
      BY DEF Stored
    <3> HIDE DEF S
    <3> QED
      BY <2>1, <2>3, <2>4, <3>1
  <2> HIDE DEF S
  <2>6. SumOver(files, S) \in Int /\ SumOver(files', S \cup {x}) = files'[x] + SumOver(files, S)
    <3>1. files'[x] \in Int /\ x \notin S
      BY <2>1, <2>4
    <3> QED
      BY <1>1, <2>4, <3>1, SumOfOneMore
  <2>7. SumOver(files, S) \in Nat
    BY <1>1, SumIsNatural
  <2>8. uploadedBytes' = files'[x] + SumOver(files, S)
    BY <1>2, <2>2, <2>3, <2>4, <2>7
  <2>9. UsageIsExact'
    BY <1>4, <2>5, <2>6, <2>8
  <2>10. Cardinality(S \cup {x}) = Cardinality(S) + 1
    BY <1>1, <2>1, FS_AddElement
  <2> QED
    BY <2>3, <2>4, <2>5, <2>7, <2>8, <2>9, <2>10
<1>8. ASSUME DeleteMedia
      PROVE  /\ files' \in [Slots -> Sizes \cup {NoFile}]
             /\ uploadedBytes' \in Nat /\ uploadedBytes' <= uploadedBytes
             /\ UsageIsExact'
             /\ Cardinality(S)' = Cardinality(S) - 1
  <2>1. PICK x \in S : files' = [files EXCEPT ![x] = NoFile] /\ uploadedBytes' = uploadedBytes - files[x]
    BY <1>8 DEF DeleteMedia
  <2>2. files \in [Slots -> Sizes \cup {NoFile}] /\ x \in Slots
    BY <1>1, <2>1 DEF QuotaTypeOK
  <2>3. files' \in [Slots -> Sizes \cup {NoFile}] /\ files'[x] = NoFile /\ \A y \in Slots \ {x} : files'[y] = files[y]
    BY <2>1, <2>2
  <2>4. \A y \in S \ {x} : files'[y] = files[y]
    BY <1>1, <2>3
  <2>5. S' = S \ {x}
    <3>1. S' = {y \in Slots : files'[y] >= 0} /\ S = {y \in Slots : files[y] >= 0}
      BY DEF Stored
    <3>2. ~(NoFile >= 0)
      BY <1>5
    <3> HIDE DEF S
    <3> QED
      BY <2>1, <2>3, <2>4, <3>1, <3>2
  <2> HIDE DEF S
  <2>6. \A y \in S : files[y] \in Int
    BY <1>1
  <2>7. SumOver(files, S) = files[x] + SumOver(files', S \ {x})
    <3>1. IsFiniteSet(S) /\ x \in S
      BY <1>1, <2>1
    <3> QED
      BY <2>4, <2>6, <3>1, SumOfOneLess
  <2>8. SumOver(files', S \ {x}) \in Nat
    <3>1. IsFiniteSet(S \ {x}) /\ \A y \in S \ {x} : files'[y] \in Nat
      BY <1>1, <2>4, FS_RemoveElement
    <3> QED
      BY <3>1, SumIsNatural
  <2>9. files[x] \in Nat
    BY <1>1, <2>1
  <2>10. uploadedBytes' = SumOver(files', S \ {x}) /\ uploadedBytes' <= uploadedBytes
    <3> DEFINE rest == SumOver(files', S \ {x})
               size == files[x]
    <3>1. uploadedBytes = size + rest /\ uploadedBytes' = uploadedBytes - size /\ size \in Nat /\ rest \in Nat
      BY <1>2, <2>1, <2>7, <2>8, <2>9
    <3> HIDE DEF rest, size
    <3>2. uploadedBytes' = rest /\ uploadedBytes' <= uploadedBytes
      BY <3>1
    <3> QED
      BY <3>2 DEF rest
  <2>11. UsageIsExact'
    BY <1>4, <2>5, <2>10
  <2>12. Cardinality(S \ {x}) = Cardinality(S) - 1
    BY <1>1, <2>1, FS_RemoveElement
  <2> QED
    BY <2>3, <2>5, <2>8, <2>10, <2>11, <2>12
<1>9. \/ files' = files /\ uploadedBytes' = uploadedBytes
      \/ \E r \in Requests : InsertMedia(r)
      \/ DeleteMedia
  BY DEF QuotaNext, quotaVars, CreateMedia, CreateInsert, CanUpload, CheckFiles, EndRequest, PendingEnds
<1> QED
  BY <1>3, <1>6, <1>7, <1>8, <1>9

(* The usage is counted right, and an upload has a size. *)
QuotaInv == QuotaTypeOK /\ UsageIsExact /\ UploadsHaveASize

LEMMA QuotaInvInit == QuotaInit => QuotaInv
<1> SUFFICES ASSUME QuotaInit PROVE QuotaInv
  OBVIOUS
<1>1. QuotaTypeOK
  BY DEF QuotaInit, QuotaTypeOK, NoRequest, RequestPcs
<1>2. Stored = {}
  BY DEF QuotaInit, Stored, NoFile
<1>3. SumOver(files, {}) = 0
  <2>1. PICK g : SumsOf(g, {}, files) /\ SumOver(files, {}) = g[{}]
    BY SumIsDefined, FS_EmptySet
  <2> QED
    BY <2>1 DEF SumsOf
<1>4. UsageIsExact
  BY <1>1, <1>2, <1>3, UsageIsASum DEF QuotaInit
<1>5. UploadsHaveASize
  BY DEF QuotaInit, UploadsHaveASize, NoRequest
<1> QED
  BY <1>1, <1>4, <1>5 DEF QuotaInv

(* What a step does to the requests. *)
LEMMA RequestStep ==
    ASSUME QuotaInv, [QuotaNext]_quotaVars
    PROVE  /\ pending' \in Nat /\ overlapped' \in BOOLEAN
           /\ req' \in [Requests -> [pc : RequestPcs, size : Sizes \cup {0}]]
           /\ UploadsHaveASize'
<1>1. /\ req \in [Requests -> [pc : RequestPcs, size : Sizes \cup {0}]]
      /\ pending \in Nat /\ overlapped \in BOOLEAN
      /\ \A r \in Requests : req[r].pc \in {"checkFiles", "insert"} => req[r].size \in Sizes
  BY DEF QuotaInv, QuotaTypeOK, UploadsHaveASize
<1>2. ASSUME NEW r \in Requests, NEW w \in [pc : RequestPcs, size : Sizes \cup {0}],
             w.pc \in {"checkFiles", "insert"} => w.size \in Sizes,
             req' = [req EXCEPT ![r] = w]
      PROVE  req' \in [Requests -> [pc : RequestPcs, size : Sizes \cup {0}]] /\ UploadsHaveASize'
  BY <1>1, <1>2 DEF UploadsHaveASize
<1>3. NoRequest \in [pc : RequestPcs, size : Sizes \cup {0}] /\ NoRequest.pc = "idle"
  BY DEF NoRequest, RequestPcs
<1>4. ASSUME NEW r \in Requests, Start(r) PROVE overlapped' \in BOOLEAN
  BY <1>4 DEF Start
<1>5. ASSUME NEW r \in Requests, CreateMedia(r)
      PROVE  /\ pending' \in Nat /\ overlapped' \in BOOLEAN
             /\ \E w \in [pc : RequestPcs, size : Sizes \cup {0}] :
                    w.pc \notin {"checkFiles", "insert"} /\ req' = [req EXCEPT ![r] = w]
  <2> DEFINE w == [pc |-> IF Check(pending, MaxPending) THEN "createInsert" ELSE "rejected", size |-> 0]
  <2>1. pending' = pending /\ Start(r) /\ req' = [req EXCEPT ![r] = w]
    BY <1>5 DEF CreateMedia
  <2>2. w \in [pc : RequestPcs, size : Sizes \cup {0}] /\ w.pc \notin {"checkFiles", "insert"}
    BY DEF RequestPcs
  <2> HIDE DEF w
  <2> QED
    BY <1>1, <1>4, <2>1, <2>2
<1>6. ASSUME NEW r \in Requests, CanUpload(r)
      PROVE  /\ pending' \in Nat /\ overlapped' \in BOOLEAN
             /\ \E w \in [pc : RequestPcs, size : Sizes \cup {0}] :
                    w.size \in Sizes /\ req' = [req EXCEPT ![r] = w]
  <2>1. pending' = pending /\ Start(r)
    BY <1>6 DEF CanUpload
  <2>2. PICK size \in Sizes :
           req' = [req EXCEPT ![r] = [size |-> size,
               pc |-> IF ~BytesFit(size) THEN "rejected"
                      ELSE IF MaxBytes < 0 THEN "insert" ELSE "checkFiles"]]
    BY <1>6 DEF CanUpload
  <2> DEFINE w == [size |-> size, pc |-> IF ~BytesFit(size) THEN "rejected"
                                         ELSE IF MaxBytes < 0 THEN "insert" ELSE "checkFiles"]
  <2>3. w \in [pc : RequestPcs, size : Sizes \cup {0}] /\ w.size \in Sizes
    BY DEF RequestPcs
  <2> HIDE DEF w
  <2> QED
    BY <1>1, <1>4, <2>1, <2>2, <2>3 DEF w
<1>7. ASSUME NEW r \in Requests, CheckFiles(r)
      PROVE  /\ pending' \in Nat /\ overlapped' \in BOOLEAN
             /\ \E w \in [pc : RequestPcs, size : Sizes \cup {0}] :
                    w.size \in Sizes /\ req' = [req EXCEPT ![r] = w]
  <2> DEFINE pc == IF Check(Cardinality(Stored), MaxFiles) THEN "insert" ELSE "rejected"
             w == [req[r] EXCEPT !.pc = pc]
  <2>1. pending' = pending /\ overlapped' = overlapped /\ req' = [req EXCEPT ![r].pc = pc] /\ req[r].size \in Sizes
    BY <1>1, <1>7 DEF CheckFiles
  <2>2. req[r] \in [pc : RequestPcs, size : Sizes \cup {0}] /\ pc \in RequestPcs
    BY <1>1 DEF RequestPcs
  <2> HIDE DEF pc
  <2>3. w \in [pc : RequestPcs, size : Sizes \cup {0}] /\ w.size \in Sizes
    BY <2>1, <2>2
  <2>4. req' = [req EXCEPT ![r] = w]
    BY <1>1, <2>1
  <2> QED
    BY <1>1, <2>1, <2>3, <2>4
<1>8. ASSUME NEW r \in Requests, CreateInsert(r) \/ InsertMedia(r) \/ EndRequest(r)
      PROVE  pending' \in Nat /\ overlapped' \in BOOLEAN /\ req' = [req EXCEPT ![r] = NoRequest]
  BY <1>1, <1>8 DEF CreateInsert, InsertMedia, EndRequest
<1>9. CASE PendingEnds \/ DeleteMedia \/ UNCHANGED quotaVars
  <2>1. req' = req /\ pending' \in Nat /\ overlapped' = overlapped
    BY <1>1, <1>9 DEF PendingEnds, DeleteMedia, quotaVars
  <2> QED
    BY <1>1, <2>1 DEF UploadsHaveASize
<1> QED
  BY <1>1, <1>2, <1>3, <1>5, <1>6, <1>7, <1>8, <1>9 DEF QuotaNext

LEMMA QuotaInvStep == QuotaInv /\ [QuotaNext]_quotaVars => QuotaInv'
  BY FilesStep, RequestStep DEF QuotaInv, QuotaTypeOK

(* Nobody has two requests at a time unless they overlapped, and what a request  *)
(* has been allowed still fits.                                                  *)
OneAtATime ==
    ~overlapped =>
        /\ \A q \in Requests, r \in Requests : (req[q].pc # "idle" /\ req[r].pc # "idle") => q = r
        /\ \A r \in Requests :
               /\ req[r].pc \in {"checkFiles", "insert"} => Within(uploadedBytes + req[r].size, MaxBytes)
               /\ req[r].pc = "insert" => Within(Cardinality(Stored) + 1, MaxFiles)
               /\ req[r].pc = "createInsert" => Within(pending + 1, MaxPending)

LEMMA LessIsWithin ==
    ASSUME NEW a \in Int, NEW b \in Int, b <= a, NEW l \in Int
    PROVE  (Within(a, l) => Within(b, l)) /\ (Within(a + 1, l) => Within(b + 1, l))
  BY DEF Within

(* The file count applies only beside a byte limit (check.go:64-66). *)
LEMMA QuotaIsKeptStep ==
    ASSUME MaxBytes < 0 => MaxFiles <= 0,
           QuotaInv, OneAtATime, QuotaIsKept, [QuotaNext]_quotaVars
    PROVE  OneAtATime' /\ QuotaIsKept'
<1> DEFINE n == Cardinality(Stored)
<1>1. /\ req \in [Requests -> [pc : RequestPcs, size : Sizes \cup {0}]]
      /\ pending \in Nat /\ uploadedBytes \in Nat /\ Sizes \cup {0} \subseteq Nat
      /\ MaxBytes \in Int /\ MaxFiles \in Int /\ MaxPending \in Int
  BY QuotaAssumption DEF QuotaInv, QuotaTypeOK
<1>2. /\ n \in Nat
      /\ uploadedBytes' \in Nat
      /\ \/ files' = files /\ uploadedBytes' = uploadedBytes
         \/ \E r \in Requests : InsertMedia(r) /\ n' = n + 1
         \/ DeleteMedia /\ uploadedBytes' <= uploadedBytes /\ n' = n - 1
  BY FilesStep DEF QuotaInv
<1>3. files' = files => n' = n
  BY DEF Stored
<1> SUFFICES ASSUME ~overlapped' PROVE OneAtATime' /\ QuotaIsKept'
  BY DEF OneAtATime, QuotaIsKept
<1>4. ~overlapped
  BY DEF QuotaNext, quotaVars, CreateMedia, CreateInsert, CanUpload, CheckFiles, InsertMedia, EndRequest, PendingEnds,
         DeleteMedia, Start
<1>5. /\ Within(uploadedBytes, MaxBytes) /\ Within(n, MaxFiles) /\ Within(pending, MaxPending)
      /\ \A q \in Requests, r \in Requests : (req[q].pc # "idle" /\ req[r].pc # "idle") => q = r
      /\ \A r \in Requests :
             /\ req[r].pc \in {"checkFiles", "insert"} => Within(uploadedBytes + req[r].size, MaxBytes)
             /\ req[r].pc = "insert" => Within(n + 1, MaxFiles)
             /\ req[r].pc = "createInsert" => Within(pending + 1, MaxPending)
  BY <1>4 DEF OneAtATime, QuotaIsKept
<1> HIDE DEF n
(* A request that is alone goes on. *)
<1>6. ASSUME NEW r \in Requests, NEW w,
             \A q \in Requests \ {r} : req[q].pc = "idle",
             req' = [req EXCEPT ![r] = w],
             Within(uploadedBytes', MaxBytes) /\ Within(n', MaxFiles) /\ Within(pending', MaxPending),
             w.pc \in {"checkFiles", "insert"} => Within(uploadedBytes' + w.size, MaxBytes),
             w.pc = "insert" => Within(n' + 1, MaxFiles),
             w.pc = "createInsert" => Within(pending' + 1, MaxPending)
      PROVE  OneAtATime' /\ QuotaIsKept'
  <2>1. req'[r] = w /\ \A q \in Requests \ {r} : req'[q].pc = "idle"
    BY <1>1, <1>6
  <2>2. QuotaIsKept'
    BY <1>6 DEF QuotaIsKept, n
  <2>3. \A q \in Requests, p \in Requests : (req'[q].pc # "idle" /\ req'[p].pc # "idle") => q = p
    BY <2>1
  <2>4. \A q \in Requests :
            /\ req'[q].pc \in {"checkFiles", "insert"} => Within(uploadedBytes' + req'[q].size, MaxBytes)
            /\ req'[q].pc = "insert" => Within(n' + 1, MaxFiles)
            /\ req'[q].pc = "createInsert" => Within(pending' + 1, MaxPending)
    BY <1>6, <2>1
  <2> QED
    BY <2>2, <2>3, <2>4 DEF OneAtATime, n
<1>7. ASSUME NEW r \in Requests, Start(r) PROVE \A q \in Requests : req[q].pc = "idle"
  BY <1>7 DEF Start
<1>8. ASSUME NEW r \in Requests, req[r].pc # "idle" PROVE \A q \in Requests \ {r} : req[q].pc = "idle"
  BY <1>5, <1>8
<1>9. ASSUME NEW r \in Requests, CreateMedia(r) PROVE OneAtATime' /\ QuotaIsKept'
  <2> DEFINE w == [pc |-> IF Check(pending, MaxPending) THEN "createInsert" ELSE "rejected", size |-> 0]
  <2>1. /\ pending' = pending /\ uploadedBytes' = uploadedBytes /\ files' = files
        /\ Start(r) /\ req' = [req EXCEPT ![r] = w]
    BY <1>9 DEF CreateMedia
  <2>2. w.pc \notin {"checkFiles", "insert"} /\ (w.pc = "createInsert" => Within(pending + 1, MaxPending))
    BY <1>1 DEF Check, Within
  <2> HIDE DEF w
  <2> QED
    BY <1>3, <1>5, <1>6, <1>7, <2>1, <2>2
<1>10. ASSUME NEW r \in Requests, CanUpload(r) PROVE OneAtATime' /\ QuotaIsKept'
  <2>1. pending' = pending /\ uploadedBytes' = uploadedBytes /\ files' = files /\ Start(r)
    BY <1>10 DEF CanUpload
  <2>2. PICK size \in Sizes :
           req' = [req EXCEPT ![r] = [size |-> size,
               pc |-> IF ~BytesFit(size) THEN "rejected"
                      ELSE IF MaxBytes < 0 THEN "insert" ELSE "checkFiles"]]
    BY <1>10 DEF CanUpload
  <2> DEFINE w == [size |-> size, pc |-> IF ~BytesFit(size) THEN "rejected"
                                         ELSE IF MaxBytes < 0 THEN "insert" ELSE "checkFiles"]
  <2>3. w.pc # "createInsert" /\ w.size = size /\ size \in Nat
    BY <1>1
  <2>4. w.pc \in {"checkFiles", "insert"} => Within(uploadedBytes + size, MaxBytes)
    BY <1>1 DEF BytesFit, Within
  <2>5. w.pc = "insert" => Within(n + 1, MaxFiles)
    BY <1>1, <1>2 DEF Within
  <2>6. req' = [req EXCEPT ![r] = w]
    BY <2>2
  <2> HIDE DEF w
  <2> QED
    BY <1>3, <1>5, <1>6, <1>7, <2>1, <2>3, <2>4, <2>5, <2>6
<1>11. ASSUME NEW r \in Requests, CheckFiles(r) PROVE OneAtATime' /\ QuotaIsKept'
  <2> DEFINE pc == IF Check(n, MaxFiles) THEN "insert" ELSE "rejected"
             w == [req[r] EXCEPT !.pc = pc]
  <2>1. /\ pending' = pending /\ uploadedBytes' = uploadedBytes /\ files' = files
        /\ req[r].pc = "checkFiles" /\ req' = [req EXCEPT ![r].pc = pc]
    BY <1>11 DEF CheckFiles, n
  <2>2. (pc = "insert" => Within(n + 1, MaxFiles)) /\ pc # "createInsert"
    BY <1>1, <1>2 DEF Check, Within
  <2>3. Within(uploadedBytes + req[r].size, MaxBytes)
    BY <1>5, <2>1
  <2> HIDE DEF pc
  <2>4. w.pc = pc /\ w.size = req[r].size /\ req' = [req EXCEPT ![r] = w]
    BY <1>1, <2>1
  <2>5. n' = n /\ \A q \in Requests \ {r} : req[q].pc = "idle"
    BY <1>3, <1>8, <2>1
  <2> HIDE DEF w
  <2> QED
    BY <1>5, <1>6, <2>1, <2>2, <2>3, <2>4, <2>5
<1>12. ASSUME NEW r \in Requests, CreateInsert(r) PROVE OneAtATime' /\ QuotaIsKept'
  <2>1. /\ pending' = pending + 1 /\ uploadedBytes' = uploadedBytes /\ files' = files
        /\ req[r].pc = "createInsert" /\ req' = [req EXCEPT ![r] = NoRequest]
    BY <1>12 DEF CreateInsert
  <2>2. NoRequest.pc = "idle"
    BY DEF NoRequest
  <2> QED
    BY <1>3, <1>5, <1>6, <1>8, <2>1, <2>2
<1>13. ASSUME NEW r \in Requests, InsertMedia(r) PROVE OneAtATime' /\ QuotaIsKept'
  <2>1. /\ pending' = pending /\ uploadedBytes' = uploadedBytes + req[r].size
        /\ req[r].pc = "insert" /\ req' = [req EXCEPT ![r] = NoRequest]
    BY <1>13 DEF InsertMedia
  <2>2. NoRequest.pc = "idle"
    BY DEF NoRequest
  <2>3. n' \in {n, n + 1, n - 1}
    BY <1>2, <1>3
  <2>4. Within(n + 1, MaxFiles)
    BY <1>5, <2>1
  <2>5. Within(n', MaxFiles)
    BY <1>1, <1>2, <2>3, <2>4 DEF Within
  <2> QED
    BY <1>3, <1>5, <1>6, <1>8, <2>1, <2>2, <2>5
<1>14. ASSUME NEW r \in Requests, EndRequest(r) PROVE OneAtATime' /\ QuotaIsKept'
  <2>1. /\ pending' = pending /\ uploadedBytes' = uploadedBytes /\ files' = files
        /\ req[r].pc # "idle" /\ req' = [req EXCEPT ![r] = NoRequest]
    BY <1>14 DEF EndRequest
  <2>2. NoRequest.pc = "idle"
    BY DEF NoRequest
  <2> QED
    BY <1>3, <1>5, <1>6, <1>8, <2>1, <2>2
(* What gets less stays within, also with what is still to come. *)
<1>15. ASSUME req' = req, pending' \in Nat, pending' <= pending, uploadedBytes' <= uploadedBytes,
              n' \in Int, n' <= n
       PROVE  OneAtATime' /\ QuotaIsKept'
  <2>1. Within(uploadedBytes', MaxBytes) /\ Within(n', MaxFiles) /\ Within(pending', MaxPending)
    BY <1>1, <1>2, <1>5, <1>15, LessIsWithin
  <2>2. ASSUME NEW r \in Requests, req[r].pc \in {"checkFiles", "insert"}
        PROVE  Within(uploadedBytes' + req[r].size, MaxBytes)
    <3>1. req[r].size \in Nat
      BY <1>1
    <3>2. uploadedBytes' + req[r].size <= uploadedBytes + req[r].size
      BY <1>1, <1>2, <1>15, <3>1
    <3> QED
      BY <1>1, <1>2, <1>5, <2>2, <3>1, <3>2, LessIsWithin
  <2>3. ASSUME NEW r \in Requests, req[r].pc = "insert" PROVE Within(n' + 1, MaxFiles)
    <3>1. Within(n + 1, MaxFiles)
      BY <1>5, <2>3
    <3>2. n \in Int /\ n' \in Int /\ n' <= n
      BY <1>2, <1>15
    <3> QED
      BY <1>1, <3>1, <3>2, LessIsWithin
  <2>4. ASSUME NEW r \in Requests, req[r].pc = "createInsert" PROVE Within(pending' + 1, MaxPending)
    <3>1. Within(pending + 1, MaxPending)
      BY <1>5, <2>4
    <3>2. pending \in Int /\ pending' \in Int /\ pending' <= pending
      BY <1>1, <1>15
    <3> QED
      BY <1>1, <3>1, <3>2, LessIsWithin
  <2>5. QuotaIsKept'
    BY <2>1 DEF QuotaIsKept, n
  <2>6. OneAtATime'
    BY <1>5, <1>15, <2>2, <2>3, <2>4 DEF OneAtATime, n
  <2> QED
    BY <2>5, <2>6
<1>16. CASE PendingEnds
  <2>1. /\ pending' = pending - 1 /\ pending > 0 /\ uploadedBytes' = uploadedBytes /\ files' = files /\ req' = req
    BY <1>16 DEF PendingEnds
  <2> QED
    BY <1>1, <1>2, <1>3, <1>15, <2>1
<1>17. CASE DeleteMedia
  <2>1. pending' = pending /\ req' = req
    BY <1>17 DEF DeleteMedia
  <2>2. ~\E r \in Requests : InsertMedia(r)
    BY <1>1, <2>1 DEF InsertMedia, NoRequest
  <2>3. uploadedBytes' <= uploadedBytes /\ n' \in Int /\ n' <= n
    BY <1>1, <1>2, <1>3, <2>2
  <2> QED
    BY <1>1, <1>15, <2>1, <2>3
<1>18. CASE UNCHANGED quotaVars
  <2>1. pending' = pending /\ uploadedBytes' = uploadedBytes /\ files' = files /\ req' = req
    BY <1>18 DEF quotaVars
  <2> QED
    BY <1>1, <1>2, <1>3, <1>15, <2>1
<1> QED
  BY <1>9, <1>10, <1>11, <1>12, <1>13, <1>14, <1>16, <1>17, <1>18 DEF QuotaNext

(* A refusal has its reason: the limit it was checked against. *)
LEMMA RefusalStep ==
    ASSUME MaxBytes # 0, QuotaInv, [QuotaNext]_quotaVars,
           NEW r \in Requests, req[r].pc # "rejected", req'[r].pc = "rejected"
    PROVE  IF req'[r].size = 0 THEN ~Within(pending + 1, MaxPending)
           ELSE \/ ~Within(uploadedBytes + req'[r].size, MaxBytes)
                \/ ~Within(Cardinality(Stored) + 1, MaxFiles)
<1>1. /\ req \in [Requests -> [pc : RequestPcs, size : Sizes \cup {0}]]
      /\ pending \in Nat /\ uploadedBytes \in Nat /\ Sizes \subseteq Nat \ {0}
      /\ MaxBytes \in Int /\ MaxFiles \in Int /\ MaxPending \in Int
      /\ \A q \in Requests : req[q].pc = "checkFiles" => req[q].size \in Sizes
  BY QuotaAssumption DEF QuotaInv, QuotaTypeOK, UploadsHaveASize
<1>2. Cardinality(Stored) \in Nat
  BY FilesStep DEF QuotaInv
<1>3. ASSUME NEW q \in Requests, NEW w, req' = [req EXCEPT ![q] = w]
      PROVE  q = r /\ req'[r] = w /\ w.pc = "rejected"
  BY <1>1, <1>3
<1>4. ASSUME NEW q \in Requests, CreateMedia(q)
      PROVE  req'[r].size = 0 /\ ~Within(pending + 1, MaxPending)
  <2> DEFINE w == [pc |-> IF Check(pending, MaxPending) THEN "createInsert" ELSE "rejected", size |-> 0]
  <2>1. req' = [req EXCEPT ![q] = w]
    BY <1>4 DEF CreateMedia
  <2>2. req'[r] = w /\ w.pc = "rejected"
    BY <1>3, <2>1
  <2>3. ~Check(pending, MaxPending) /\ req'[r].size = 0
    BY <2>2
  <2> QED
    BY <1>1, <2>3 DEF Check, Within
<1>5. ASSUME NEW q \in Requests, CanUpload(q)
      PROVE  req'[r].size # 0 /\ ~Within(uploadedBytes + req'[r].size, MaxBytes)
  <2>1. PICK size \in Sizes :
           req' = [req EXCEPT ![q] = [size |-> size,
               pc |-> IF ~BytesFit(size) THEN "rejected"
                      ELSE IF MaxBytes < 0 THEN "insert" ELSE "checkFiles"]]
    BY <1>5 DEF CanUpload
  <2> DEFINE w == [size |-> size, pc |-> IF ~BytesFit(size) THEN "rejected"
                                         ELSE IF MaxBytes < 0 THEN "insert" ELSE "checkFiles"]
  <2>2. req'[r] = w /\ w.pc = "rejected"
    BY <1>3, <2>1
  <2>3. ~BytesFit(size) /\ req'[r].size = size /\ size \in Nat \ {0}
    BY <1>1, <2>2
  <2> QED
    BY <1>1, <2>3 DEF BytesFit, Within
<1>6. ASSUME NEW q \in Requests, CheckFiles(q)
      PROVE  req'[r].size # 0 /\ ~Within(Cardinality(Stored) + 1, MaxFiles)
  <2> DEFINE pc == IF Check(Cardinality(Stored), MaxFiles) THEN "insert" ELSE "rejected"
             w == [req[q] EXCEPT !.pc = pc]
  <2>1. req[q].pc = "checkFiles" /\ req' = [req EXCEPT ![q].pc = pc]
    BY <1>6 DEF CheckFiles
  <2>2. req' = [req EXCEPT ![q] = w]
    BY <1>1, <2>1
  <2>3. q = r /\ req'[r] = w /\ w.pc = "rejected"
    BY <1>3, <2>2
  <2>4. req[q].size \in Sizes /\ req'[r].size = req[q].size
    BY <1>1, <2>1, <2>3
  <2>5. ~Check(Cardinality(Stored), MaxFiles)
    BY <1>1, <2>3
  <2> QED
    BY <1>1, <1>2, <2>4, <2>5 DEF Check, Within
<1>7. ASSUME NEW q \in Requests, CreateInsert(q) \/ InsertMedia(q) \/ EndRequest(q) PROVE FALSE
  <2>1. req' = [req EXCEPT ![q] = NoRequest]
    BY <1>7 DEF CreateInsert, InsertMedia, EndRequest
  <2> QED
    BY <1>3, <2>1 DEF NoRequest
<1>8. ASSUME PendingEnds \/ DeleteMedia \/ UNCHANGED quotaVars PROVE FALSE
  BY <1>8 DEF PendingEnds, DeleteMedia, quotaVars
<1> QED
  BY <1>4, <1>5, <1>6, <1>7, <1>8 DEF QuotaNext

(* The variables of the quota have their types, and user_stats is the sum of the *)
(* user's files, however uploads and deletions interleave (migration 17).        *)
THEOREM UsageIsCounted == QuotaSpec => [](QuotaTypeOK /\ UsageIsExact)
<1>1. QuotaInv => QuotaTypeOK /\ UsageIsExact
  BY DEF QuotaInv
<1> QED
  BY <1>1, QuotaInvInit, QuotaInvStep, PTL DEF QuotaSpec

(* Limits are kept by a user who waits, and nobody is refused while there is      *)
(* room, for every rule but two: a byte limit of zero, which refuses all uploads, *)
(* and a limit on files without one on bytes, which is not looked at              *)
(* (check.go:60-79).                                                              *)
THEOREM QuotaRulesHold ==
    ASSUME MaxBytes # 0, MaxBytes < 0 => MaxFiles <= 0
    PROVE  QuotaSpec => QuotaIsExact
<1> DEFINE Inv == QuotaInv /\ OneAtATime /\ QuotaIsKept
           Justified == \A r \in Requests : (req[r].pc # "rejected" /\ req'[r].pc = "rejected") =>
              IF req'[r].size = 0 THEN ~Within(pending + 1, MaxPending)
              ELSE \/ ~Within(uploadedBytes + req'[r].size, MaxBytes)
                   \/ ~Within(Cardinality(Stored) + 1, MaxFiles)
<1>1. QuotaInit => Inv
  <2> SUFFICES ASSUME QuotaInit PROVE Inv
    OBVIOUS
  <2>1. Stored = {}
    BY DEF QuotaInit, Stored, NoFile
  <2>2. Cardinality(Stored) = 0
    BY <2>1, FS_EmptySet
  <2>3. OneAtATime
    BY DEF QuotaInit, OneAtATime, NoRequest
  <2>4. QuotaIsKept
    BY <2>2, QuotaAssumption DEF QuotaInit, QuotaIsKept, Within
  <2> QED
    BY <2>3, <2>4, QuotaInvInit
<1>2. Inv /\ [QuotaNext]_quotaVars => Inv'
  BY QuotaInvStep, QuotaIsKeptStep
<1>3. Inv /\ [QuotaNext]_quotaVars => [Justified]_quotaVars
  BY RefusalStep
<1>4. Inv => QuotaIsKept /\ UsageIsExact
  BY DEF QuotaInv
<1> HIDE DEF Inv, Justified
<1>5. QuotaSpec => []Inv
  BY <1>1, <1>2, PTL DEF QuotaSpec
<1>6. QuotaSpec => [][Justified]_quotaVars
  BY <1>3, <1>5, PTL DEF QuotaSpec
<1>7. QuotaSpec => []QuotaIsKept /\ []UsageIsExact
  BY <1>4, <1>5, PTL
<1> QED
  BY <1>6, <1>7 DEF QuotaIsExact, Justified

-----------------------------------------------------------------------------
(* Recurring tasks. *)

Active == {"waiting", "working"}

(* StartAll works on one task at a time, and no reload begins after the last. *)
ControlOK ==
    /\ ctl.pc = "replace" => ctl.cur \in ctl.todo
    /\ ctl.pc = "stopping" => ctl.gen <= MaxReloads

(* A goroutine that works for a task is the one the map names for it: an      *)
(* entry is replaced only with the goroutine behind it, and a goroutine that  *)
(* ends late finds its successor's entry and leaves it.                       *)
ActiveLoopsAreInTheMap ==
    \A n \in Names, g \in Generations : loops[<<n, g>>] \in Active => recurDoneChs[n] = g

(* What StartAll has done so far, while it runs and until the next StopAll.   *)
StartedLoopsRun ==
    ctl.pc \in {"start", "replace", "running"} =>
        \A n \in Names : (n \notin ctl.todo \/ ctl.pc = "running") =>
            recurDoneChs[n] = ctl.gen /\ loops[<<n, ctl.gen>>] \in Active

RecurringInv ==
    /\ RecurringTypeOK
    /\ ControlOK
    /\ ActiveLoopsAreInTheMap
    /\ StartedLoopsRun

LEMMA RecurringInitInv == RecurringInit => RecurringInv
BY RecurringAssumption DEF RecurringInit, RecurringInv, RecurringTypeOK, CtlPcs, LoopPcs, Generations, ControlOK,
    ActiveLoopsAreInTheMap, StartedLoopsRun, Active

(* StartAll installs a goroutine and stops the one before it. *)
LEMMA InstallInv ==
  ASSUME RecurringInv, InstallLoop
  PROVE  RecurringInv'
<1> DEFINE n == ctl.cur
           g == ctl.gen
           m == recurDoneChs[n]
<1>1. /\ n \in Names /\ g \in Generations /\ m \in 0..(MaxReloads + 1) /\ n \in ctl.todo
      /\ ctl.pc = "replace" /\ ctl.todo \subseteq Names
  BY DEF RecurringInv, RecurringTypeOK, ControlOK, InstallLoop
<1>2. /\ ctl' = [ctl EXCEPT !.todo = @ \ {n}, !.cur = NoTask,
                            !.pc = IF ctl.todo = {n} THEN "running" ELSE "start"]
      /\ recurDoneChs' = [recurDoneChs EXCEPT ![n] = g]
  BY DEF InstallLoop, Install
<1>3. \A x \in Names \X Generations :
          loops'[x] = IF x = <<n, g>> THEN "waiting" ELSE IF x = <<n, m>> THEN "exiting" ELSE loops[x]
  BY DEF InstallLoop, Install
<1>4. loops' \in [Names \X Generations -> LoopPcs]
  <2>1. loops' = [x \in Names \X Generations |->
                     IF x = <<n, g>> THEN "waiting" ELSE IF x = <<n, m>> THEN "exiting" ELSE loops[x]]
    BY DEF InstallLoop, Install
  <2> QED
    BY <2>1 DEF RecurringInv, RecurringTypeOK, LoopPcs
<1>5. RecurringTypeOK'
  <2>1. g \in 0..(MaxReloads + 1)
    BY <1>1, RecurringAssumption DEF Generations
  <2>2. recurDoneChs' \in [Names -> 0..(MaxReloads + 1)]
    BY <1>2, <2>1 DEF RecurringInv, RecurringTypeOK
  <2>3. ctl' \in [pc : CtlPcs, gen : Generations, todo : SUBSET Names, cur : Names \cup {NoTask}]
    BY <1>2 DEF RecurringInv, RecurringTypeOK, CtlPcs
  <2> QED
    BY <1>4, <2>2, <2>3 DEF RecurringTypeOK
<1>6. ControlOK'
  BY <1>2 DEF RecurringInv, RecurringTypeOK, ControlOK
<1>7. ActiveLoopsAreInTheMap'
  BY <1>1, <1>2, <1>3 DEF RecurringInv, RecurringTypeOK, ActiveLoopsAreInTheMap, Active
<1>8. StartedLoopsRun'
  <2> SUFFICES ASSUME NEW k \in Names, k \notin ctl'.todo \/ ctl'.pc = "running"
               PROVE  recurDoneChs'[k] = g /\ loops'[<<k, g>>] \in Active
    BY <1>1, <1>2 DEF StartedLoopsRun, RecurringInv, RecurringTypeOK
  <2>1. CASE k = n
    BY <2>1, <1>1, <1>2, <1>3 DEF RecurringInv, RecurringTypeOK, Active
  <2>2. CASE k # n
    <3>1. k \notin ctl.todo
      BY <2>2, <1>1, <1>2 DEF RecurringInv, RecurringTypeOK
    <3> QED
      BY <2>2, <3>1, <1>1, <1>2, <1>3 DEF RecurringInv, RecurringTypeOK, StartedLoopsRun
  <2> QED
    BY <2>1, <2>2
<1> QED
  BY <1>5, <1>6, <1>7, <1>8 DEF RecurringInv

(* The other steps of StartAll and StopAll. *)
LEMMA ControlStepInv ==
  ASSUME RecurringInv, ScheduleHourly \/ StopRecurring \/ StopAllReturns \/ Reload \/ Shutdown
  PROVE  RecurringInv'
<1> USE DEF RecurringInv
<1>1. CASE ScheduleHourly
  BY <1>1 DEF ScheduleHourly, RecurringTypeOK, CtlPcs, ControlOK, ActiveLoopsAreInTheMap, StartedLoopsRun
<1>2. CASE Reload \/ Shutdown
  BY <1>2, ZenonT(30) DEF Reload, Shutdown, Scheduled, RecurringTypeOK, CtlPcs, ControlOK, ActiveLoopsAreInTheMap, StartedLoopsRun
<1>3. CASE StopRecurring
  <2>1. PICK n \in ctl.todo :
            /\ loops' = [loops EXCEPT ![<<n, recurDoneChs[n]>>] = "exiting"]
            /\ ctl' = [ctl EXCEPT !.todo = @ \ {n}]
    BY <1>3 DEF StopRecurring
  <2>2. \A x \in Names \X Generations : loops'[x] = loops[x] \/ loops'[x] = "exiting"
    BY <2>1 DEF RecurringTypeOK
  <2>3. RecurringTypeOK'
    BY <1>3, <2>1 DEF StopRecurring, RecurringTypeOK, LoopPcs
  <2>4. ctl'.pc = ctl.pc /\ ctl'.gen = ctl.gen /\ ctl.pc \in {"stopping", "quitting"} /\ recurDoneChs' = recurDoneChs
    BY <1>3, <2>1 DEF StopRecurring, RecurringTypeOK
  <2> QED
    BY <2>2, <2>3, <2>4 DEF ControlOK, ActiveLoopsAreInTheMap, StartedLoopsRun, Active
<1>4. CASE StopAllReturns
  <2>1. ctl.pc = "stopping" => ctl.gen + 1 \in Generations
    BY RecurringAssumption DEF RecurringTypeOK, Generations, ControlOK
  <2>2. /\ UNCHANGED <<recurDoneChs, loops>>
        /\ \/ ctl' = [ctl EXCEPT !.pc = "stopped"]
           \/ /\ ctl.pc = "stopping"
              /\ ctl' = [ctl EXCEPT !.pc = "start", !.todo = Names, !.gen = @ + 1]
    BY <1>4 DEF StopAllReturns
  <2>3. ctl' \in [pc : CtlPcs, gen : Generations, todo : SUBSET Names, cur : Names \cup {NoTask}]
    BY <2>1, <2>2 DEF RecurringTypeOK, CtlPcs
  <2>4. \/ ctl'.pc = "stopped"
        \/ ctl'.pc = "start" /\ ctl'.todo = Names
    BY <2>2 DEF RecurringTypeOK
  <2> QED
    BY <2>2, <2>3, <2>4 DEF RecurringTypeOK, ControlOK, ActiveLoopsAreInTheMap, StartedLoopsRun
<1> QED
  BY <1>1, <1>2, <1>3, <1>4

(* The goroutines. *)
LEMMA LoopStepInv ==
  ASSUME RecurringInv, NEW n \in Names, NEW g \in Generations,
         Tick(<<n, g>>) \/ WorkDone(<<n, g>>) \/ LoopExits(<<n, g>>)
  PROVE  RecurringInv'
<1> USE DEF RecurringInv
<1>1. CASE Tick(<<n, g>>) \/ WorkDone(<<n, g>>)
  <2>1. /\ loops' \in [Names \X Generations -> LoopPcs] /\ UNCHANGED <<ctl, recurDoneChs>>
        /\ \A x \in Names \X Generations : loops'[x] = loops[x] \/ (loops'[x] \in Active /\ loops[x] \in Active)
    BY <1>1 DEF Tick, WorkDone, RecurringTypeOK, LoopPcs, Active
  <2> QED
    BY <2>1 DEF RecurringTypeOK, ControlOK, ActiveLoopsAreInTheMap, StartedLoopsRun
<1>2. CASE LoopExits(<<n, g>>)
  <2>1. /\ loops[<<n, g>>] = "exiting" /\ loops' = [loops EXCEPT ![<<n, g>>] = "ended"] /\ ctl' = ctl
        /\ recurDoneChs' = [recurDoneChs EXCEPT ![n] = IF @ = g THEN 0 ELSE @]
    BY <1>2 DEF LoopExits
  <2>2. RecurringTypeOK'
    <3>1. recurDoneChs' \in [Names -> 0..(MaxReloads + 1)]
      BY <2>1, RecurringAssumption DEF RecurringTypeOK
    <3> QED
      BY <2>1, <3>1 DEF RecurringTypeOK, LoopPcs
  <2>3. \A x \in Names \X Generations : loops'[x] \in Active => loops'[x] = loops[x] /\ x # <<n, g>>
    BY <2>1 DEF RecurringTypeOK, Active
  <2>4. \A x \in Names \X Generations : loops[x] \in Active => loops'[x] = loops[x]
    BY <2>1 DEF RecurringTypeOK, Active
  <2>5. ControlOK'
    BY <2>1 DEF ControlOK
  <2>6. ActiveLoopsAreInTheMap'
    BY <2>1, <2>3 DEF RecurringTypeOK, ActiveLoopsAreInTheMap
  <2>7. StartedLoopsRun'
    BY <2>1, <2>4 DEF RecurringTypeOK, StartedLoopsRun, Active
  <2> QED
    BY <2>2, <2>5, <2>6, <2>7
<1> QED
  BY <1>1, <1>2

LEMMA RecurringNextInv == RecurringInv /\ [RecurringNext]_recurringVars => RecurringInv'
<1> SUFFICES ASSUME RecurringInv, [RecurringNext]_recurringVars PROVE RecurringInv'
  OBVIOUS
<1>1. CASE UNCHANGED recurringVars
  BY <1>1 DEF recurringVars, RecurringInv, RecurringTypeOK, ControlOK, ActiveLoopsAreInTheMap, StartedLoopsRun
<1>2. CASE CtlStep \/ Reload \/ Shutdown
  BY <1>2, InstallInv, ControlStepInv DEF CtlStep
<1>3. ASSUME NEW x \in Names \X Generations, Tick(x) \/ LoopStep(x) PROVE RecurringInv'
  BY <1>3, LoopStepInv DEF LoopStep
<1> QED
  BY <1>1, <1>2, <1>3 DEF RecurringNext

LEMMA RecurringInvariance == RecurringSpec => []RecurringInv
BY RecurringInitInv, RecurringNextInv, PTL DEF RecurringSpec

(* The types of the schedule, over any number of tasks and reloads. *)
THEOREM RecurringTypeCorrect == RecurringSpec => []RecurringTypeOK
<1>1. RecurringInv => RecurringTypeOK
  BY DEF RecurringInv
<1> QED
  BY <1>1, RecurringInvariance, PTL

(* Each task has one goroutine, never two, after any number of reloads: a     *)
(* reload that replaces a goroutine and the goroutine that deletes its own    *)
(* entry do not take each other's away (schedule.go:72-103).                  *)
THEOREM OneLoopForEachTask == RecurringSpec => []LoopsFollowTheSchedule
<1>1. RecurringInv => LoopsFollowTheSchedule
  <2> SUFFICES ASSUME RecurringInv PROVE LoopsFollowTheSchedule
    OBVIOUS
  <2>1. OneLoopPerTask
    <3> SUFFICES ASSUME NEW n \in Names
                 PROVE  Cardinality({g \in Generations : loops[<<n, g>>] \in {"waiting", "working"}}) <= 1
      BY DEF OneLoopPerTask
    <3> DEFINE S == {g \in Generations : loops[<<n, g>>] \in {"waiting", "working"}}
    <3>1. S \subseteq {recurDoneChs[n]}
      BY DEF RecurringInv, ActiveLoopsAreInTheMap, Active
    <3>2. IsFiniteSet({recurDoneChs[n]}) /\ Cardinality({recurDoneChs[n]}) = 1
      BY FS_Singleton
    <3> HIDE DEF S
    <3>3. Cardinality(S) <= 1
      BY <3>1, <3>2, FS_Subset
    <3> QED
      BY <3>3 DEF S
  <2>2. AllTasksAreScheduled
    <3>1. ctl.gen # 0
      BY RecurringAssumption DEF RecurringInv, RecurringTypeOK, Generations
    <3> QED
      BY <3>1 DEF RecurringInv, StartedLoopsRun, AllTasksAreScheduled, Active
  <2> QED
    BY <2>1, <2>2 DEF LoopsFollowTheSchedule
<1> QED
  BY <1>1, RecurringInvariance, PTL

-----------------------------------------------------------------------------
(* All of them together. *)

LEMMA FederationTypesHold == FederationInv => FederationTypeOK
BY DEF FederationInv

LEMMA CallTypesHold == CallInv => CallTypeOK
BY DEF CallInv

LEMMA RecurringTypes == RecurringInv => RecurringTypeOK
BY DEF RecurringInv

LEMMA CopyTypes == CopyInv => CopyTypeOK
BY DEF CopyInv

LEMMA QuotaTypes == QuotaInv => QuotaTypeOK
BY DEF QuotaInv

(* All parts of module MCOutside keep their types together, for every value of   *)
(* its constants.                                                                *)
THEOREM OutsideTypesCorrect == Spec => []OutsideTypeOK
<1> DEFINE Inv == PreviewInv /\ FederationInv /\ CallInv /\ RecurringInv /\ CopyInv /\ QuotaInv
<1>1. Init => Inv
  BY PreviewInvInit, FederationInvInit, CallInvInit, RecurringInitInv, CopyInitInv, QuotaInvInit DEF Init
<1>2. [Next]_vars => [PreviewNext]_previewVars
  BY DEF Next, Runs, vars
<1>3. [Next]_vars => [FederationNext]_federationVars
  BY DEF Next, Runs, vars
<1>4. [Next]_vars => [CallNext]_callVars
  BY DEF Next, Runs, vars
<1>5. [Next]_vars => [RecurringNext]_recurringVars
  BY DEF Next, Runs, vars
<1>6. [Next]_vars => [CopyNext]_copyVars
  BY DEF Next, Runs, vars
<1>7. [Next]_vars => [QuotaNext]_quotaVars
  BY DEF Next, Runs, vars
<1>8. Inv /\ [Next]_vars => Inv'
  <2>1. PreviewInv /\ [Next]_vars => PreviewInv'
    BY <1>2, PreviewInvStep
  <2>2. FederationInv /\ [Next]_vars => FederationInv'
    BY <1>3, FederationInvStep
  <2>3. CallInv /\ [Next]_vars => CallInv'
    BY <1>4, CallInvStep
  <2>4. RecurringInv /\ [Next]_vars => RecurringInv'
    BY <1>5, RecurringNextInv
  <2>5. CopyInv /\ [Next]_vars => CopyInv'
    BY <1>6, CopyNextInv
  <2>6. QuotaInv /\ [Next]_vars => QuotaInv'
    BY <1>7, QuotaInvStep
  <2> QED
    BY <2>1, <2>2, <2>3, <2>4, <2>5, <2>6
<1>9. Inv => OutsideTypeOK
  BY PreviewInvIsEnough, FederationTypesHold, CallTypesHold, RecurringTypes, CopyTypes, QuotaTypes DEF OutsideTypeOK
<1> QED
  BY <1>1, <1>8, <1>9, PTL DEF Spec
=============================================================================
