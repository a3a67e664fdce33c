----------------------------- MODULE PurgeProofs -----------------------------
(***************************************************************************)
(* Purges that run at the same time, fail and are cut short anywhere: for  *)
(* any number of purgers, rows, thumbnails and files, only media that some *)
(* purge set out to remove loses its content, an ID stays taken, and a     *)
(* purge that returns has done its work.                                   *)
(*                                                                         *)
(* No purger locks anything.  The argument is that the store only shrinks: *)
(* what a purger has read of it stays an upper bound of what is there.     *)
(***************************************************************************)
EXTENDS PurgeTask, TLAPS

(* What the steps of purgers and administrators do to the store. *)
Shrinks ==
    /\ \A m \in MediaIds : media'[m] # None => media[m] # None /\ media'[m].loc = media[m].loc
                                               /\ media'[m].hash = media[m].hash
    /\ thumbs' \subseteq thumbs
    /\ \A l \in Locations : objects'[l] \in {objects[l], None}
    /\ reserved \subseteq reserved'
    /\ doomed \subseteq doomed'

(* The notions of PurgeTask, for the local state r of a purger. *)
Chosen(r) == {m \in MediaIds : r.records[m] # None}
Marked(r, l) == {m \in Chosen(r) : r.records[m].loc = l} \cup {t.parent : t \in {x \in r.thumbsMap : x.loc = l}}
Users(l) == GetByLocation(l) \cup ThumbParentsAt(l)

(* The file at l is gone, or stays because the purger found another user. *)
Settled(r, l) == objects[l] = None \/ ~(r.flagMap[l] \subseteq Marked(r, l))

(* What a purger holds was read from the tables: ... *)
RowsWereRead(r) ==
    /\ Chosen(r) \subseteq doomed
    /\ r.todo \subseteq Chosen(r)
    /\ \A m \in Chosen(r) : media[m] # None => media[m].loc = r.records[m].loc
    /\ \A t \in r.thumbsMap : t.parent \in Chosen(r) /\ t.loc \in r.flagged

(* ... the users of every location it knows, and all about the rows it is     *)
(* done with.                                                                 *)
UsersWereRead(r) ==
    /\ \A l \in r.flagged :
           /\ Users(l) \subseteq r.flagMap[l]
           /\ (\E m \in Chosen(r) : r.records[m].loc = l) \/ (\E t \in r.thumbsMap : t.loc = l)
    /\ \A m \in Chosen(r) : (r.pc # "flag" \/ m \notin r.todo) =>
           r.records[m].loc \in r.flagged /\ GetForMedia(m) \subseteq r.thumbsMap

(* Stage 3 has dealt with every row, thumbnail and file that is not ahead of it. *)
StageThree(r) ==
    /\ \A m \in Chosen(r) \ r.todo :
           (media[m] # None => r.records[m].quarantined) /\ GetForMedia(m) \subseteq r.thumbsLeft
    /\ \A l \in r.flagged :
           \/ Settled(r, l)
           \/ \E m \in r.todo : r.records[m].loc = l
           \/ \E t \in r.thumbsMap : t.loc = l /\ (t.parent \in r.todo \/ t \in r.thumbsLeft)

AtWork(r) ==
    /\ r.pc \in {"reserve", "delete"} => r.cur \in r.todo /\ Settled(r, r.records[r.cur].loc)
    /\ r.pc = "delete" => (r.cur \in LocalIds => r.cur \in reserved)
    /\ r.pc \in {"thumbs", "dropThumb"} \/ r.thumbsLeft = {}
    /\ r.thumbsLeft \subseteq r.thumbsMap
    /\ r.pc = "dropThumb" => r.curThumb \in r.thumbsLeft /\ Settled(r, r.curThumb.loc)
    /\ r.pc = "done" => r.todo = {}

PurgerInv(r) ==
    r.pc # "idle" =>
        /\ RowsWereRead(r)
        /\ UsersWereRead(r)
        /\ r.pc # "flag" => StageThree(r)
        /\ AtWork(r)

(* A purger that is alone knows the users of a location exactly, but for those *)
(* it removes itself.                                                          *)
AloneInv(r) ==
    (r.pc # "idle" /\ r.alone) =>
        /\ \A l \in r.flagged : r.flagMap[l] \ Chosen(r) \subseteq Users(l)
        /\ r.pc = "flag" => /\ \A l \in r.flagged : r.flagMap[l] \subseteq Users(l)
                            /\ \A m \in Chosen(r) : media[m] # None
        /\ r.pc # "flag" => \A l \in r.flagged : r.flagMap[l] \cap Chosen(r) \subseteq Marked(r, l)

Solitude ==
    \A p, q \in Purgers : (p # q /\ pg[p].pc # "idle" /\ pg[p].alone) => pg[q].pc = "idle"

PurgeInv ==
    /\ PurgeTypeOK
    /\ OnlyDoomedMediaLosesItsFile
    /\ \A p \in Purgers : PurgerInv(pg[p])
    /\ \A p \in Purgers : AloneInv(pg[p])
    /\ Solitude

LEMMA NotPurgingState ==
  NotPurging \in PurgeState /\ NotPurging.pc = "idle"
BY DEF NotPurging, PurgeState, PurgePcs

LEMMA PurgeInitInv == PurgeInit => PurgeInv
<1> SUFFICES ASSUME PurgeInit PROVE PurgeInv
  OBVIOUS
<1>1. \A p \in Purgers : pg[p] = NotPurging /\ pg[p].pc = "idle"
  BY NotPurgingState DEF PurgeInit
<1>2. StoreTypeOK
  <2>1. media \in [MediaIds -> DbMedia \cup {None}] /\ thumbs \subseteq DbThumbnail
        /\ objects \in [Locations -> Hashes \cup {Partial, None}]
    BY DEF PurgeInit, StoreAfterUploads
  <2> QED
    BY <2>1 DEF PurgeInit, StoreAfterUploads, StoreTypeOK
<1>3. PurgeTypeOK
  BY <1>2, NotPurgingState DEF PurgeTypeOK, PurgeInit
<1>4. OnlyDoomedMediaLosesItsFile
  BY DEF OnlyDoomedMediaLosesItsFile, PurgeInit, StoreAfterUploads, IdExists
<1>5. (\A p \in Purgers : PurgerInv(pg[p])) /\ (\A p \in Purgers : AloneInv(pg[p])) /\ Solitude
  BY <1>1 DEF PurgerInv, AloneInv, Solitude
<1> QED
  BY <1>3, <1>4, <1>5 DEF PurgeInv

(* While the store shrinks, so does what there is to find in it. *)
LEMMA LessToFind ==
  ASSUME Shrinks
  PROVE  /\ \A l \in Locations : Users(l)' \subseteq Users(l)
         /\ \A m \in MediaIds : GetForMedia(m)' \subseteq GetForMedia(m)
<1>1. \A l \in Locations : GetByLocation(l)' \subseteq GetByLocation(l)
  BY DEF Shrinks, GetByLocation, IdExists
<1>2. \A l \in Locations : ThumbParentsAt(l)' \subseteq ThumbParentsAt(l)
  BY DEF Shrinks, ThumbParentsAt
<1>3. \A m \in MediaIds : GetForMedia(m)' \subseteq GetForMedia(m)
  BY DEF Shrinks, GetForMedia
<1> QED
  BY <1>1, <1>2, <1>3 DEF Users

(* What holds of a purger is not disturbed by the others. *)
LEMMA PurgerFrame ==
  ASSUME NEW r \in PurgeState, PurgerInv(r), Shrinks
  PROVE  PurgerInv(r)'
<1> SUFFICES ASSUME r.pc # "idle" PROVE PurgerInv(r)'
  BY DEF PurgerInv
<1>0. /\ RowsWereRead(r) /\ UsersWereRead(r) /\ (r.pc # "flag" => StageThree(r)) /\ AtWork(r)
      /\ r.flagged \subseteq Locations /\ r.records \in [MediaIds -> DbMedia \cup {None}]
      /\ r.thumbsMap \subseteq DbThumbnail /\ r.thumbsLeft \subseteq DbThumbnail /\ r.todo \subseteq MediaIds
      /\ r.curThumb \in DbThumbnail \cup {None}
  BY DEF PurgerInv, PurgeState
<1>1. Chosen(r) \subseteq MediaIds /\ \A m \in Chosen(r) : r.records[m] \in DbMedia /\ r.records[m].loc \in Locations
  BY <1>0 DEF Chosen, DbMedia
<1>2. RowsWereRead(r)'
  BY <1>0, <1>1 DEF RowsWereRead, Shrinks, Chosen
<1>3. UsersWereRead(r)'
  BY <1>0, <1>1, LessToFind DEF UsersWereRead, Chosen
<1>4. \A l \in Locations : Settled(r, l) => Settled(r, l)'
  BY DEF Settled, Shrinks, Marked, Chosen
<1>5. r.pc # "flag" => StageThree(r)'
  <2> HAVE r.pc # "flag"
  <2>1. \A m \in Chosen(r) \ r.todo :
           (media'[m] # None => r.records[m].quarantined) /\ GetForMedia(m)' \subseteq r.thumbsLeft
    BY <1>0, <1>1, LessToFind DEF StageThree, Shrinks
  <2>2. \A l \in r.flagged :
           \/ Settled(r, l)'
           \/ \E m \in r.todo : r.records[m].loc = l
           \/ \E t \in r.thumbsMap : t.loc = l /\ (t.parent \in r.todo \/ t \in r.thumbsLeft)
    BY <1>0, <1>4 DEF StageThree
  <2> QED
    BY <2>1, <2>2 DEF StageThree, Chosen
<1>6. AtWork(r)'
  <2>1. r.cur \in r.todo => r.cur \in Chosen(r) /\ r.records[r.cur].loc \in Locations
    BY <1>0, <1>1 DEF RowsWereRead
  <2>2. r.curThumb \in r.thumbsLeft => r.curThumb.loc \in Locations
    BY <1>0 DEF DbThumbnail
  <2> QED
    BY <1>0, <1>4, <2>1, <2>2 DEF AtWork, Shrinks
<1> QED
  BY <1>2, <1>3, <1>5, <1>6 DEF PurgerInv

(* A step of a purger that runs. *)
LEMMA PurgerMoves ==
  ASSUME PurgeInv, NEW p \in Purgers, NEW g \in PurgeState, pg' = [pg EXCEPT ![p] = g],
         pg[p].pc # "idle", g.pc = "idle" \/ g.alone = pg[p].alone,
         Shrinks, StoreTypeOK', UNCHANGED doomed, OnlyDoomedMediaLosesItsFile',
         PurgerInv(g)', AloneInv(g)'
  PROVE  PurgeInv'
<1>1. pg' \in [Purgers -> PurgeState] /\ \A q \in Purgers : pg'[q] = IF q = p THEN g ELSE pg[q]
  BY DEF PurgeInv, PurgeTypeOK
<1>2. PurgeTypeOK'
  BY <1>1 DEF PurgeInv, PurgeTypeOK
<1>3. Solitude'
  BY <1>1 DEF PurgeInv, Solitude
<1>4. ASSUME NEW q \in Purgers PROVE PurgerInv(pg[q])'
  <2>1. PICK r \in PurgeState : r = pg'[q]
    BY <1>1
  <2>2. CASE q = p
    BY <1>1, <2>1, <2>2
  <2>3. CASE q # p
    <3>1. PurgerInv(r)
      BY <1>1, <2>1, <2>3 DEF PurgeInv
    <3> QED
      BY <2>1, <3>1, PurgerFrame
  <2> QED
    BY <2>2, <2>3
<1>5. ASSUME NEW q \in Purgers PROVE AloneInv(pg[q])'
  <2>1. CASE q = p
    <3>1. PICK r \in PurgeState : r = pg'[q]
      BY <1>1
    <3> QED
      BY <1>1, <2>1, <3>1
  <2>2. CASE q # p
    <3>1. ~(pg'[q].pc # "idle" /\ pg'[q].alone)
      BY <1>1, <2>2 DEF PurgeInv, Solitude
    <3> QED
      BY <3>1 DEF AloneInv
  <2> QED
    BY <2>1, <2>2
<1> QED
  BY <1>2, <1>3, <1>4, <1>5 DEF PurgeInv

(* A purger that only moves on leaves the store as it is. *)
LEMMA StoreStays ==
  ASSUME PurgeInv, UNCHANGED <<doomed, storeVars>>
  PROVE  /\ Shrinks /\ StoreTypeOK' /\ OnlyDoomedMediaLosesItsFile'
         /\ \A l \in Locations : Users(l)' = Users(l)
         /\ \A m \in MediaIds : GetForMedia(m)' = GetForMedia(m)
<1>1. UNCHANGED <<media, thumbs, objects, allocated, held, reserved, expiring, restricted, doomed>>
  BY DEF storeVars
<1>2. Shrinks
  BY <1>1 DEF Shrinks
<1>3. StoreTypeOK'
  BY <1>1 DEF PurgeInv, PurgeTypeOK, StoreTypeOK
<1>4. OnlyDoomedMediaLosesItsFile'
  BY <1>1 DEF PurgeInv, OnlyDoomedMediaLosesItsFile, IdExists
<1> QED
  BY <1>1, <1>2, <1>3, <1>4 DEF Users, GetByLocation, ThumbParentsAt, GetForMedia, IdExists

LEMMA AloneStays ==
  ASSUME NEW g, AloneInv(g), UNCHANGED <<doomed, storeVars>>
  PROVE  AloneInv(g)'
BY DEF storeVars, AloneInv, Users, GetByLocation, ThumbParentsAt, IdExists, Chosen, Marked

LEMMA PurgerEnds ==
  ASSUME PurgeInv, NEW p \in Purgers, PurgeFails(p) \/ PurgeReturns(p)
  PROVE  PurgeInv'
<1>1. pg' = [pg EXCEPT ![p] = NotPurging] /\ UNCHANGED <<doomed, storeVars>> /\ pg[p].pc # "idle"
  BY DEF PurgeFails, PurgeReturns
<1>2. PurgerInv(NotPurging)' /\ AloneInv(NotPurging)'
  BY NotPurgingState DEF PurgerInv, AloneInv
<1> QED
  BY <1>1, <1>2, NotPurgingState, PurgerMoves, StoreStays

(* Whether it is alone is not part of what a purger knows. *)
LEMMA NoLongerAlone ==
  ASSUME NEW r \in PurgeState, PurgerInv(r)
  PROVE  /\ [r EXCEPT !.alone = FALSE] \in PurgeState
         /\ [r EXCEPT !.alone = FALSE].pc = r.pc
         /\ ~[r EXCEPT !.alone = FALSE].alone
         /\ PurgerInv([r EXCEPT !.alone = FALSE])
<1> DEFINE s == [r EXCEPT !.alone = FALSE]
<1>1. s \in PurgeState /\ s.alone = FALSE
  BY DEF PurgeState
<1>2. /\ s.pc = r.pc /\ s.records = r.records /\ s.flagMap = r.flagMap /\ s.flagged = r.flagged
      /\ s.thumbsMap = r.thumbsMap /\ s.todo = r.todo /\ s.cur = r.cur /\ s.thumbsLeft = r.thumbsLeft
      /\ s.curThumb = r.curThumb
  BY DEF PurgeState
<1> HIDE DEF s
<1>3. Chosen(s) = Chosen(r)
  BY <1>2 DEF Chosen
<1>4. \A l : Marked(s, l) = Marked(r, l)
  BY <1>2, <1>3 DEF Marked
<1>5. \A l : Settled(s, l) = Settled(r, l)
  BY <1>2, <1>4 DEF Settled
<1>6. RowsWereRead(s) = RowsWereRead(r) /\ UsersWereRead(s) = UsersWereRead(r)
  BY <1>2, <1>3 DEF RowsWereRead, UsersWereRead
<1>7. StageThree(s) = StageThree(r)
  BY <1>2, <1>3, <1>5 DEF StageThree
<1>8. AtWork(s) = AtWork(r)
  BY <1>2, <1>5 DEF AtWork
<1>9. PurgerInv(s)
  BY <1>2, <1>6, <1>7, <1>8 DEF PurgerInv
<1> QED
  BY <1>1, <1>2, <1>9 DEF s

(* A purge begins. *)
LEMMA BeginInv ==
  ASSUME PurgeInv, NEW p \in Purgers, pg[p].pc = "idle",
         NEW asked \in SUBSET ExistingIds, NEW incl \in BOOLEAN, DoPurge(p, asked, incl)
  PROVE  PurgeInv'
<1>0. /\ media \in [MediaIds -> DbMedia \cup {None}] /\ pg \in [Purgers -> PurgeState] /\ doomed \subseteq MediaIds
  BY DEF PurgeInv, PurgeTypeOK, StoreTypeOK
<1>1. PICK chosen \in SUBSET MediaIds :
          /\ \A m \in chosen : media[m] # None
          /\ pg' = [q \in Purgers |->
                 IF q # p THEN [pg[q] EXCEPT !.alone = FALSE]
                 ELSE [NotPurging EXCEPT
                        !.pc = "flag", !.todo = chosen, !.alone = \A r \in Purgers : pg[r].pc = "idle",
                        !.records = [m \in MediaIds |-> IF m \in chosen THEN media[m] ELSE None]]]
          /\ doomed' = doomed \cup chosen
          /\ UNCHANGED storeVars
  <2>1. {m \in asked : Purgeable(m, incl)} \in SUBSET MediaIds
    BY DEF ExistingIds
  <2>2. \A m \in {x \in asked : Purgeable(x, incl)} : media[m] # None
    BY DEF ExistingIds, IdExists
  <2> QED
    BY <2>1, <2>2 DEF DoPurge
<1>2. UNCHANGED <<media, thumbs, objects, allocated, held, reserved, expiring, restricted>>
  BY <1>1 DEF storeVars
<1>3. PICK single \in BOOLEAN : single = (\A r \in Purgers : pg[r].pc = "idle")
  OBVIOUS
<1>4. PICK rows \in [MediaIds -> DbMedia \cup {None}] : rows = [m \in MediaIds |-> IF m \in chosen THEN media[m] ELSE None]
  BY <1>0
<1>5. PICK g : g = [NotPurging EXCEPT !.pc = "flag", !.todo = chosen, !.alone = single, !.records = rows]
  OBVIOUS
<1>6. /\ g \in PurgeState /\ g.pc = "flag" /\ g.todo = chosen /\ g.alone = single /\ g.records = rows
      /\ g.flagged = {} /\ g.thumbsMap = {} /\ g.thumbsLeft = {}
  BY <1>5, NotPurgingState DEF NotPurging, PurgeState, PurgePcs
<1>7. \A q \in Purgers : pg'[q] = IF q = p THEN g ELSE [pg[q] EXCEPT !.alone = FALSE]
  BY <1>1, <1>3, <1>4, <1>5
<1>8. Chosen(g) = chosen /\ \A m \in chosen : g.records[m] = media[m]
  <2>1. \A m \in MediaIds : rows[m] = IF m \in chosen THEN media[m] ELSE None
    BY <1>4
  <2> QED
    BY <1>1, <1>6, <2>1 DEF Chosen
<1>9. Shrinks
  BY <1>1, <1>2 DEF Shrinks
<1>10. PurgerInv(g)'
  <2>1. RowsWereRead(g)' /\ UsersWereRead(g)' /\ AtWork(g)'
    BY <1>1, <1>2, <1>6, <1>8 DEF RowsWereRead, UsersWereRead, AtWork, Chosen
  <2> QED
    BY <2>1, <1>6 DEF PurgerInv
<1>11. AloneInv(g)'
  BY <1>1, <1>2, <1>6, <1>8 DEF AloneInv, Chosen
<1>12. \A q \in Purgers \ {p} : /\ pg'[q] \in PurgeState /\ pg'[q].pc = pg[q].pc /\ ~pg'[q].alone
                               /\ PurgerInv(pg'[q])
  <2> SUFFICES ASSUME NEW q \in Purgers \ {p}
               PROVE  pg'[q] \in PurgeState /\ pg'[q].pc = pg[q].pc /\ ~pg'[q].alone /\ PurgerInv(pg'[q])
    OBVIOUS
  <2>1. PICK r \in PurgeState : r = pg[q] /\ PurgerInv(r)
    BY <1>0 DEF PurgeInv
  <2>2. pg'[q] = [r EXCEPT !.alone = FALSE]
    BY <1>7, <2>1
  <2> QED
    BY <2>1, <2>2, NoLongerAlone
<1>13. PurgeTypeOK'
  <2>1. pg' \in [Purgers -> PurgeState]
    BY <1>1, <1>6, <1>7, <1>12
  <2> QED
    BY <1>0, <1>1, <1>2, <2>1 DEF PurgeInv, PurgeTypeOK, StoreTypeOK
<1>14. OnlyDoomedMediaLosesItsFile'
  BY <1>1, <1>2 DEF PurgeInv, OnlyDoomedMediaLosesItsFile, IdExists
<1>15. Solitude'
  BY <1>3, <1>6, <1>7, <1>12 DEF Solitude
<1>16. ASSUME NEW q \in Purgers PROVE PurgerInv(pg[q])' /\ AloneInv(pg[q])'
  <2>1. CASE q = p
    BY <1>7, <1>10, <1>11, <2>1
  <2>2. CASE q # p
    <3>1. PICK r \in PurgeState : r = pg'[q] /\ PurgerInv(r) /\ ~r.alone
      BY <1>12, <2>2
    <3>2. PurgerInv(r)' /\ AloneInv(r)'
      BY <1>9, <3>1, PurgerFrame DEF AloneInv
    <3> QED
      BY <3>1, <3>2
  <2> QED
    BY <2>1, <2>2
<1> QED
  BY <1>13, <1>14, <1>15, <1>16 DEF PurgeInv

LEMMA Notions ==
  ASSUME NEW p \in Purgers
  PROVE  Selected(p) = Chosen(pg[p]) /\ \A l : BeingPurged(p, l) = Marked(pg[p], l)
BY DEF Selected, BeingPurged, Chosen, Marked

(* The state of a purger that runs. *)
LEMMA Running ==
  ASSUME PurgeInv, NEW p \in Purgers, NEW r, r = pg[p], r.pc # "idle"
  PROVE  /\ r \in PurgeState /\ PurgerInv(r) /\ AloneInv(r)
         /\ RowsWereRead(r) /\ UsersWereRead(r) /\ (r.pc # "flag" => StageThree(r)) /\ AtWork(r)
         /\ r.records \in [MediaIds -> DbMedia \cup {None}] /\ r.flagMap \in [Locations -> SUBSET MediaIds]
         /\ r.flagged \subseteq Locations /\ r.thumbsMap \subseteq DbThumbnail /\ r.todo \subseteq MediaIds
         /\ r.thumbsLeft \subseteq DbThumbnail
         /\ Chosen(r) \subseteq MediaIds
         /\ \A m \in Chosen(r) : r.records[m] \in DbMedia /\ r.records[m].loc \in Locations
<1>1. r \in PurgeState /\ PurgerInv(r) /\ AloneInv(r)
  BY DEF PurgeInv, PurgeTypeOK
<1>2. /\ r.records \in [MediaIds -> DbMedia \cup {None}] /\ r.flagMap \in [Locations -> SUBSET MediaIds]
      /\ r.flagged \subseteq Locations /\ r.thumbsMap \subseteq DbThumbnail /\ r.todo \subseteq MediaIds
      /\ r.thumbsLeft \subseteq DbThumbnail
  BY <1>1 DEF PurgeState
<1>3. \A m \in Chosen(r) : r.records[m] \in DbMedia /\ r.records[m].loc \in Locations
  BY <1>2 DEF Chosen, DbMedia
<1> QED
  BY <1>1, <1>2, <1>3 DEF PurgerInv, Chosen

LEMMA UsersAreMedia ==
  ASSUME PurgeInv
  PROVE  /\ \A l \in Locations : Users(l) \in SUBSET MediaIds
         /\ thumbs \subseteq DbThumbnail
         /\ \A t \in DbThumbnail : t.parent \in MediaIds /\ t.loc \in Locations
<1>1. thumbs \subseteq DbThumbnail /\ \A t \in DbThumbnail : t.parent \in MediaIds /\ t.loc \in Locations
  BY DEF PurgeInv, PurgeTypeOK, StoreTypeOK, DbThumbnail
<1> QED
  BY <1>1 DEF Users, GetByLocation, ThumbParentsAt

(* Stage 1 reads the users of the file of a record and of its thumbnails. *)
LEMMA FlagInv ==
  ASSUME PurgeInv, NEW p \in Purgers, FlagRecord(p)
  PROVE  PurgeInv'
<1>1. PICK r : r = pg[p]
  OBVIOUS
<1>2. r.pc = "flag" /\ UNCHANGED <<doomed, storeVars>>
  BY <1>1 DEF FlagRecord
<1>3. PICK m \in r.todo :
        pg' = [pg EXCEPT
               ![p].flagMap = [l \in Locations |->
                    IF l \in ({r.records[m].loc} \cup {t.loc : t \in GetForMedia(m)}) \ r.flagged
                    THEN GetByLocation(l) \cup ThumbParentsAt(l) ELSE r.flagMap[l]],
               ![p].flagged = r.flagged \cup ({r.records[m].loc} \cup {t.loc : t \in GetForMedia(m)}),
               ![p].thumbsMap = r.thumbsMap \cup GetForMedia(m),
               ![p].todo = r.todo \ {m}]
  BY <1>1 DEF FlagRecord
<1>4. PICK mine : mine = GetForMedia(m)
  OBVIOUS
<1>5. PICK locs : locs = {r.records[m].loc} \cup {t.loc : t \in mine}
  OBVIOUS
<1>6. PICK map : map = [l \in Locations |-> IF l \in locs \ r.flagged THEN Users(l) ELSE r.flagMap[l]]
  OBVIOUS
<1>7. /\ r \in PurgeState /\ RowsWereRead(r) /\ UsersWereRead(r) /\ AtWork(r) /\ AloneInv(r)
      /\ r.flagMap \in [Locations -> SUBSET MediaIds] /\ r.flagged \subseteq Locations
      /\ r.thumbsMap \subseteq DbThumbnail /\ r.todo \subseteq MediaIds /\ m \in Chosen(r) /\ r.records[m].loc \in Locations
  BY <1>1, <1>2, Running DEF RowsWereRead
<1>8. mine \subseteq DbThumbnail /\ locs \subseteq Locations /\ \A t \in mine : t.parent = m /\ t.loc \in locs
  BY <1>4, <1>5, <1>7, UsersAreMedia DEF GetForMedia
<1>9. map \in [Locations -> SUBSET MediaIds]
      /\ \A l \in Locations : map[l] = IF l \in locs \ r.flagged THEN Users(l) ELSE r.flagMap[l]
  BY <1>6, <1>7, UsersAreMedia
<1>10. PICK g : g = [r EXCEPT !.flagMap = map, !.flagged = r.flagged \cup locs,
                              !.thumbsMap = r.thumbsMap \cup mine, !.todo = r.todo \ {m}]
  OBVIOUS
<1>11. pg' = [pg EXCEPT ![p] = g]
  BY <1>1, <1>3, <1>4, <1>5, <1>6, <1>10 DEF Users
<1>12. /\ g \in PurgeState /\ g.pc = "flag" /\ g.flagMap = map /\ g.flagged = r.flagged \cup locs
       /\ g.thumbsMap = r.thumbsMap \cup mine /\ g.todo = r.todo \ {m} /\ g.records = r.records
       /\ g.thumbsLeft = r.thumbsLeft /\ g.alone = r.alone
  BY <1>2, <1>7, <1>8, <1>9, <1>10 DEF PurgeState
<1>13. Chosen(g) = Chosen(r)
  BY <1>12 DEF Chosen
<1>14. PurgerInv(g)
  <2>1. RowsWereRead(g)
    BY <1>7, <1>8, <1>12, <1>13 DEF RowsWereRead
  <2>2. \A l \in g.flagged :
           /\ Users(l) \subseteq g.flagMap[l]
           /\ (\E n \in Chosen(g) : g.records[n].loc = l) \/ (\E t \in g.thumbsMap : t.loc = l)
    <3> SUFFICES ASSUME NEW l \in g.flagged
                 PROVE  /\ Users(l) \subseteq g.flagMap[l]
                        /\ (\E n \in Chosen(g) : g.records[n].loc = l) \/ (\E t \in g.thumbsMap : t.loc = l)
      OBVIOUS
    <3>1. CASE l \in r.flagged
      BY <1>7, <1>9, <1>12, <1>13, <3>1 DEF UsersWereRead
    <3>2. CASE l \in locs \ r.flagged
      BY <1>5, <1>7, <1>8, <1>9, <1>12, <1>13, <3>2
    <3> QED
      BY <1>12, <3>1, <3>2
  <2>3. \A n \in Chosen(g) : n \notin g.todo => g.records[n].loc \in g.flagged /\ GetForMedia(n) \subseteq g.thumbsMap
    BY <1>2, <1>4, <1>5, <1>7, <1>12, <1>13 DEF UsersWereRead
  <2>4. UsersWereRead(g)
    BY <1>12, <2>2, <2>3 DEF UsersWereRead
  <2>5. AtWork(g)
    BY <1>2, <1>7, <1>12 DEF AtWork
  <2> QED
    BY <1>12, <2>1, <2>4, <2>5 DEF PurgerInv
<1>15. AloneInv(g)
  <2> SUFFICES ASSUME g.alone PROVE AloneInv(g)
    BY DEF AloneInv
  <2>1. \A l \in r.flagged : r.flagMap[l] \subseteq Users(l)
    BY <1>2, <1>7, <1>12 DEF AloneInv
  <2>2. \A n \in Chosen(r) : media[n] # None
    BY <1>2, <1>7, <1>12 DEF AloneInv
  <2>3. \A l \in g.flagged : g.flagMap[l] \subseteq Users(l)
    BY <1>7, <1>8, <1>9, <1>12, <2>1
  <2> QED
    BY <1>12, <1>13, <2>2, <2>3 DEF AloneInv
<1>16. PurgerInv(g)' /\ AloneInv(g)'
  <2>1. PurgerInv(g)'
    BY <1>2, <1>12, <1>14, StoreStays, PurgerFrame
  <2>2. AloneInv(g)'
    BY <1>2, <1>15, AloneStays
  <2> QED
    BY <2>1, <2>2
<1> QED
  BY <1>1, <1>2, <1>11, <1>12, <1>16, StoreStays, PurgerMoves

(* Stage 2: a purger that goes on knows of all users it may remove. *)
LEMMA MarkInv ==
  ASSUME PurgeInv, NEW p \in Purgers, MarkBeingPurged(p)
  PROVE  PurgeInv'
<1>1. PICK r : r = pg[p]
  OBVIOUS
<1>2. r.pc = "flag" /\ r.todo = {} /\ UNCHANGED <<doomed, storeVars>>
  BY <1>1 DEF MarkBeingPurged
<1>3. CASE pg' = [pg EXCEPT ![p] = NotPurging]
  <2>1. PurgerInv(NotPurging)' /\ AloneInv(NotPurging)'
    BY NotPurgingState DEF PurgerInv, AloneInv
  <2> QED
    BY <1>1, <1>2, <1>3, <2>1, NotPurgingState, PurgerMoves, StoreStays
<1>4. CASE pg' = [pg EXCEPT ![p] = [r EXCEPT !.pc = IF Chosen(r) = {} THEN "done" ELSE "remove", !.todo = Chosen(r)]]
  <2>1. PICK next \in {"done", "remove"} : next = IF Chosen(r) = {} THEN "done" ELSE "remove"
    OBVIOUS
  <2>2. PICK chosen : chosen = Chosen(r)
    OBVIOUS
  <2>3. PICK g : g = [r EXCEPT !.pc = next, !.todo = chosen]
    OBVIOUS
  <2>4. pg' = [pg EXCEPT ![p] = g]
    BY <1>4, <2>1, <2>2, <2>3
  <2>5. /\ r \in PurgeState /\ RowsWereRead(r) /\ UsersWereRead(r) /\ AtWork(r) /\ AloneInv(r)
        /\ chosen \subseteq MediaIds
    BY <1>1, <1>2, <2>2, Running
  <2>6. /\ g \in PurgeState /\ g.pc = next /\ g.todo = chosen /\ g.records = r.records /\ g.flagMap = r.flagMap
        /\ g.flagged = r.flagged /\ g.thumbsMap = r.thumbsMap /\ g.thumbsLeft = r.thumbsLeft /\ g.alone = r.alone
    BY <2>3, <2>5 DEF PurgeState, PurgePcs
  <2>7. Chosen(g) = chosen /\ Chosen(r) = chosen /\ \A l : Marked(g, l) = Marked(r, l)
    BY <2>2, <2>6 DEF Chosen, Marked
  <2>8. RowsWereRead(g) /\ UsersWereRead(g)
    BY <1>2, <2>5, <2>6, <2>7 DEF RowsWereRead, UsersWereRead
  <2>9. StageThree(g)
    BY <2>5, <2>6, <2>7 DEF StageThree, RowsWereRead, UsersWereRead
  <2>10. AtWork(g)
    BY <1>2, <2>1, <2>5, <2>6, <2>7 DEF AtWork
  <2>11. PurgerInv(g)
    BY <2>8, <2>9, <2>10 DEF PurgerInv
  <2>12. AloneInv(g)
    <3> SUFFICES ASSUME g.alone, NEW l \in g.flagged
                 PROVE  /\ g.flagMap[l] \ Chosen(g) \subseteq Users(l)
                        /\ g.flagMap[l] \cap Chosen(g) \subseteq Marked(g, l)
      BY <2>6 DEF AloneInv
    <3>1. g.flagMap[l] \subseteq Users(l)
      BY <1>2, <2>5, <2>6 DEF AloneInv
    <3>2. ASSUME NEW u \in Users(l), u \in chosen PROVE u \in Marked(r, l)
      <4>1. CASE u \in GetByLocation(l)
        BY <2>5, <2>7, <3>2, <4>1 DEF GetByLocation, IdExists, RowsWereRead, Marked
      <4>2. CASE u \in ThumbParentsAt(l)
        <5>1. PICK t \in thumbs : t.loc = l /\ t.parent = u
          BY <4>2 DEF ThumbParentsAt
        <5>2. t \in r.thumbsMap
          BY <1>2, <2>5, <2>7, <3>2, <5>1 DEF UsersWereRead, GetForMedia
        <5> QED
          BY <5>1, <5>2 DEF Marked
      <4> QED
        BY <3>2, <4>1, <4>2 DEF Users
    <3> QED
      BY <2>7, <3>1, <3>2
  <2>13. PurgerInv(g)' /\ AloneInv(g)'
    BY <1>2, <2>6, <2>11, <2>12, StoreStays, PurgerFrame, AloneStays
  <2> QED
    BY <1>1, <1>2, <2>4, <2>6, <2>13, StoreStays, PurgerMoves
<1> QED
  BY <1>1, <1>3, <1>4, Notions DEF MarkBeingPurged

(* tryRemoveDsFile: everything that may use the file is being removed. *)
LEMMA RemoveFile ==
  ASSUME PurgeInv, NEW p \in Purgers, NEW r, r = pg[p], r.pc # "idle", NEW l \in r.flagged, TryRemoveDsFile(p, l),
         UNCHANGED <<doomed, media, thumbs, allocated, held, reserved, expiring, restricted>>
  PROVE  /\ Shrinks /\ StoreTypeOK' /\ OnlyDoomedMediaLosesItsFile'
         /\ \A g \in PurgeState : (g.flagMap = r.flagMap /\ g.records = r.records /\ g.thumbsMap = r.thumbsMap)
                                     => Settled(g, l)'
         /\ \A g : AloneInv(g) => AloneInv(g)'
<1>0. /\ RowsWereRead(r) /\ UsersWereRead(r) /\ l \in Locations
      /\ objects \in [Locations -> Hashes \cup {Partial, None}] /\ Chosen(r) \subseteq doomed
  BY Running DEF PurgeInv, PurgeTypeOK, StoreTypeOK, RowsWereRead
<1>1. /\ \A k \in Locations : objects'[k] \in {objects[k], None} /\ (k # l => objects'[k] = objects[k])
      /\ objects' \in [Locations -> Hashes \cup {Partial, None}]
      /\ objects'[l] = None \/ (~(r.flagMap[l] \subseteq Marked(r, l)) /\ objects' = objects)
  BY <1>0, Notions DEF TryRemoveDsFile, SafeToRemove, RemoveObject
<1>2. Shrinks
  BY <1>1 DEF Shrinks
<1>3. StoreTypeOK'
  BY <1>1 DEF PurgeInv, PurgeTypeOK, StoreTypeOK
<1>4. \A g \in PurgeState : (g.flagMap = r.flagMap /\ g.records = r.records /\ g.thumbsMap = r.thumbsMap) => Settled(g, l)'
  BY <1>1 DEF Settled, Marked, Chosen
<1>5. \A g : AloneInv(g) => AloneInv(g)'
  BY DEF AloneInv, Users, GetByLocation, ThumbParentsAt, IdExists, Chosen, Marked
<1>6. OnlyDoomedMediaLosesItsFile'
  <2>1. CASE r.flagMap[l] \subseteq Marked(r, l)
    <3>1. Marked(r, l) \subseteq doomed
      BY <1>0 DEF Marked, RowsWereRead
    <3>2. Users(l) \subseteq doomed
      BY <1>0, <2>1, <3>1 DEF UsersWereRead
    <3>3. ASSUME NEW m \in MediaIds, media[m] # None, objects'[media[m].loc] # media[m].hash PROVE m \in doomed
      <4>0. media[m].loc \in Locations
        BY <3>3 DEF PurgeInv, PurgeTypeOK, StoreTypeOK, DbMedia
      <4>1. CASE media[m].loc = l
        BY <3>2, <3>3, <4>1 DEF Users, GetByLocation, IdExists
      <4>2. CASE media[m].loc # l
        BY <1>1, <3>3, <4>0, <4>2 DEF PurgeInv, OnlyDoomedMediaLosesItsFile, IdExists
      <4> QED
        BY <4>1, <4>2
    <3>4. ASSUME NEW t \in thumbs, objects'[t.loc] # t.hash PROVE t.parent \in doomed
      <4>0. t.loc \in Locations
        BY UsersAreMedia
      <4>1. CASE t.loc = l
        BY <3>2, <4>1 DEF Users, ThumbParentsAt
      <4>2. CASE t.loc # l
        BY <1>1, <3>4, <4>0, <4>2 DEF PurgeInv, OnlyDoomedMediaLosesItsFile
      <4> QED
        BY <4>1, <4>2
    <3> QED
      BY <3>3, <3>4 DEF OnlyDoomedMediaLosesItsFile, IdExists
  <2>2. CASE ~(r.flagMap[l] \subseteq Marked(r, l))
    <3>1. objects' = objects
      BY <2>2, Notions DEF TryRemoveDsFile, SafeToRemove
    <3> QED
      BY <3>1 DEF PurgeInv, OnlyDoomedMediaLosesItsFile, IdExists
  <2> QED
    BY <2>1, <2>2
<1> QED
  BY <1>2, <1>3, <1>4, <1>5, <1>6

(* Stage 3 goes on with the rows, thumbnails and files it has ahead. *)
Continues(r, g) ==
    /\ r.pc \notin {"idle", "flag"} /\ g.pc \notin {"idle", "flag"}
    /\ g.records = r.records /\ g.flagMap = r.flagMap /\ g.flagged = r.flagged
    /\ g.thumbsMap = r.thumbsMap /\ g.alone = r.alone

LEMMA SameNotions ==
  ASSUME NEW r, NEW g, Continues(r, g)
  PROVE  /\ Chosen(g) = Chosen(r)
         /\ \A l : Marked(g, l) = Marked(r, l)
         /\ \A l : Settled(g, l) = Settled(r, l)
         /\ \A l : Settled(g, l)' = Settled(r, l)'
         /\ AloneInv(r) => AloneInv(g)
         /\ AloneInv(r)' => AloneInv(g)'
<1>1. Chosen(g) = Chosen(r) /\ \A l : Marked(g, l) = Marked(r, l)
  BY DEF Continues, Chosen, Marked
<1>2. (\A l : Settled(g, l) = Settled(r, l)) /\ \A l : Settled(g, l)' = Settled(r, l)'
  BY <1>1 DEF Continues, Settled, Chosen, Marked
<1>3. (AloneInv(r) => AloneInv(g)) /\ (AloneInv(r)' => AloneInv(g)')
  BY <1>1 DEF Continues, AloneInv, Chosen, Marked
<1> QED
  BY <1>1, <1>2, <1>3

LEMMA Proceeds ==
  ASSUME NEW r \in PurgeState, NEW g \in PurgeState, PurgerInv(r), Shrinks, Continues(r, g),
         g.todo = r.todo, g.thumbsLeft = r.thumbsLeft, AtWork(g)'
  PROVE  PurgerInv(g)'
<1>1. PurgerInv(r)'
  BY PurgerFrame
<1>2. RowsWereRead(r)' /\ UsersWereRead(r)' /\ StageThree(r)'
  BY <1>1 DEF PurgerInv, Continues
<1>3. RowsWereRead(g)' /\ UsersWereRead(g)'
  BY <1>2, SameNotions DEF RowsWereRead, UsersWereRead, Continues, Chosen
<1>4. StageThree(g)'
  BY <1>2, SameNotions DEF StageThree, Continues, Chosen
<1> QED
  BY <1>3, <1>4 DEF PurgerInv

LEMMA RemoveMediaFileInv ==
  ASSUME PurgeInv, NEW p \in Purgers, RemoveMediaFile(p)
  PROVE  PurgeInv'
<1>1. PICK r : r = pg[p]
  OBVIOUS
<1>2. PICK m \in r.todo : /\ TryRemoveDsFile(p, r.records[m].loc)
                          /\ pg' = [pg EXCEPT ![p] = [r EXCEPT !.pc = "reserve", !.cur = m]]
  BY <1>1, ZenonT(30) DEF RemoveMediaFile
<1>3. r.pc = "remove" /\ UNCHANGED <<doomed, media, thumbs, allocated, held, reserved, expiring, restricted>>
  BY <1>1 DEF RemoveMediaFile
<1>4. r \in PurgeState /\ PurgerInv(r) /\ AtWork(r) /\ AloneInv(r) /\ m \in MediaIds /\ r.records[m].loc \in r.flagged
  BY <1>1, <1>2, <1>3, Running DEF RowsWereRead, UsersWereRead
<1>5. PICK l \in r.flagged : l = r.records[m].loc
  BY <1>4
<1>6. PICK g : g = [r EXCEPT !.pc = "reserve", !.cur = m]
  OBVIOUS
<1>7. /\ g \in PurgeState /\ g.pc = "reserve" /\ g.cur = m /\ g.todo = r.todo /\ g.thumbsLeft = r.thumbsLeft
      /\ Continues(r, g) /\ g.records = r.records
  BY <1>3, <1>4, <1>6 DEF PurgeState, PurgePcs, Continues
<1>8. /\ Shrinks /\ StoreTypeOK' /\ OnlyDoomedMediaLosesItsFile' /\ Settled(g, l)' /\ AloneInv(r)'
  BY <1>1, <1>2, <1>3, <1>4, <1>5, <1>7, RemoveFile DEF Continues
<1>9. AtWork(g)'
  BY <1>2, <1>3, <1>4, <1>5, <1>7, <1>8 DEF AtWork
<1>10. PurgerInv(g)' /\ AloneInv(g)'
  BY <1>4, <1>7, <1>8, <1>9, Proceeds, SameNotions
<1>11. pg' = [pg EXCEPT ![p] = g] /\ pg[p].pc # "idle" /\ g.alone = pg[p].alone
  BY <1>1, <1>2, <1>3, <1>6, <1>7 DEF Continues
<1> QED
  BY <1>3, <1>7, <1>8, <1>10, <1>11, PurgerMoves

LEMMA ReserveInv ==
  ASSUME PurgeInv, NEW p \in Purgers, ReserveId(p)
  PROVE  PurgeInv'
<1>1. PICK r : r = pg[p]
  OBVIOUS
<1>2. /\ r.pc = "reserve" /\ pg' = [pg EXCEPT ![p] = [r EXCEPT !.pc = "delete"]]
      /\ reserved' = IF r.cur \in LocalIds THEN reserved \cup {r.cur} ELSE reserved
      /\ UNCHANGED <<doomed, media, thumbs, objects, allocated, held, expiring, restricted>>
  BY <1>1 DEF ReserveId
<1>3. r \in PurgeState /\ PurgerInv(r) /\ AtWork(r) /\ AloneInv(r)
  BY <1>1, <1>2, Running
<1>4. PICK g : g = [r EXCEPT !.pc = "delete"]
  OBVIOUS
<1>5. /\ g \in PurgeState /\ g.pc = "delete" /\ g.cur = r.cur /\ g.todo = r.todo /\ g.thumbsLeft = r.thumbsLeft
      /\ Continues(r, g) /\ g.records = r.records
  BY <1>2, <1>3, <1>4 DEF PurgeState, PurgePcs, Continues
<1>6. Shrinks /\ StoreTypeOK' /\ OnlyDoomedMediaLosesItsFile'
  BY <1>2 DEF Shrinks, PurgeInv, PurgeTypeOK, StoreTypeOK, OnlyDoomedMediaLosesItsFile, IdExists
<1>7. AloneInv(r)'
  BY <1>2, <1>3 DEF AloneInv, Users, GetByLocation, ThumbParentsAt, IdExists, Chosen, Marked
<1>8. Settled(r, r.records[r.cur].loc)' /\ r.cur \in r.todo
  BY <1>2, <1>3 DEF AtWork, Settled, Marked, Chosen
<1>9. AtWork(g)'
  <2>1. PICK l : l = r.records[r.cur].loc
    OBVIOUS
  <2>2. Settled(g, l)'
    BY <1>5, <1>8, <2>1, SameNotions
  <2> QED
    BY <1>2, <1>3, <1>5, <1>8, <2>1, <2>2 DEF AtWork
<1>10. PurgerInv(g)' /\ AloneInv(g)'
  BY <1>3, <1>5, <1>6, <1>7, <1>9, Proceeds, SameNotions
<1>11. pg' = [pg EXCEPT ![p] = g] /\ pg[p].pc # "idle" /\ g.alone = pg[p].alone /\ UNCHANGED doomed
  BY <1>1, <1>2, <1>4, <1>5 DEF Continues
<1> QED
  BY <1>5, <1>6, <1>10, <1>11, PurgerMoves

LEMMA NextRecordInv ==
  ASSUME PurgeInv, NEW p \in Purgers, NextRecord(p)
  PROVE  PurgeInv'
<1>1. PICK r : r = pg[p]
  OBVIOUS
<1>2. PICK next : next = IF r.todo = {} THEN "done" ELSE "remove"
  OBVIOUS
<1>3. /\ r.pc = "thumbs" /\ r.thumbsLeft = {} /\ pg' = [pg EXCEPT ![p] = [r EXCEPT !.pc = next]]
      /\ UNCHANGED <<doomed, storeVars>>
  BY <1>1, <1>2 DEF NextRecord
<1>4. r \in PurgeState /\ PurgerInv(r) /\ AtWork(r) /\ AloneInv(r)
  BY <1>1, <1>3, Running
<1>5. PICK g : g = [r EXCEPT !.pc = next]
  OBVIOUS
<1>6. /\ g \in PurgeState /\ g.pc = next /\ g.todo = r.todo /\ g.thumbsLeft = r.thumbsLeft
      /\ Continues(r, g)
  BY <1>2, <1>3, <1>4, <1>5 DEF PurgeState, PurgePcs, Continues
<1>7. AtWork(g)'
  BY <1>2, <1>3, <1>6 DEF AtWork
<1>8. AloneInv(r)'
  BY <1>3, <1>4, AloneStays
<1>9. Shrinks /\ StoreTypeOK' /\ OnlyDoomedMediaLosesItsFile' /\ UNCHANGED doomed
  BY <1>3, StoreStays
<1>10. PurgerInv(g)' /\ AloneInv(g)'
  BY <1>4, <1>6, <1>7, <1>8, <1>9, Proceeds, SameNotions
<1>11. pg' = [pg EXCEPT ![p] = g] /\ pg[p].pc # "idle" /\ g.alone = pg[p].alone
  BY <1>1, <1>3, <1>5, <1>6 DEF Continues
<1> QED
  BY <1>6, <1>9, <1>10, <1>11, PurgerMoves

LEMMA RemoveThumbFileInv ==
  ASSUME PurgeInv, NEW p \in Purgers, RemoveThumbFile(p)
  PROVE  PurgeInv'
<1>1. PICK r : r = pg[p]
  OBVIOUS
<1>2. PICK t \in r.thumbsLeft : /\ TryRemoveDsFile(p, t.loc)
                                /\ pg' = [pg EXCEPT ![p] = [r EXCEPT !.pc = "dropThumb", !.curThumb = t]]
  BY <1>1 DEF RemoveThumbFile
<1>3. r.pc = "thumbs" /\ UNCHANGED <<doomed, media, thumbs, allocated, held, reserved, expiring, restricted>>
  BY <1>1 DEF RemoveThumbFile
<1>4. r \in PurgeState /\ PurgerInv(r) /\ AtWork(r) /\ AloneInv(r) /\ t \in DbThumbnail /\ t.loc \in r.flagged
  BY <1>1, <1>2, <1>3, Running DEF RowsWereRead, AtWork
<1>5. PICK l \in r.flagged : l = t.loc
  BY <1>4
<1>6. PICK g : g = [r EXCEPT !.pc = "dropThumb", !.curThumb = t]
  OBVIOUS
<1>7. /\ g \in PurgeState /\ g.pc = "dropThumb" /\ g.curThumb = t /\ g.todo = r.todo /\ g.thumbsLeft = r.thumbsLeft
      /\ g.thumbsMap = r.thumbsMap /\ Continues(r, g)
  BY <1>3, <1>4, <1>6 DEF PurgeState, PurgePcs, Continues
<1>8. /\ Shrinks /\ StoreTypeOK' /\ OnlyDoomedMediaLosesItsFile' /\ Settled(g, l)' /\ AloneInv(r)'
  BY <1>1, <1>2, <1>3, <1>4, <1>5, <1>7, RemoveFile DEF Continues
<1>9. AtWork(g)'
  BY <1>2, <1>3, <1>4, <1>5, <1>7, <1>8 DEF AtWork
<1>10. PurgerInv(g)' /\ AloneInv(g)'
  BY <1>4, <1>7, <1>8, <1>9, Proceeds, SameNotions
<1>11. pg' = [pg EXCEPT ![p] = g] /\ pg[p].pc # "idle" /\ g.alone = pg[p].alone
  BY <1>1, <1>2, <1>3, <1>6, <1>7 DEF Continues
<1> QED
  BY <1>3, <1>7, <1>8, <1>10, <1>11, PurgerMoves

(* The row goes, or stays because it is quarantined, and its thumbnails are next. *)
LEMMA DeleteRecordInv ==
  ASSUME PurgeInv, NEW p \in Purgers, DeleteRecord(p)
  PROVE  PurgeInv'
<1>1. PICK r : r = pg[p]
  OBVIOUS
<1>2. PICK cur : cur = r.cur
  OBVIOUS
<1>3. PICK left : left = {t \in r.thumbsMap : t.parent = cur}
  OBVIOUS
<1>4. /\ r.pc = "delete"
      /\ IF r.records[cur].quarantined THEN UNCHANGED media ELSE media' = [media EXCEPT ![cur] = None]
      /\ pg' = [pg EXCEPT ![p] = [r EXCEPT !.pc = "thumbs", !.todo = r.todo \ {cur}, !.thumbsLeft = left]]
      /\ UNCHANGED <<doomed, thumbs, objects, allocated, held, reserved, expiring, restricted>>
  BY <1>1, <1>2, <1>3 DEF DeleteRecord, MediaDelete
<1>5. /\ r \in PurgeState /\ PurgerInv(r) /\ RowsWereRead(r) /\ UsersWereRead(r) /\ StageThree(r) /\ AtWork(r)
      /\ AloneInv(r) /\ cur \in r.todo /\ cur \in Chosen(r) /\ cur \in MediaIds /\ r.thumbsLeft = {}
      /\ Settled(r, r.records[cur].loc) /\ r.flagged \subseteq Locations
      /\ Chosen(r) \subseteq MediaIds /\ r.thumbsMap \subseteq DbThumbnail
  BY <1>1, <1>2, <1>4, Running, ZenonT(30) DEF AtWork, RowsWereRead
<1>6. /\ media \in [MediaIds -> DbMedia \cup {None}]
      /\ media' \in [MediaIds -> DbMedia \cup {None}]
      /\ \A m \in MediaIds : media'[m] = media[m] \/ (m = cur /\ media'[m] = None)
      /\ media'[cur] # None => r.records[cur].quarantined
  BY <1>4, <1>5 DEF PurgeInv, PurgeTypeOK, StoreTypeOK
<1>7. Shrinks /\ StoreTypeOK' /\ OnlyDoomedMediaLosesItsFile'
  <2>1. Shrinks
    BY <1>4, <1>6 DEF Shrinks
  <2>2. StoreTypeOK'
    BY <1>4, <1>6 DEF PurgeInv, PurgeTypeOK, StoreTypeOK
  <2>3. OnlyDoomedMediaLosesItsFile'
    BY <1>4, <1>6 DEF PurgeInv, OnlyDoomedMediaLosesItsFile, IdExists
  <2> QED
    BY <2>1, <2>2, <2>3
<1>8. PICK g : g = [r EXCEPT !.pc = "thumbs", !.todo = r.todo \ {cur}, !.thumbsLeft = left]
  OBVIOUS
<1>9. /\ g \in PurgeState /\ g.pc = "thumbs" /\ g.todo = r.todo \ {cur} /\ g.thumbsLeft = left
      /\ Continues(r, g) /\ g.thumbsMap = r.thumbsMap /\ g.records = r.records /\ g.flagged = r.flagged
  BY <1>3, <1>4, <1>5, <1>8 DEF PurgeState, PurgePcs, Continues
<1>10. Chosen(g) = Chosen(r)
  BY <1>9, SameNotions
<1>11. PurgerInv(g)'
  <2>0. PurgerInv(r)' /\ RowsWereRead(r)' /\ UsersWereRead(r)'
    BY <1>4, <1>5, <1>7, PurgerFrame DEF PurgerInv
  <2>1. RowsWereRead(g)'
    BY <2>0, <1>9, SameNotions DEF RowsWereRead, Chosen
  <2>2. UsersWereRead(g)'
    BY <2>0, <1>4, <1>9, SameNotions DEF UsersWereRead, Chosen, Continues
  <2>3. \A m \in Chosen(r) \ g.todo :
           (media'[m] # None => r.records[m].quarantined) /\ GetForMedia(m)' \subseteq left
    <3> SUFFICES ASSUME NEW m \in Chosen(r) \ g.todo
                 PROVE  (media'[m] # None => r.records[m].quarantined) /\ GetForMedia(m)' \subseteq left
      OBVIOUS
    <3>1. CASE m = cur
      BY <1>3, <1>4, <1>5, <1>6, <3>1 DEF UsersWereRead, GetForMedia
    <3>2. CASE m # cur
      BY <1>4, <1>5, <1>6, <1>9, <3>2 DEF StageThree, GetForMedia
    <3> QED
      BY <3>1, <3>2
  <2>4. \A l \in r.flagged :
           \/ Settled(g, l)'
           \/ \E m \in g.todo : r.records[m].loc = l
           \/ \E t \in r.thumbsMap : t.loc = l /\ (t.parent \in g.todo \/ t \in left)
    <3> SUFFICES ASSUME NEW l \in r.flagged, ~Settled(g, l)'
                 PROVE  \/ \E m \in g.todo : r.records[m].loc = l
                        \/ \E t \in r.thumbsMap : t.loc = l /\ (t.parent \in g.todo \/ t \in left)
      OBVIOUS
    <3>1. ~Settled(r, l)
      <4>1. ~Settled(r, l)'
        BY <1>9, SameNotions
      <4> QED
        BY <1>4, <4>1 DEF Settled, Marked, Chosen
    <3>2. l # r.records[cur].loc
      BY <1>5, <3>1
    <3>3. \/ \E m \in r.todo : r.records[m].loc = l
          \/ \E t \in r.thumbsMap : t.loc = l /\ t.parent \in r.todo
      BY <1>5, <3>1 DEF StageThree
    <3>4. CASE \E m \in r.todo : r.records[m].loc = l
      BY <1>9, <3>2, <3>4
    <3>5. CASE \E t \in r.thumbsMap : t.loc = l /\ t.parent \in r.todo
      BY <1>3, <1>9, <3>5
    <3> QED
      BY <3>3, <3>4, <3>5
  <2>5. StageThree(g)'
    BY <1>9, <1>10, <2>3, <2>4 DEF StageThree, Chosen
  <2>6. AtWork(g)'
    BY <1>3, <1>9 DEF AtWork
  <2> QED
    BY <2>1, <2>2, <2>5, <2>6 DEF PurgerInv
<1>12. AloneInv(g)'
  <2> SUFFICES ASSUME g.alone PROVE AloneInv(g)'
    BY DEF AloneInv
  <2>1. r.alone
    BY <1>9 DEF Continues
  <2>2. \A l \in r.flagged : /\ r.flagMap[l] \ Chosen(r) \subseteq Users(l)
                             /\ r.flagMap[l] \cap Chosen(r) \subseteq Marked(r, l)
    BY <1>4, <1>5, <2>1 DEF AloneInv
  <2>3. \A l \in Locations : Users(l) \ Chosen(r) \subseteq Users(l)'
    BY <1>4, <1>5, <1>6 DEF Users, GetByLocation, ThumbParentsAt, IdExists
  <2>4. \A l \in r.flagged : r.flagMap[l] \ Chosen(r) \subseteq Users(l)'
    BY <1>5, <2>2, <2>3
  <2>5. AloneInv(r)'
    BY <1>4, <2>2, <2>4 DEF AloneInv, Chosen, Marked
  <2> QED
    BY <1>9, <2>5, SameNotions
<1>13. pg' = [pg EXCEPT ![p] = g] /\ pg[p].pc # "idle" /\ g.alone = pg[p].alone
  BY <1>1, <1>4, <1>8, <1>9 DEF Continues
<1> QED
  BY <1>4, <1>7, <1>9, <1>11, <1>12, <1>13, PurgerMoves

LEMMA DeleteThumbInv ==
  ASSUME PurgeInv, NEW p \in Purgers, DeleteThumb(p)
  PROVE  PurgeInv'
<1>1. PICK r : r = pg[p]
  OBVIOUS
<1>2. PICK t : t = r.curThumb
  OBVIOUS
<1>3. /\ r.pc = "dropThumb" /\ thumbs' = thumbs \ {t}
      /\ pg' = [pg EXCEPT ![p] = [r EXCEPT !.pc = "thumbs", !.curThumb = None, !.thumbsLeft = r.thumbsLeft \ {t}]]
      /\ UNCHANGED <<doomed, media, objects, allocated, held, reserved, expiring, restricted>>
  BY <1>1, <1>2 DEF DeleteThumb
<1>4. /\ r \in PurgeState /\ PurgerInv(r) /\ RowsWereRead(r) /\ UsersWereRead(r) /\ StageThree(r) /\ AtWork(r)
      /\ AloneInv(r) /\ t \in r.thumbsLeft /\ t \in r.thumbsMap /\ Settled(r, t.loc) /\ r.flagged \subseteq Locations
      /\ Chosen(r) \subseteq MediaIds /\ t.parent \in Chosen(r) /\ r.thumbsLeft \subseteq DbThumbnail
  BY <1>1, <1>2, <1>3, Running DEF AtWork, RowsWereRead
<1>5. Shrinks /\ StoreTypeOK' /\ OnlyDoomedMediaLosesItsFile'
  BY <1>3 DEF Shrinks, PurgeInv, PurgeTypeOK, StoreTypeOK, OnlyDoomedMediaLosesItsFile, IdExists
<1>6. PICK g : g = [r EXCEPT !.pc = "thumbs", !.curThumb = None, !.thumbsLeft = r.thumbsLeft \ {t}]
  OBVIOUS
<1>7. /\ g \in PurgeState /\ g.pc = "thumbs" /\ g.todo = r.todo /\ g.thumbsLeft = r.thumbsLeft \ {t}
      /\ Continues(r, g) /\ g.thumbsMap = r.thumbsMap /\ g.records = r.records /\ g.flagged = r.flagged
  BY <1>3, <1>4, <1>6 DEF PurgeState, PurgePcs, Continues
<1>8. Chosen(g) = Chosen(r)
  BY <1>7, SameNotions
<1>9. PurgerInv(g)'
  <2>0. PurgerInv(r)' /\ RowsWereRead(r)' /\ UsersWereRead(r)'
    BY <1>3, <1>4, <1>5, PurgerFrame DEF PurgerInv
  <2>1. RowsWereRead(g)'
    BY <2>0, <1>7, SameNotions DEF RowsWereRead, Chosen
  <2>2. UsersWereRead(g)'
    BY <2>0, <1>3, <1>7, SameNotions DEF UsersWereRead, Chosen, Continues
  <2>3. \A m \in Chosen(r) \ r.todo :
           (media'[m] # None => r.records[m].quarantined) /\ GetForMedia(m)' \subseteq r.thumbsLeft \ {t}
    BY <1>3, <1>4 DEF StageThree, GetForMedia
  <2>4. \A l \in r.flagged :
           \/ Settled(g, l)'
           \/ \E m \in r.todo : r.records[m].loc = l
           \/ \E x \in r.thumbsMap : x.loc = l /\ (x.parent \in r.todo \/ x \in r.thumbsLeft \ {t})
    <3> SUFFICES ASSUME NEW l \in r.flagged, ~Settled(g, l)'
                 PROVE  \/ \E m \in r.todo : r.records[m].loc = l
                        \/ \E x \in r.thumbsMap : x.loc = l /\ (x.parent \in r.todo \/ x \in r.thumbsLeft \ {t})
      OBVIOUS
    <3>1. ~Settled(r, l)
      <4>1. ~Settled(r, l)'
        BY <1>7, SameNotions
      <4> QED
        BY <1>3, <4>1 DEF Settled, Marked, Chosen
    <3>2. l # t.loc
      BY <1>4, <3>1
    <3> QED
      BY <1>4, <3>1, <3>2 DEF StageThree
  <2>5. StageThree(g)'
    BY <1>7, <1>8, <2>3, <2>4 DEF StageThree, Chosen
  <2>6. AtWork(g)'
    BY <1>4, <1>7 DEF AtWork
  <2> QED
    BY <2>1, <2>2, <2>5, <2>6 DEF PurgerInv
<1>10. AloneInv(g)'
  <2> SUFFICES ASSUME g.alone PROVE AloneInv(g)'
    BY DEF AloneInv
  <2>1. r.alone
    BY <1>7 DEF Continues
  <2>2. \A l \in r.flagged : /\ r.flagMap[l] \ Chosen(r) \subseteq Users(l)
                             /\ r.flagMap[l] \cap Chosen(r) \subseteq Marked(r, l)
    BY <1>3, <1>4, <2>1 DEF AloneInv
  <2>3. \A l \in Locations : Users(l) \ Chosen(r) \subseteq Users(l)'
    BY <1>3, <1>4 DEF Users, GetByLocation, ThumbParentsAt, IdExists
  <2>4. \A l \in r.flagged : r.flagMap[l] \ Chosen(r) \subseteq Users(l)'
    BY <1>4, <2>2, <2>3
  <2>5. AloneInv(r)'
    BY <1>3, <2>2, <2>4 DEF AloneInv, Chosen, Marked
  <2> QED
    BY <1>7, <2>5, SameNotions
<1>11. pg' = [pg EXCEPT ![p] = g] /\ pg[p].pc # "idle" /\ g.alone = pg[p].alone
  BY <1>1, <1>3, <1>6, <1>7 DEF Continues
<1> QED
  BY <1>3, <1>5, <1>7, <1>9, <1>10, <1>11, PurgerMoves

(* The administrator quarantines media: rows keep their file. *)
LEMMA QuarantineInv ==
  ASSUME PurgeInv, NEW h \in Hashes, QuarantineMedia(h), UNCHANGED purgeVars
  PROVE  PurgeInv'
<1>1. UNCHANGED <<pg, doomed, thumbs, objects, allocated, held, reserved, expiring, restricted>>
  BY DEF QuarantineMedia, purgeVars
<1>2. PICK ids : UpdateQuarantineByHashAndOrigin(ids, h)
  BY DEF QuarantineMedia
<1>3. media \in [MediaIds -> DbMedia \cup {None}]
  BY DEF PurgeInv, PurgeTypeOK, StoreTypeOK
<1>4. \A m \in MediaIds : /\ media'[m] \in DbMedia \cup {None}
                          /\ media'[m] # None <=> media[m] # None
                          /\ media[m] # None => media'[m].loc = media[m].loc /\ media'[m].hash = media[m].hash
  <2> SUFFICES ASSUME NEW m \in MediaIds
               PROVE  /\ media'[m] \in DbMedia \cup {None}
                      /\ media'[m] # None <=> media[m] # None
                      /\ media[m] # None => media'[m].loc = media[m].loc /\ media'[m].hash = media[m].hash
    OBVIOUS
  <2>1. CASE m \in (GetByHash(h) \cap ids) \ PinnedIds
    <3>1. media[m] \in DbMedia
      BY <1>3, <2>1 DEF GetByHash, IdExists
    <3>2. media'[m] = [media[m] EXCEPT !.quarantined = TRUE]
      BY <1>2, <2>1 DEF UpdateQuarantineByHashAndOrigin
    <3> QED
      BY <3>1, <3>2, NoneIsNoRow DEF DbMedia
  <2>2. CASE m \notin (GetByHash(h) \cap ids) \ PinnedIds
    BY <1>2, <1>3, <2>2 DEF UpdateQuarantineByHashAndOrigin
  <2> QED
    BY <2>1, <2>2
<1>5. media' \in [MediaIds -> DbMedia \cup {None}]
  BY <1>2, <1>4 DEF UpdateQuarantineByHashAndOrigin
<1>6. PurgeTypeOK'
  BY <1>1, <1>5 DEF PurgeInv, PurgeTypeOK, StoreTypeOK
<1>7. OnlyDoomedMediaLosesItsFile'
  BY <1>1, <1>4 DEF PurgeInv, OnlyDoomedMediaLosesItsFile, IdExists
<1>8. Shrinks
  BY <1>1, <1>4 DEF Shrinks
<1>9. \A l : Users(l)' = Users(l)
  BY <1>1, <1>4 DEF Users, GetByLocation, ThumbParentsAt, IdExists
<1>10. ASSUME NEW q \in Purgers PROVE PurgerInv(pg[q])' /\ AloneInv(pg[q])'
  <2>1. PICK r \in PurgeState : r = pg[q] /\ r = pg'[q] /\ PurgerInv(r) /\ AloneInv(r)
    BY <1>1 DEF PurgeInv, PurgeTypeOK
  <2>2. PurgerInv(r)'
    BY <1>8, <2>1, PurgerFrame
  <2>3. AloneInv(r)'
    BY <1>4, <1>9, <2>1 DEF AloneInv, Chosen, Marked
  <2> QED
    BY <2>1, <2>2, <2>3
<1> QED
  BY <1>1, <1>6, <1>7, <1>10 DEF PurgeInv, Solitude

LEMMA PurgeNextInv == PurgeInv /\ [PurgeNext]_<<storeVars, purgeVars>> => PurgeInv'
<1> SUFFICES ASSUME PurgeInv, [PurgeNext]_<<storeVars, purgeVars>> PROVE PurgeInv'
  OBVIOUS
<1>1. ASSUME NEW p \in Purgers, PurgeMedia(p) PROVE PurgeInv'
  BY <1>1, BeginInv DEF PurgeMedia
<1>2. ASSUME NEW p \in Purgers, PurgeRemoteMedia(p) PROVE PurgeInv'
  <2>1. PICK old : DoPurge(p, {m \in ExistingIds : media[m].hash \in old}, FALSE)
    BY <1>2 DEF PurgeRemoteMedia
  <2> QED
    BY <1>2, <2>1, BeginInv DEF PurgeRemoteMedia
<1>3. ASSUME NEW p \in Purgers, PurgerStep(p) \/ PurgeFails(p) PROVE PurgeInv'
  BY <1>1, <1>2, <1>3, FlagInv, MarkInv, RemoveMediaFileInv, ReserveInv, DeleteRecordInv, RemoveThumbFileInv,
     DeleteThumbInv, NextRecordInv, PurgerEnds DEF PurgerStep
<1>4. CASE UNCHANGED <<storeVars, purgeVars>>
  <2>1. UNCHANGED <<doomed, storeVars>> /\ pg' = pg
    BY <1>4 DEF purgeVars
  <2>2. ASSUME NEW q \in Purgers PROVE PurgerInv(pg[q])' /\ AloneInv(pg[q])'
    <3>1. PICK r \in PurgeState : r = pg[q] /\ r = pg'[q] /\ PurgerInv(r) /\ AloneInv(r)
      BY <2>1 DEF PurgeInv, PurgeTypeOK
    <3> QED
      BY <2>1, <3>1, StoreStays, PurgerFrame, AloneStays
  <2> QED
    BY <2>1, <2>2, StoreStays DEF PurgeInv, PurgeTypeOK, Solitude
<1> QED
  BY <1>3, <1>4, QuarantineInv DEF PurgeNext

LEMMA PurgeInvariance == PurgeSpec => []PurgeInv
BY PurgeInitInv, PurgeNextInv, PTL DEF PurgeSpec

(* Tables, datastores and purgers keep their types. *)
THEOREM PurgeTypeCorrect == PurgeSpec => []PurgeTypeOK
<1>1. PurgeInv => PurgeTypeOK
  BY DEF PurgeInv
<1> QED
  BY <1>1, PurgeInvariance, PTL

(* However many purges run at once and wherever they fail, a row or thumbnail *)
(* that no purge was asked to remove keeps its content, whoever it shares its *)
(* file with (purge.go:177-181).                                              *)
THEOREM PurgesSpareTheOthers == PurgeSpec => []OnlyDoomedMediaLosesItsFile
<1>1. PurgeInv => OnlyDoomedMediaLosesItsFile
  BY DEF PurgeInv
<1> QED
  BY <1>1, PurgeInvariance, PTL

(* A purge that returns without an error has removed every row it chose and   *)
(* did not keep for its quarantine flag, with all thumbnails; and every file  *)
(* it touched that nobody uses, if no other purge ran meanwhile               *)
(* (purge.go:177-230).                                                        *)
THEOREM ReturnedPurgesAreThorough == PurgeSpec => []FinishedPurgeIsThorough
<1>1. PurgeInv => FinishedPurgeIsThorough
  <2> SUFFICES ASSUME PurgeInv, NEW p \in Purgers, pg[p].pc = "done"
               PROVE  /\ \A m \in Selected(p) : GetForMedia(m) = {} /\ (IdExists(m) => pg[p].records[m].quarantined)
                      /\ pg[p].alone => \A l \in pg[p].flagged :
                             objects[l] = None \/ GetByLocation(l) # {} \/ ThumbParentsAt(l) # {}
    BY DEF FinishedPurgeIsThorough, FinishedPurgeIsComplete, FinishedPurgeFreesFiles
  <2>1. PICK r : r = pg[p]
    OBVIOUS
  <2>2. StageThree(r) /\ AtWork(r) /\ AloneInv(r) /\ r.todo = {} /\ r.thumbsLeft = {}
    BY <2>1, Running DEF AtWork
  <2>3. \A m \in Selected(p) : GetForMedia(m) = {} /\ (IdExists(m) => pg[p].records[m].quarantined)
    BY <2>1, <2>2, Notions DEF StageThree, IdExists
  <2>4. ASSUME r.alone, NEW l \in r.flagged PROVE objects[l] = None \/ Users(l) # {}
    <3>1. Settled(r, l)
      BY <2>2 DEF StageThree
    <3>2. r.flagMap[l] \ Chosen(r) \subseteq Users(l) /\ r.flagMap[l] \cap Chosen(r) \subseteq Marked(r, l)
      BY <2>1, <2>2, <2>4 DEF AloneInv
    <3> QED
      BY <3>1, <3>2 DEF Settled
  <2> QED
    BY <2>1, <2>3, <2>4 DEF Users
<1> QED
  BY <1>1, PurgeInvariance, PTL

(* No step takes a local ID out of media that is not in reserved_media, even  *)
(* when another purger has come first: the ID cannot be handed out again      *)
(* (purge.go:198-207).                                                        *)
THEOREM PurgesReserveIds == PurgeSpec => PurgedIdsStayTaken
<1> DEFINE Taken == \A m \in LocalIds : (IdExists(m) /\ media'[m] = None) => m \in reserved'
<1>1. PurgeInv /\ [PurgeNext]_<<storeVars, purgeVars>> => [Taken]_<<storeVars, purgeVars>>
  <2> SUFFICES ASSUME PurgeInv, PurgeNext, NEW m \in LocalIds, media[m] # None, media'[m] = None
               PROVE  m \in reserved'
    BY DEF IdExists
  <2>1. m \in MediaIds /\ media \in [MediaIds -> DbMedia \cup {None}]
    BY DEF MediaIds, PurgeInv, PurgeTypeOK, StoreTypeOK
  <2>2. media' # media
    OBVIOUS
  <2>3. ASSUME NEW p \in Purgers, DeleteRecord(p) PROVE m \in reserved'
    <3>1. PICK r : r = pg[p]
      OBVIOUS
    <3>2. r.pc = "delete" /\ m = r.cur /\ UNCHANGED reserved
      BY <2>1, <2>3, <3>1 DEF DeleteRecord, MediaDelete
    <3> QED
      BY <3>1, <3>2, Running DEF AtWork
  <2>4. ASSUME NEW p \in Purgers, PurgerStep(p) \/ PurgeFails(p) PROVE DeleteRecord(p)
    BY <2>2, <2>4 DEF PurgerStep, PurgeMedia, PurgeRemoteMedia, DoPurge, FlagRecord, MarkBeingPurged, RemoveMediaFile,
       ReserveId, RemoveThumbFile, DeleteThumb, NextRecord, PurgeReturns, PurgeFails, storeVars
  <2>5. ASSUME NEW h \in Hashes, QuarantineMedia(h) PROVE FALSE
    <3>1. PICK ids : UpdateQuarantineByHashAndOrigin(ids, h)
      BY <2>5 DEF QuarantineMedia
    <3>2. media[m] \in DbMedia
      BY <2>1
    <3>3. [media[m] EXCEPT !.quarantined = TRUE] \in DbMedia
      BY <3>2 DEF DbMedia
    <3> QED
      BY <2>1, <3>1, <3>3, NoneIsNoRow DEF UpdateQuarantineByHashAndOrigin
  <2> QED
    BY <2>3, <2>4, <2>5 DEF PurgeNext
<1> QED
  BY <1>1, PurgeInvariance, PTL DEF PurgeSpec, PurgedIdsStayTaken
=============================================================================
