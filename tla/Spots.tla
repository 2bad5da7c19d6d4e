-------------------------------- MODULE Spots --------------------------------
(***************************************************************************)
(* Destinations posted by travelers, their photos and the quests their     *)
(* authors make for them (src/spots/store.ts, src/spots/asset-store.ts,    *)
(* src/routes/spots.ts).  The process serves what its memory holds; the    *)
(* tables are written around it: a destination before it is shown, a photo *)
(* after, a review with nobody waiting.  A request is one process per      *)
(* destination or quest it makes, stopped at each await; a restart reads   *)
(* the memory back from the tables.                                        *)
(***************************************************************************)
EXTENDS Naturals, Sequences

CONSTANTS
  Authors,       \* travelers who post
  Places,        \* ids of destinations, each made by one request
  Photos,        \* ids of uploaded assets
  PlaceQuests,   \* ids of author quests, each made by one request
  Nobody, NoPlace, NoQuest,
  MaxRestarts

ASSUME SpotNames ==
  Nobody \notin Authors /\ NoPlace \notin Places /\ NoQuest \notin PlaceQuests /\ MaxRestarts \in Nat

VARIABLES
  row, place,        \* spots: the table and spotStore.spots
  kept, photo,       \* spot_assets: the table and assetStore.assets
  questRow,          \* quests made here: the destination each row is for
  binding,           \* reviewed_quest_spot_bindings
  shownQuests,       \* db.quests
  reviews,           \* updates of review() nobody waits for
  announced,         \* spot_posted activities
  post, make,        \* the requests under way or answered
  restarts

spotVars == <<row, place, kept, photo, questRow, binding, shownQuests, reviews,
              announced, post, make, restarts>>

NoRow == [by |-> Nobody, quest |-> NoQuest, status |-> "none"]
NoAsset == [by |-> Nobody, on |-> NoPlace]
IdlePost == [at |-> "idle", by |-> Nobody, photos |-> <<>>, quest |-> NoQuest, next |-> 1]
IdleMake == [at |-> "idle", place |-> NoPlace]

\* The hydrated store is the table's rows; nothing is under way.
SpotsInit ==
  /\ row = [s \in Places |-> NoRow] /\ place = row
  /\ kept = [a \in Photos |-> NoAsset] /\ photo = kept
  /\ questRow = [q \in PlaceQuests |-> NoPlace] /\ binding = questRow
  /\ shownQuests = {} /\ reviews = {} /\ announced = {}
  /\ post = [s \in Places |-> IdlePost]
  /\ make = [q \in PlaceQuests |-> IdleMake]
  /\ restarts = 0

-----------------------------------------------------------------------------
(* Photos: an upload answers with the asset's id once its row is written.  *)

Upload(a, u) ==
  /\ photo[a].by = Nobody
  /\ photo' = [photo EXCEPT ![a] = [by |-> u, on |-> NoPlace]]
  /\ kept' = [kept EXCEPT ![a] = [by |-> u, on |-> NoPlace]]
  /\ UNCHANGED <<row, place, questRow, binding, shownQuests, reviews, announced,
                 post, make, restarts>>

\* No deleted asset is ever in this process: the clean-up is a script of its
\* own.  An asset that is on another destination already is not refused.
\* Mutant for ShownIsStored: whoever knows the id may attach it.
MayAttach_Anybody(u, a) == photo[a].by # Nobody
MayAttach(u, a) == photo[a].by = u

-----------------------------------------------------------------------------
(* POST /spots                                                             *)

restOfPost == <<questRow, binding, shownQuests, reviews, make, restarts>>

Posting(s, at) == post' = [post EXCEPT ![s].at = at]

\* The assets, each named once, are checked before the destination is made; the
\* quest it may name, anybody's, is not.
BeginPost(s, u, list, q) ==
  /\ post[s].at = "idle"
  /\ \A i \in DOMAIN list : MayAttach(u, list[i])
  /\ post' = [post EXCEPT ![s] =
       [at |-> "persist", by |-> u, photos |-> list, quest |-> q, next |-> 1]]
  /\ UNCHANGED <<row, place, kept, photo, announced, restOfPost>>

\* The foreign key of spots.quest_id.
References(q) == q = NoQuest \/ questRow[q] # NoPlace

\* persistSpot: the second INSERT, for a table without areas, is tried when
\* the first fails; when that fails too the request does.
PersistSpot(s, stored) ==
  /\ post[s].at = "persist"
  /\ IF stored /\ References(post[s].quest)
       THEN /\ row' = [row EXCEPT ![s] =
                         [by |-> post[s].by, quest |-> post[s].quest, status |-> "published"]]
            /\ Posting(s, "show")
       ELSE Posting(s, "failed") /\ UNCHANGED row
  /\ UNCHANGED <<place, kept, photo, announced, restOfPost>>

ShowSpot(s) ==
  /\ post[s].at = "show"
  /\ place' = [place EXCEPT ![s] = row[s]]
  /\ Posting(s, IF post[s].photos = <<>> THEN "announce" ELSE "attach")
  /\ UNCHANGED <<row, kept, photo, announced, restOfPost>>

\* attachAssetsToSpot, one asset: checked again, changed in memory, then
\* written; the values of the UPDATE are those of the memory at this point.
AttachPhoto(s) ==
  LET a == post[s].photos[post[s].next] IN
  /\ post[s].at = "attach"
  /\ IF MayAttach(post[s].by, a)
       THEN photo' = [photo EXCEPT ![a].on = s] /\ Posting(s, "write")
       ELSE Posting(s, "failed") /\ UNCHANGED photo
  /\ UNCHANGED <<row, place, kept, announced, restOfPost>>

WritePhoto(s, stored) ==
  LET last == post[s].next = Len(post[s].photos) IN
  /\ post[s].at = "write"
  /\ IF stored
       THEN /\ kept' = [kept EXCEPT ![post[s].photos[post[s].next]].on = s]
            /\ post' = [post EXCEPT ![s].next = IF last THEN @ ELSE @ + 1,
                                    ![s].at = IF last THEN "announce" ELSE "attach"]
       ELSE Posting(s, "failed") /\ UNCHANGED kept
  /\ UNCHANGED <<row, place, photo, announced, restOfPost>>

\* A destination a reviewer has taken down meanwhile is not announced, and an
\* announcement that fails does not fail the request.
AnnounceSpot(s, recorded) ==
  /\ post[s].at = "announce"
  /\ announced' =
       IF place[s].status = "published" /\ recorded THEN announced \union {s} ELSE announced
  /\ Posting(s, "posted")
  /\ UNCHANGED <<row, place, kept, photo, restOfPost>>

-----------------------------------------------------------------------------
(* POST /spots/:id/quests: three statements, then the memory.              *)

restOfMake == <<kept, photo, reviews, announced, post, restarts>>

Making(q, at) == make' = [make EXCEPT ![q].at = at]

BeginQuest(q, u, s) ==
  /\ make[q].at = "idle"
  /\ place[s].by = u
  /\ make' = [make EXCEPT ![q] = [at |-> "row", place |-> s]]
  /\ UNCHANGED <<row, place, questRow, binding, shownQuests, restOfMake>>

InsertQuest(q) ==
  /\ make[q].at = "row"
  /\ questRow' = [questRow EXCEPT ![q] = make[q].place]
  /\ Making(q, "binding")
  /\ UNCHANGED <<row, place, binding, shownQuests, restOfMake>>

\* The destination's own pointer is written when the memory has none.
BindQuest(q) ==
  /\ make[q].at = "binding"
  /\ binding' = [binding EXCEPT ![q] = make[q].place]
  /\ Making(q, IF place[make[q].place].quest = NoQuest THEN "pointer" ELSE "memory")
  /\ UNCHANGED <<row, place, questRow, shownQuests, restOfMake>>

PointToQuest(q) ==
  /\ make[q].at = "pointer"
  /\ row' = [row EXCEPT ![make[q].place].quest = q]
  /\ Making(q, "memory")
  /\ UNCHANGED <<place, questRow, binding, shownQuests, restOfMake>>

\* One of the statements fails: what the earlier ones wrote stays.
QuestFails(q) ==
  /\ make[q].at \in {"row", "binding", "pointer"}
  /\ Making(q, "failed")
  /\ UNCHANGED <<row, place, questRow, binding, shownQuests, restOfMake>>

ShowQuest(q) ==
  /\ make[q].at = "memory"
  /\ shownQuests' = shownQuests \union {q}
  /\ place' = [place EXCEPT ![make[q].place].quest = IF @ = NoQuest THEN q ELSE @]
  /\ Making(q, "made")
  /\ UNCHANGED <<row, questRow, binding, restOfMake>>

-----------------------------------------------------------------------------
(* PATCH /admin/spots/:id: memory now, the table when the update arrives.  *)

restOfReview == <<kept, photo, questRow, binding, shownQuests, announced, post, make,
                  restarts>>

Review(s, status) ==
  /\ place[s].by # Nobody
  /\ place' = [place EXCEPT ![s].status = status]
  /\ reviews' = reviews \union {<<s, status>>}
  /\ UNCHANGED <<row, restOfReview>>

ReviewWritten(update, stored) ==
  /\ update \in reviews
  /\ reviews' = reviews \ {update}
  /\ row' = IF stored THEN [row EXCEPT ![update[1]].status = update[2]] ELSE row
  /\ UNCHANGED <<place, restOfReview>>

-----------------------------------------------------------------------------
(* hydrateFromPg after a stop: the requests under way are lost.            *)

Restart ==
  /\ restarts < MaxRestarts
  /\ restarts' = restarts + 1
  /\ place' = row /\ photo' = kept
  /\ shownQuests' = {q \in PlaceQuests : questRow[q] # NoPlace}
  /\ reviews' = {}
  /\ post' = [s \in Places |->
       IF post[s].at \in {"idle", "posted"} THEN post[s] ELSE [post[s] EXCEPT !.at = "failed"]]
  /\ make' = [q \in PlaceQuests |->
       IF make[q].at \in {"idle", "made"} THEN make[q] ELSE [make[q] EXCEPT !.at = "failed"]]
  /\ UNCHANGED <<row, kept, questRow, binding, announced>>

SpotStep ==
  \/ \E a \in Photos, u \in Authors : Upload(a, u)
  \/ \E s \in Places, u \in Authors :
       \E list \in {<<>>} \union {<<a>> : a \in Photos} \union
                   {l \in Photos \X Photos : l[1] # l[2]},
          q \in PlaceQuests \union {NoQuest} : BeginPost(s, u, list, q)
  \/ \E s \in Places, stored \in BOOLEAN :
       PersistSpot(s, stored) \/ WritePhoto(s, stored) \/ AnnounceSpot(s, stored)
  \/ \E s \in Places : ShowSpot(s) \/ AttachPhoto(s)
  \/ \E q \in PlaceQuests, u \in Authors, s \in Places : BeginQuest(q, u, s)
  \/ \E q \in PlaceQuests :
       InsertQuest(q) \/ BindQuest(q) \/ PointToQuest(q) \/ QuestFails(q) \/ ShowQuest(q)
  \/ \E s \in Places, status \in {"published", "unpublished"} : Review(s, status)
  \/ \E update \in reviews, stored \in BOOLEAN : ReviewWritten(update, stored)
  \/ Restart

SpotSpec == SpotsInit /\ [][SpotStep]_spotVars

-----------------------------------------------------------------------------
(* Properties *)

SpotTypeOK ==
  LET rows == [Places -> [by : Authors \union {Nobody}, quest : PlaceQuests \union {NoQuest},
                          status : {"none", "published", "unpublished"}]]
      assets == [Photos -> [by : Authors \union {Nobody}, on : Places \union {NoPlace}]]
  IN
  /\ row \in rows /\ place \in rows
  /\ kept \in assets /\ photo \in assets
  /\ questRow \in [PlaceQuests -> Places \union {NoPlace}]
  /\ binding \in [PlaceQuests -> Places \union {NoPlace}]
  /\ shownQuests \subseteq PlaceQuests
  /\ reviews \subseteq Places \X {"published", "unpublished"}
  /\ announced \subseteq Places
  /\ \A s \in Places :
       /\ post[s].by \in Authors \union {Nobody} /\ post[s].next \in 1..2
       /\ post[s].quest \in PlaceQuests \union {NoQuest}
  /\ \A q \in PlaceQuests : make[q].place \in Places \union {NoPlace}
  /\ restarts \in 0..MaxRestarts

\* What travelers are shown survives a restart, wherever a request was cut
\* short: a destination is in the table before it is in the memory or
\* announced; a photo, in the memory or the table, is only ever on a stored
\* destination of the traveler who uploaded it; the quest a destination
\* points to, in either, has its row, and unless its post named that quest the
\* row and the binding are for that destination (a post may name the quest of
\* another, which gets no binding); and an answered post has every photo it
\* named written on a destination of its author's (a later post of theirs may
\* have taken it over).
ShownIsStored ==
  /\ \A s \in Places : place[s].by # Nobody \/ s \in announced => row[s].by = post[s].by
  /\ \A asset \in {photo, kept} : \A a \in Photos :
       asset[a].on # NoPlace => row[asset[a].on].by = asset[a].by
  /\ \A holder \in {row, place} : \A s \in Places :
       /\ References(holder[s].quest)
       /\ holder[s].quest \notin {NoQuest, post[s].quest} =>
            questRow[holder[s].quest] = s /\ binding[holder[s].quest] = s
  /\ \A s \in Places : post[s].at = "posted" =>
       /\ row[s].by = post[s].by
       /\ \A i \in DOMAIN post[s].photos :
            /\ kept[post[s].photos[i]].on # NoPlace
            /\ kept[post[s].photos[i]].by = post[s].by

=============================================================================
