------------------------------- MODULE Follows -------------------------------
(***************************************************************************)
(* Who follows whom (repositories/users.ts, routes/users.ts, the user and  *)
(* follow functions of db/index.ts).  Travelers show or hide their profile *)
(* and follow one another while a reader walks, page by page, through one  *)
(* of the lists of one profile.  The server answers some questions from    *)
(* the copy of the users it keeps in memory.                               *)
(***************************************************************************)
EXTENDS Naturals, Sequences, FiniteSets

CONSTANTS Travelers,
          Rank,          \* the order of their ids
          Simulated,     \* users.is_test
          Profile,       \* whose lists are read
          FollowAsks,    \* requests to follow
          Edits,         \* requests that write a user into memory
          PageLimit,     \* bound: the page size asked for, at most 50
          NoTraveler,
          MaxInstant     \* bound: the clock, in half milliseconds

ASSUME FollowsAssumption ==
  /\ Profile \in Travelers /\ Simulated \subseteq Travelers
  /\ NoTraveler \notin Travelers
  /\ Rank \in [Travelers -> Nat] /\ \A u, v \in Travelers : Rank[u] = Rank[v] => u = v
  /\ PageLimit \in Nat \ {0} /\ MaxInstant \in Nat \ {0}

VARIABLES public,    \* users.is_public
          mirror,    \* the same in memory
          edges,     \* user_follows
          instant,   \* the clock of the database
          ask,       \* by request to follow
          edit,      \* by request: a row read or written, not yet in memory
          notices,   \* user_notifications of kind follow
          walk,      \* the reader
          watch      \* what the reader may expect (no part of the code)

followVars == <<public, mirror, edges, instant, ask, edit, notices, walk, watch>>

Followed == [from : Travelers, to : Travelers, at : 0..MaxInstant]
NoAsk == [at |-> "idle", from |-> NoTraveler, to |-> NoTraveler, began |-> 0]
NoEdit == [of |-> NoTraveler, row |-> FALSE]
NoCursor == [at |-> 0, last |-> NoTraveler]
NoWalk == [list |-> "none", at |-> "idle", shown |-> <<>>, cursor |-> NoCursor, counted |-> 0]

-----------------------------------------------------------------------------
(* Lists *)

\* A profile that others may see.
Shown(u) == public[u] /\ u \notin Simulated

Followers(u) == {e \in edges : e.to = u /\ Shown(e.from)}
Following(u) == {e \in edges : e.from = u /\ Shown(e.to)}

\* One's own list keeps hidden profiles, as unavailable travelers.
MyFollowing(u) == {e \in edges : e.from = u}

FollowCounts(u, ownerView) ==
  IF ownerView \/ Shown(u)
  THEN [followers |-> Cardinality(Followers(u)), following |-> Cardinality(Following(u))]
  ELSE [followers |-> 0, following |-> 0]

Incoming(list) == list \in {"followers", "myFollowers"}

ListRows(list) == CASE Incoming(list) -> Followers(Profile)
                [] list = "following" -> Following(Profile)
                [] list = "myFollowing" -> MyFollowing(Profile)
                [] OTHER -> {}

\* The other end of an edge: the column that breaks ties.
Other(list, e) == IF Incoming(list) THEN e.from ELSE e.to

\* A cursor keeps milliseconds, the table microseconds.
Millisecond(t) == t - (t % 2)

Beyond(list, e, c) ==
  \/ c = NoCursor
  \/ e.at < c.at
  \/ e.at = c.at /\ Rank[Other(list, e)] < Rank[c.last]

Newer(list, a, b) ==
  \/ a.at > b.at
  \/ a.at = b.at /\ Rank[Other(list, a)] > Rank[Other(list, b)]

\* Newest first, then by id: a row comes after the newer ones.
NewestFirst(list, rows) ==
  [i \in 1..Cardinality(rows) |->
     CHOOSE e \in rows : Cardinality({f \in rows : Newer(list, f, e)}) = i - 1]

-----------------------------------------------------------------------------
(* The reader *)

\* The profile page shows how many there are.
ShowProfile(list) ==
  /\ walk.at = "idle"
  /\ list \in {"followers", "following"} => Shown(Profile)
  /\ LET owner == list \in {"myFollowers", "myFollowing"}
         counts == FollowCounts(Profile, owner)
     IN walk' = [NoWalk EXCEPT !.list = list, !.at = "more",
                   !.counted = IF Incoming(list) THEN counts.followers ELSE counts.following]
  /\ UNCHANGED <<public, mirror, edges, instant, ask, edit, notices>>

\* One row more than the page tells whether there is another.
TurnPage(list) ==
  LET rows == NewestFirst(list, {e \in ListRows(list) : Beyond(list, e, walk.cursor)})
      more == Len(rows) > PageLimit
      page == IF more THEN SubSeq(rows, 1, PageLimit) ELSE rows
  IN walk' = [walk EXCEPT
       !.shown = @ \o page,
       !.at = IF more THEN "more" ELSE "done",
       !.cursor = IF more THEN [at |-> Millisecond(page[PageLimit].at),
                                last |-> Other(list, page[PageLimit])]
                  ELSE @]

\* A page of a list that is not there any more ends the walk.
Refused == walk' = [walk EXCEPT !.at = "refused"]

Reading(list) ==
  /\ walk.list = list /\ walk.at = "more"
  /\ UNCHANGED <<public, mirror, edges, instant, ask, edit, notices>>

FollowersPage ==
  /\ Reading("followers")
  /\ IF Shown(Profile) THEN TurnPage("followers") ELSE Refused

FollowingPage ==
  /\ Reading("following")
  /\ IF Shown(Profile) THEN TurnPage("following") ELSE Refused

\* An owner reads the followers of a hidden profile, but not of a simulated one.
MyFollowersPage ==
  /\ Reading("myFollowers")
  /\ IF Profile \in Simulated THEN Refused ELSE TurnPage("myFollowers")

MyFollowingPage == Reading("myFollowing") /\ TurnPage("myFollowing")

-----------------------------------------------------------------------------
(* Following *)

\* The route decides from memory, then a transaction begins: NOW() is this instant.
AskFollow(a, u, v) ==
  /\ ask[a] = NoAsk
  /\ u # v
  /\ mirror[u] /\ mirror[v]
  /\ (u \in Simulated) = (v \in Simulated)
  /\ ask' = [ask EXCEPT ![a] = [at |-> "begun", from |-> u, to |-> v, began |-> instant]]
  /\ UNCHANGED <<public, mirror, edges, instant, edit, notices, walk>>

\* The transaction locks both users and reads them again.
\* Mutant for FollowsHold: the memory's word is taken for it.
BothPublic_InMemory(u, v) == mirror[u] /\ mirror[v]
BothPublic(u, v) == public[u] /\ public[v]

Follows(u, v) == \E e \in edges : e.from = u /\ e.to = v

SaveFollow(a) ==
  LET u == ask[a].from
      v == ask[a].to
      created == BothPublic(u, v) /\ ~Follows(u, v)
  IN /\ ask[a].at = "begun"
     /\ edges' = IF created THEN edges \cup {[from |-> u, to |-> v, at |-> ask[a].began]}
                 ELSE edges
     /\ ask' = [ask EXCEPT ![a] = IF created THEN [@ EXCEPT !.at = "saved"] ELSE NoAsk]
     /\ UNCHANGED <<public, mirror, instant, edit, notices, walk>>

\* Once for a pair, however often it is followed again; an error is only logged.
NotifyFollow(a) ==
  /\ ask[a].at = "saved"
  /\ ask' = [ask EXCEPT ![a] = NoAsk]
  /\ \/ notices' = notices \cup {<<ask[a].to, ask[a].from>>}
     \/ UNCHANGED notices
  /\ UNCHANGED <<public, mirror, edges, instant, edit, walk>>

Unfollow(u, v) ==
  /\ Follows(u, v)
  /\ edges' = {e \in edges : ~(e.from = u /\ e.to = v)}
  /\ UNCHANGED <<public, mirror, instant, ask, edit, notices, walk>>

-----------------------------------------------------------------------------
(* Profiles and their copy in memory *)

\* The row is updated under its lock and put into memory after the commit.
UpdateProfile(r, u, visible) ==
  /\ edit[r] = NoEdit
  /\ public' = [public EXCEPT ![u] = visible]
  /\ edit' = [edit EXCEPT ![r] = [of |-> u, row |-> visible]]
  /\ UNCHANGED <<mirror, edges, instant, ask, notices, walk>>

FindUserByIdDurable(r, u) ==
  /\ edit[r] = NoEdit
  /\ edit' = [edit EXCEPT ![r] = [of |-> u, row |-> public[u]]]
  /\ UNCHANGED <<public, mirror, edges, instant, ask, notices, walk>>

PutInMemory(r) ==
  /\ edit[r] # NoEdit
  /\ mirror' = [mirror EXCEPT ![edit[r].of] = edit[r].row]
  /\ edit' = [edit EXCEPT ![r] = NoEdit]
  /\ UNCHANGED <<public, edges, instant, ask, notices, walk>>

\* A restart drops the requests and reads the users again.
ReloadUsers ==
  /\ mirror' = public
  /\ ask' = [a \in FollowAsks |-> NoAsk]
  /\ edit' = [r \in Edits |-> NoEdit]
  /\ UNCHANGED <<public, edges, instant, notices, walk>>

InstantPasses ==
  /\ instant < MaxInstant
  /\ instant' = instant + 1
  /\ UNCHANGED <<public, mirror, edges, ask, edit, notices, walk>>

-----------------------------------------------------------------------------

\* The rows that have their millisecond to themselves.
Alone(rows) == {e \in rows : \A f \in rows \ {e} : Millisecond(e.at) # Millisecond(f.at)}

\* Since the profile was shown: the rows that were always there, alone in their
\* millisecond, and whether nothing changed.
Watch == watch' =
  IF walk.at = "idle" THEN [always |-> Alone(ListRows(walk'.list)), still |-> TRUE]
  ELSE [always |-> watch.always \cap Alone(ListRows(walk.list))',
        still |-> watch.still /\ ListRows(walk.list)' = ListRows(walk.list)]

FollowsInit ==
  /\ public = [u \in Travelers |-> TRUE] /\ mirror = public
  /\ edges = {} /\ instant = 0
  /\ ask = [a \in FollowAsks |-> NoAsk] /\ edit = [r \in Edits |-> NoEdit]
  /\ notices = {} /\ walk = NoWalk /\ watch = [always |-> {}, still |-> TRUE]

Follow ==
  \/ \E a \in FollowAsks : SaveFollow(a) \/ NotifyFollow(a)
  \/ \E a \in FollowAsks, u, v \in Travelers : AskFollow(a, u, v)
  \/ \E u, v \in Travelers : Unfollow(u, v)

EditProfile ==
  \/ \E r \in Edits, u \in Travelers :
        \/ \E visible \in BOOLEAN : UpdateProfile(r, u, visible)
        \/ FindUserByIdDurable(r, u)
  \/ \E r \in Edits : PutInMemory(r)
  \/ ReloadUsers

ReadLists ==
  \/ \E list \in {"followers", "following", "myFollowers", "myFollowing"} : ShowProfile(list)
  \/ FollowersPage \/ FollowingPage \/ MyFollowersPage \/ MyFollowingPage

FollowsStep == (Follow \/ EditProfile \/ ReadLists \/ InstantPasses) /\ Watch

FollowsSpec == FollowsInit /\ [][FollowsStep]_followVars

-----------------------------------------------------------------------------

FollowsTypeOK ==
  /\ public \in [Travelers -> BOOLEAN] /\ mirror \in [Travelers -> BOOLEAN]
  /\ edges \subseteq Followed /\ instant \in 0..MaxInstant
  /\ \A e, f \in edges : e.from = f.from /\ e.to = f.to => e = f
  /\ \A a \in FollowAsks : ask[a].at \in {"idle", "begun", "saved"}
  /\ \A r \in Edits : edit[r] = NoEdit \/ edit[r].of \in Travelers
  /\ notices \subseteq Travelers \X Travelers
  /\ walk.at \in {"idle", "more", "done", "refused"} /\ watch.always \subseteq Followed

\* A walk never shows a follow twice, nor out of order.
WalksForward ==
  \A i, j \in 1..Len(walk.shown) : i < j =>
    Newer(walk.list, walk.shown[i], walk.shown[j])

\* A walk that reaches the end has shown whoever was there from its beginning, hidden
\* at no moment and alone in a millisecond; and as many as the profile counted when
\* nothing changed and nobody shares one.
WalkIsComplete ==
  walk.at = "done" =>
    /\ watch.always \subseteq {walk.shown[i] : i \in 1..Len(walk.shown)}
    /\ watch.still /\ walk.list # "myFollowing" /\ Alone(ListRows(walk.list)) = ListRows(walk.list)
         => Len(walk.shown) = walk.counted

\* A follow begins only while both profiles are public and neither or both simulated,
\* whatever the memory says of them.
FollowsArePublic ==
  \A e \in edges' \ edges :
    /\ public[e.from] /\ public[e.to]
    /\ (e.from \in Simulated) = (e.to \in Simulated)

\* Following works from memory that lags behind, while readers walk through lists that
\* change: a follow needs two public profiles at its own instant, and a walk shows in
\* order, once, and completely what stood still.
FollowsHold == []WalksForward /\ []WalkIsComplete /\ [][FollowsArePublic]_followVars
=============================================================================
