------------------------------ MODULE RateLimits ------------------------------
(***************************************************************************)
(* The counters of one rate limit policy (middleware/rateLimit.ts): a map  *)
(* from keys to fixed windows, in the order the keys were inserted, of a   *)
(* limited size.  A request may be counted twice, by its address and by    *)
(* its actor, in the same map; the requests of a process run one by one.   *)
(***************************************************************************)
EXTENDS Integers, FiniteSets, FiniteSetsExt, SequencesExt

CONSTANTS
  Addresses, Actors, \* what requests are counted by
  NoActor,           \* a request without a session
  WindowTicks,       \* windowMs
  MaxCalls,          \* max
  CoarseMax,         \* coarseIpMax, 0 without the guard
  MaxEntries,        \* maxEntries
  LastMoment         \* bound: ticks

ASSUME WindowsAreLong ==
  /\ WindowTicks \in Nat \ {0} /\ MaxEntries \in Nat \ {0}
  /\ MaxCalls \in Nat /\ CoarseMax \in Nat /\ LastMoment \in Nat

VARIABLES
  counters,          \* the policy's Map, in insertion order
  moment,            \* Date.now()
  shutUntil          \* history: until when each key was told to wait

limitVars == <<counters, moment, shutUntil>>

\* Keys: the coarse guard's, and the one of the strategy actor_or_ip.
CoarseKey(address) == <<"ip_coarse", address>>
PrimaryKey(actor, address) == IF actor = NoActor THEN <<"ip", address>> ELSE <<"actor", actor>>

LimitKeys ==
  ({"ip", "ip_coarse"} \X Addresses) \cup ({"actor"} \X (Actors \ {NoActor}))

Lapsed(entry) == entry.resetAt <= moment

\* The entries that have not lapsed, in their order: each at its rank.
LivePlaces(store) == {i \in DOMAIN store : ~Lapsed(store[i])}
RankIn(i, places) == Cardinality({j \in places : j <= i})
Live(store) ==
  [n \in 1..Cardinality(LivePlaces(store)) |->
     store[CHOOSE i \in LivePlaces(store) : RankIn(i, LivePlaces(store)) = n]]

Has(store, key) == \E i \in DOMAIN store : store[i].key = key
PlaceOf(store, key) == CHOOSE i \in DOMAIN store : store[i].key = key

\* Entries that may make room.
Evictable(store) == {i \in DOMAIN store : ~store[i].blocked}

\* ensureStoreCapacity: the map with room for a key, as a singleton, or none.
WithRoom(store) ==
  LET live == Live(store) IN
  IF Len(store) < MaxEntries THEN {store}
  ELSE IF Len(live) < MaxEntries THEN {live}
  ELSE IF Evictable(live) # {} THEN {RemoveAt(live, Min(Evictable(live)))}
  ELSE {}

Fresh(key) == [key |-> key, count |-> 1, resetAt |-> moment + WindowTicks, blocked |-> FALSE]

\* A count is looked at up to here: it is kept no higher.
CountBound == Max({MaxCalls, CoarseMax}) + 1

\* A lapsed entry is renewed in its place.
CountedOnce(entry, key) ==
  IF Lapsed(entry) THEN Fresh(key)
  ELSE [entry EXCEPT !.count = Min({entry.count + 1, CountBound})]

\* The maps with this request counted for the key.
Counted(store, key) ==
  IF ~Has(store, key) THEN {Append(room, Fresh(key)) : room \in WithRoom(store)}
  ELSE LET i == PlaceOf(store, key) IN
       {[store EXCEPT ![i] = CountedOnce(store[i], key)]}

Exceeds(store, key, limit) == store[PlaceOf(store, key)].count > limit

\* The 429 with a Retry-After.
Shut(store, key) ==
  LET i == PlaceOf(store, key) IN
  /\ counters' = [store EXCEPT ![i].blocked = TRUE]
  /\ shutUntil' = [shutUntil EXCEPT ![key] = store[i].resetAt]

\* What is counted for the actor, once the guard has let the request by.
CountCall(store, key) ==
  \/ /\ Counted(store, key) = {}
     /\ counters' = store /\ UNCHANGED shutUntil
  \/ \E counted \in Counted(store, key) :
       IF Exceeds(counted, key, MaxCalls) THEN Shut(counted, key)
       ELSE counters' = counted /\ UNCHANGED shutUntil

\* One request through the middleware.
LimitedCall(actor, address) ==
  LET guard == CoarseKey(address)
      key == PrimaryKey(actor, address)
  IN
  /\ UNCHANGED moment
  /\ IF CoarseMax = 0 THEN CountCall(counters, key)
     ELSE \/ Counted(counters, guard) = {} /\ UNCHANGED <<counters, shutUntil>>
          \/ \E counted \in Counted(counters, guard) :
               IF Exceeds(counted, guard, CoarseMax) THEN Shut(counted, guard)
               ELSE CountCall(counted, key)

\* pruneAllExpired, every minute.
PruneCounters ==
  /\ Live(counters) # counters
  /\ counters' = Live(counters)
  /\ UNCHANGED <<moment, shutUntil>>

MomentPasses ==
  /\ moment < LastMoment
  /\ moment' = moment + 1
  /\ UNCHANGED <<counters, shutUntil>>

LimitInit ==
  /\ counters = <<>>
  /\ moment = 0
  /\ shutUntil = [key \in LimitKeys |-> 0]

LimitNext ==
  \/ \E actor \in Actors \cup {NoActor}, address \in Addresses : LimitedCall(actor, address)
  \/ PruneCounters
  \/ MomentPasses

LimitSpec == LimitInit /\ [][LimitNext]_limitVars

-----------------------------------------------------------------------------

CounterEntry == [key : LimitKeys, count : 1..CountBound, resetAt : Nat, blocked : BOOLEAN]

LimitTypeOK ==
  /\ counters \in Seq(CounterEntry)
  /\ moment \in 0..LastMoment
  /\ shutUntil \in [LimitKeys -> Nat]

\* However many keys compete for the room: no key has two windows, the map
\* keeps its size, and a key that was told to wait is refused until then, for
\* its entry makes room for nobody.
LimitsHold ==
  /\ \A i, j \in DOMAIN counters : counters[i].key = counters[j].key => i = j
  /\ Len(counters) <= MaxEntries
  /\ \A key \in LimitKeys : shutUntil[key] > moment =>
       \E i \in DOMAIN counters :
         /\ counters[i].key = key /\ counters[i].blocked
         /\ counters[i].resetAt = shutUntil[key]
         /\ counters[i].count > (IF key[1] = "ip_coarse" THEN CoarseMax ELSE MaxCalls)
=============================================================================
