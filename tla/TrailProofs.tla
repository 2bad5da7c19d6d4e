----------------------------- MODULE TrailProofs -----------------------------
(***************************************************************************)
(* Proofs about what stands before a request, and about trails, for any    *)
(* number of processes, callers, keys, travelers and requests.             *)
(*                                                                         *)
(* Sessions: a revoked session ends.  The history variable ended says when *)
(* each epoch was over; a scope that is trusted was read at most a lookup  *)
(* before that.                                                            *)
(*                                                                         *)
(* RateLimits: no key has two windows and a key that was told to wait is   *)
(* refused.  The lemmas follow the map through its sweep, the room it      *)
(* makes and the count.                                                    *)
(*                                                                         *)
(* TrailTrends: a week is worked off once.  The invariant says which       *)
(* candidates the one tick under way has passed.                           *)
(*                                                                         *)
(* Trails: the rows explain every point, and a quota gives no more than it *)
(* promises; sums over trails change as SumLemmas say.                     *)
(*                                                                         *)
(* Follows: a list that is walked to its end had everyone who followed all *)
(* the while.  The invariant says who is still to come: those behind the   *)
(* cursor.                                                                 *)
(*                                                                         *)
(* TrailSolver: a prefix of a route is within the limits, so that where    *)
(* there is a route there is a seed; growing, moving and relaxing keep it. *)
(*                                                                         *)
(* Last, the types: of sessions, trails and the batch, and of all together. *)
(***************************************************************************)
EXTENDS TravelersProofs, SequenceTheorems

-----------------------------------------------------------------------------
(* Sessions: a revocation and what was read before it *)

Scopes == [epoch : Int, until : Nat]
Flights == [callers : SUBSET Calls, since : Nat, read : Int]

SessionClock ==
  /\ epoch \in Epochs /\ tick \in Nat /\ ended \in [Epochs -> Nat]
  /\ scope \in [Processes -> Scopes] /\ flight \in [Processes -> Flights]
  /\ queue \in [Processes -> SUBSET Calls]
  /\ served \in [epoch : Int, at : Nat]

\* Of an epoch that is over, until when something may have happened at most;
\* of the present one, until when it has.
Within(e, t, past, present) == e \in 0..epoch /\ (IF e = epoch THEN t <= present ELSE t <= ended[e] + past)

\* A batch under way is young, and what it read was so after it began.
BatchYoung(p) ==
  /\ flight[p].callers # {} => flight[p].since <= tick /\ tick <= flight[p].since + LookupTicks
  /\ flight[p].read # Unread =>
       flight[p].callers # {} /\ Within(flight[p].read, flight[p].since, 0, tick)

SessionInv ==
  /\ SessionClock
  /\ \A p \in Processes : BatchYoung(p)
  /\ \A p \in Processes : scope[p].until > 0 =>
       Within(scope[p].epoch, scope[p].until, LookupTicks + Ttl, tick + Ttl)
  /\ Within(served.epoch, served.at + 1, LookupTicks + Ttl, tick + 1)

LEMMA TicksCount == LookupTicks \in Nat /\ Ttl \in Nat /\ MaxEpoch \in Nat /\ LookupTicks > 0 /\ Ttl > 0
  BY SessionsAssumption

LEMMA SessionInvInit ==
  ASSUME SessionInit
  PROVE  SessionInv
  <1>1. PICK nothing, landed : nothing = Nothing /\ landed = Landed
    OBVIOUS
  <1>2. /\ nothing \in Scopes /\ nothing.until = 0 /\ landed \in Flights
        /\ landed.callers = {} /\ landed.read = Unread
    BY <1>1 DEF Nothing, Landed, Scopes, Flights, Unread
  <1>3. /\ epoch = 0 /\ tick = 0 /\ ended = [e \in Epochs |-> 0]
        /\ scope = [p \in Processes |-> nothing] /\ queue = [p \in Processes |-> {}]
        /\ flight = [p \in Processes |-> landed] /\ served = [epoch |-> 0, at |-> 0]
    BY <1>1 DEF SessionInit
  <1>4. SessionClock
    BY <1>2, <1>3, TicksCount DEF SessionClock, Epochs
  <1>5. \A p \in Processes : BatchYoung(p)
    BY <1>2, <1>3 DEF BatchYoung
  <1>6. Within(served.epoch, served.at + 1, LookupTicks + Ttl, tick + 1)
    BY <1>3 DEF Within
  <1>. QED  BY <1>2, <1>3, <1>4, <1>5, <1>6 DEF SessionInv

\* A step that leaves the account's epoch and the clock alone.
SameTime == UNCHANGED <<epoch, ended, tick>>

LEMMA WithinStays ==
  ASSUME SameTime, NEW e, NEW t, NEW past, NEW present, Within(e, t, past, present)
  PROVE  Within(e, t, past, present)'
  BY DEF SameTime, Within

LEMMA AuthenticateSteps ==
  ASSUME SessionInv, NEW k \in Calls, NEW p \in Processes, NEW op, NEW token,
         Authenticate(k, p, op, token)
  PROVE  SessionInv'
  <1>1. UNCHANGED <<epoch, scope, flight, tick, ended>>
    BY DEF Authenticate
  <1>2. CASE Cached(p)
    <2>1. UNCHANGED queue /\ Serve({token}, scope[p].epoch)
      BY <1>2 DEF Authenticate
    <2>2. PICK now : now = [epoch |-> scope[p].epoch, at |-> tick]
      OBVIOUS
    <2>3. served' = served \/ served' = now
      BY <2>1, <2>2 DEF Serve
    <2>4. now \in [epoch : Int, at : Nat] /\ now.epoch = scope[p].epoch /\ now.at = tick
      BY <2>2 DEF SessionInv, SessionClock, Scopes
    <2>5. tick < scope[p].until /\ scope[p].until \in Nat /\ tick \in Nat
      BY <1>2 DEF Cached, SessionInv, SessionClock, Scopes
    <2>6. Within(now.epoch, now.at + 1, LookupTicks + Ttl, tick + 1)
      <3>1. Within(scope[p].epoch, scope[p].until, LookupTicks + Ttl, tick + Ttl)
        BY <2>5 DEF SessionInv
      <3>2. \A e \in Epochs : ended[e] \in Nat
        BY DEF SessionInv, SessionClock
      <3>3. epoch \in Nat /\ 0..epoch \subseteq Epochs
        BY TicksCount DEF SessionInv, SessionClock, Epochs
      <3>. QED  BY <2>4, <2>5, <3>1, <3>2, <3>3, TicksCount DEF Within
    <2>7. SessionClock'
      BY <1>1, <2>1, <2>3, <2>4 DEF SessionInv, SessionClock
    <2>8. Within(served.epoch, served.at + 1, LookupTicks + Ttl, tick + 1)'
      BY <1>1, <2>3, <2>6 DEF SessionInv, Within
    <2>. QED  BY <1>1, <2>7, <2>8 DEF SessionInv, BatchYoung, Within
  <1>3. CASE ~Cached(p)
    <2>1. UNCHANGED served /\ queue' = [queue EXCEPT ![p] = @ \cup {k}]
      BY <1>3 DEF Authenticate
    <2>2. SessionClock'
      BY <1>1, <2>1 DEF SessionInv, SessionClock
    <2>. QED  BY <1>1, <2>1, <2>2 DEF SessionInv, BatchYoung, Within
  <1>. QED  BY <1>2, <1>3

LEMMA ExecuteBatchSteps ==
  ASSUME SessionInv, NEW p \in Processes, ExecuteBatch(p)
  PROVE  SessionInv'
  <1>1. UNCHANGED <<epoch, scope, tick, ended, served>>
    BY DEF ExecuteBatch
  <1>2. PICK new : new = [callers |-> queue[p], since |-> tick, read |-> Unread]
    OBVIOUS
  <1>3. new \in Flights /\ new.since = tick /\ new.read = Unread
    BY <1>2 DEF SessionInv, SessionClock, Flights, Unread
  <1>4. flight' = [flight EXCEPT ![p] = new] /\ queue' = [queue EXCEPT ![p] = {}]
    BY <1>2 DEF ExecuteBatch
  <1>5. SessionClock'
    BY <1>1, <1>3, <1>4 DEF SessionInv, SessionClock
  <1>6. ASSUME NEW q \in Processes  PROVE BatchYoung(q)'
    <2>1. CASE q = p
      <3>1. flight'[q] = new
        BY <1>4, <2>1 DEF SessionInv, SessionClock
      <3>. QED  BY <1>1, <1>3, <3>1, TicksCount DEF BatchYoung, SessionInv, SessionClock
    <2>2. CASE q # p
      <3>1. flight'[q] = flight[q]
        BY <1>4, <2>2 DEF SessionInv, SessionClock
      <3>. QED  BY <1>1, <3>1 DEF SessionInv, BatchYoung, Within
    <2>. QED  BY <2>1, <2>2
  <1>. QED  BY <1>1, <1>5, <1>6 DEF SessionInv, Within

LEMMA FindScopesSteps ==
  ASSUME SessionInv, NEW p \in Processes, FindSessionScopes(p)
  PROVE  SessionInv'
  <1>1. flight[p].callers # {} /\ UNCHANGED <<epoch, scope, queue, tick, ended, served>>
    BY DEF FindSessionScopes
  <1>2. epoch \in Nat
    BY TicksCount DEF SessionInv, SessionClock, Epochs
  <1>3. /\ flight' \in [Processes -> Flights] /\ \A q \in Processes \ {p} : flight'[q] = flight[q]
        /\ flight'[p].callers = flight[p].callers /\ flight'[p].since = flight[p].since
        /\ flight'[p].read = epoch
    BY <1>2 DEF FindSessionScopes, SessionInv, SessionClock, Flights
  <1>4. SessionClock'
    BY <1>1, <1>3 DEF SessionInv, SessionClock
  <1>5. ASSUME NEW q \in Processes  PROVE BatchYoung(q)'
    <2>1. CASE q = p
      BY <1>1, <1>2, <1>3, <2>1 DEF SessionInv, BatchYoung, Within
    <2>2. CASE q # p
      <3>1. flight'[q] = flight[q]
        BY <1>3, <2>2
      <3>. QED  BY <1>1, <3>1 DEF SessionInv, BatchYoung, Within
    <2>. QED  BY <2>1, <2>2
  <1>. QED  BY <1>1, <1>4, <1>5 DEF SessionInv, Within

\* A batch that ended leaves no one waiting for it.
LEMMA LandedYoung ==
  ASSUME NEW p \in Processes, flight'[p] = Landed
  PROVE  BatchYoung(p)'
  BY DEF Landed, BatchYoung

LEMMA ResolveBatchSteps ==
  ASSUME SessionInv, NEW p \in Processes, ResolveBatch(p)
  PROVE  SessionInv'
  <1>1. UNCHANGED <<epoch, queue, tick, ended>>
    BY DEF ResolveBatch
  <1>2. PICK seen, since : seen = flight[p].read /\ since = flight[p].since
    OBVIOUS
  <1>3. /\ since \in Nat /\ tick \in Nat /\ tick <= since + LookupTicks
        /\ seen \in 0..epoch /\ (seen # epoch => since <= ended[seen]) /\ since <= tick
    <2>1. flight[p].read # Unread /\ BatchYoung(p) /\ flight[p] \in Flights
      BY DEF ResolveBatch, SessionInv, SessionClock
    <2>2. \A e \in Epochs : ended[e] \in Nat
      BY DEF SessionInv, SessionClock
    <2>3. epoch \in Nat /\ 0..epoch \subseteq Epochs /\ tick \in Nat
      BY TicksCount DEF SessionInv, SessionClock, Epochs
    <2>. QED  BY <1>2, <2>1, <2>2, <2>3 DEF BatchYoung, Within, Flights
  <1>4. seen \in Epochs /\ ended[seen] \in Nat /\ epoch \in Nat /\ seen \in Int
    BY <1>3, TicksCount DEF SessionInv, SessionClock, Epochs
  <1>5. PICK entry, now : /\ entry = [epoch |-> seen, until |-> tick + Ttl]
                          /\ now = [epoch |-> seen, at |-> tick]
    OBVIOUS
  <1>6. /\ entry \in Scopes /\ entry.epoch = seen /\ entry.until = tick + Ttl
        /\ now \in [epoch : Int, at : Nat] /\ now.epoch = seen /\ now.at = tick
    <2>1. tick + Ttl \in Nat
      BY <1>3, TicksCount
    <2>. QED  BY <1>3, <1>4, <1>5, <2>1 DEF Scopes
  <1>7. scope' = [scope EXCEPT ![p] = entry]
    BY <1>2, <1>5 DEF ResolveBatch
  <1>8. served' = served \/ served' = now
    BY <1>2, <1>5 DEF ResolveBatch, Serve
  <1>9. flight' = [flight EXCEPT ![p] = Landed]
    BY DEF ResolveBatch
  <1>10. Landed \in Flights
    BY DEF Landed, Flights, Unread
  <1>11. SessionClock'
    BY <1>1, <1>6, <1>7, <1>8, <1>9, <1>10 DEF SessionInv, SessionClock
  <1>12. ASSUME NEW q \in Processes  PROVE BatchYoung(q)'
    <2>1. CASE q = p
      <3>1. flight'[q] = Landed
        BY <1>9, <2>1 DEF SessionInv, SessionClock
      <3>. QED  BY <3>1, LandedYoung
    <2>2. CASE q # p
      <3>1. flight'[q] = flight[q]
        BY <1>9, <2>2 DEF SessionInv, SessionClock
      <3>. QED  BY <1>1, <3>1 DEF SessionInv, BatchYoung, Within
    <2>. QED  BY <2>1, <2>2
  <1>13. Within(entry.epoch, entry.until, LookupTicks + Ttl, tick + Ttl)
    BY <1>3, <1>4, <1>6, TicksCount DEF Within
  <1>14. Within(now.epoch, now.at + 1, LookupTicks + Ttl, tick + 1)
    BY <1>3, <1>4, <1>6, TicksCount DEF Within
  <1>15. ASSUME NEW q \in Processes, scope'[q].until > 0
         PROVE  Within(scope[q].epoch, scope[q].until, LookupTicks + Ttl, tick + Ttl)'
    <2>1. CASE q = p
      <3>1. scope'[q] = entry
        BY <1>7, <2>1 DEF SessionInv, SessionClock
      <3>. QED  BY <1>1, <1>13, <3>1 DEF Within
    <2>2. CASE q # p
      <3>1. scope'[q] = scope[q]
        BY <1>7, <2>2 DEF SessionInv, SessionClock
      <3>. QED  BY <1>1, <1>15, <3>1 DEF SessionInv, Within
    <2>. QED  BY <2>1, <2>2
  <1>16. Within(served.epoch, served.at + 1, LookupTicks + Ttl, tick + 1)'
    BY <1>1, <1>8, <1>14 DEF SessionInv, Within
  <1>. QED  BY <1>11, <1>12, <1>15, <1>16 DEF SessionInv

\* The caches of a process are emptied, or none: what stays was there.
LEMMA CachesEmptied ==
  ASSUME SessionInv, UNCHANGED <<epoch, tick, ended, served>>,
         queue' \in [Processes -> SUBSET Calls],
         scope' \in [Processes -> Scopes], flight' \in [Processes -> Flights],
         \A p \in Processes : scope'[p] = scope[p] \/ scope'[p] = Nothing,
         \A p \in Processes : flight'[p] = flight[p] \/ flight'[p] = Landed
  PROVE  SessionInv'
  <1>1. SessionClock'
    BY DEF SessionInv, SessionClock
  <1>2. ASSUME NEW p \in Processes  PROVE BatchYoung(p)'
    <2>1. CASE flight'[p] = flight[p]
      BY <2>1 DEF SessionInv, BatchYoung, Within
    <2>2. CASE flight'[p] = Landed
      BY <2>2, LandedYoung
    <2>. QED  BY <2>1, <2>2
  <1>3. ASSUME NEW p \in Processes, scope'[p].until > 0
        PROVE  Within(scope[p].epoch, scope[p].until, LookupTicks + Ttl, tick + Ttl)'
    <2>1. Nothing.until = 0
      BY DEF Nothing
    <2>2. scope'[p] = scope[p]
      BY <1>3, <2>1
    <2>. QED  BY <1>3, <2>2 DEF SessionInv, Within
  <1>4. Within(served.epoch, served.at + 1, LookupTicks + Ttl, tick + 1)'
    BY DEF SessionInv, Within
  <1>. QED  BY <1>1, <1>2, <1>3, <1>4 DEF SessionInv

\* A revocation: what was true of the present epoch until now is true of it as
\* one that ended now.
LEMMA BumpSteps ==
  ASSUME SessionInv, NEW k \in Calls, BumpSessionEpoch(k)
  PROVE  SessionInv'
  <1>1. /\ epoch < MaxEpoch /\ epoch' = epoch + 1 /\ ended' = [ended EXCEPT ![epoch] = tick]
        /\ UNCHANGED <<scope, queue, flight, tick, served>>
    BY DEF BumpSessionEpoch
  <1>2. epoch \in Epochs /\ epoch \in Nat /\ epoch' \in Epochs /\ tick \in Nat
    BY <1>1, TicksCount DEF SessionInv, SessionClock, Epochs
  <1>3. /\ ended' \in [Epochs -> Nat] /\ ended'[epoch] = tick
        /\ \A e \in Epochs \ {epoch} : ended'[e] = ended[e]
    BY <1>1, <1>2 DEF SessionInv, SessionClock
  <1>4. SessionClock'
    BY <1>1, <1>2, <1>3 DEF SessionInv, SessionClock
  <1>5. ASSUME NEW e, NEW t \in Nat, NEW past \in Nat, NEW present \in Nat, NEW present2 \in Nat,
               present <= tick + past, Within(e, t, past, present)
        PROVE  Within(e, t, past, present2)'
    <2>1. e \in 0..epoch /\ e # epoch + 1 /\ e \in Epochs
      BY <1>2, <1>5, TicksCount DEF Within, Epochs
    <2>2. e \in 0..epoch'
      BY <1>1, <1>2, <2>1
    <2>3. t <= ended'[e] + past
      BY <1>2, <1>3, <1>5, <2>1 DEF Within
    <2>. QED  BY <1>1, <2>1, <2>2, <2>3 DEF Within
  <1>6. ASSUME NEW p \in Processes  PROVE BatchYoung(p)'
    <2>1. BatchYoung(p) /\ flight[p].since \in Nat
      BY DEF SessionInv, SessionClock, Flights
    <2>2. flight[p].read # Unread => Within(flight[p].read, flight[p].since, 0, tick)'
      BY <1>1, <1>2, <1>5, <2>1 DEF BatchYoung
    <2>. QED  BY <1>1, <2>1, <2>2 DEF BatchYoung
  <1>7. ASSUME NEW p \in Processes, scope[p].until > 0
        PROVE  Within(scope[p].epoch, scope[p].until, LookupTicks + Ttl, tick + Ttl)'
    <2>1. Within(scope[p].epoch, scope[p].until, LookupTicks + Ttl, tick + Ttl) /\ scope[p].until \in Nat
      BY <1>7 DEF SessionInv, SessionClock, Scopes
    <2>2. LookupTicks + Ttl \in Nat /\ tick + Ttl \in Nat /\ tick + Ttl <= tick + (LookupTicks + Ttl)
      BY <1>2, TicksCount
    <2>. QED  BY <1>1, <1>5, <2>1, <2>2
  <1>8. Within(served.epoch, served.at + 1, LookupTicks + Ttl, tick + 1)'
    <2>1. Within(served.epoch, served.at + 1, LookupTicks + Ttl, tick + 1) /\ served.at + 1 \in Nat
      BY DEF SessionInv, SessionClock
    <2>2. LookupTicks + Ttl \in Nat /\ tick + 1 \in Nat /\ tick + 1 <= tick + (LookupTicks + Ttl)
      BY <1>2, TicksCount
    <2>. QED  BY <1>1, <1>5, <2>1, <2>2
  <1>. QED  BY <1>1, <1>4, <1>6, <1>7, <1>8 DEF SessionInv

LEMMA SessionTickSteps ==
  ASSUME SessionInv, SessionTick
  PROVE  SessionInv'
  <1>1. /\ tick' = tick + 1 /\ UNCHANGED <<epoch, scope, queue, flight, ended, served>>
        /\ \A p \in Processes : flight[p].callers # {} => tick < flight[p].since + LookupTicks
    BY DEF SessionTick
  <1>2. tick \in Nat
    BY DEF SessionInv, SessionClock
  <1>3. SessionClock'
    BY <1>1, <1>2 DEF SessionInv, SessionClock
  <1>4. ASSUME NEW e, NEW t \in Nat, NEW past, NEW d \in Nat, Within(e, t, past, tick + d)
        PROVE  Within(e, t, past, tick + d)'
    BY <1>1, <1>2, <1>4 DEF Within
  <1>5. ASSUME NEW p \in Processes  PROVE BatchYoung(p)'
    <2>1. BatchYoung(p) /\ flight[p].since \in Nat
      BY DEF SessionInv, SessionClock, Flights
    <2>2. flight[p].callers # {} => tick < flight[p].since + LookupTicks
      BY <1>1
    <2>3. flight[p].read # Unread => Within(flight[p].read, flight[p].since, 0, tick)'
      BY <1>1, <1>2, <2>1 DEF BatchYoung, Within
    <2>. QED  BY <1>1, <1>2, <2>1, <2>2, <2>3, TicksCount DEF BatchYoung
  <1>6. ASSUME NEW p \in Processes, scope[p].until > 0
        PROVE  Within(scope[p].epoch, scope[p].until, LookupTicks + Ttl, tick + Ttl)'
    <2>1. Within(scope[p].epoch, scope[p].until, LookupTicks + Ttl, tick + Ttl) /\ scope[p].until \in Nat
      BY <1>6 DEF SessionInv, SessionClock, Scopes
    <2>. QED  BY <1>1, <1>4, <2>1, TicksCount
  <1>7. Within(served.epoch, served.at + 1, LookupTicks + Ttl, tick + 1)'
    <2>1. Within(served.epoch, served.at + 1, LookupTicks + Ttl, tick + 1) /\ served.at + 1 \in Nat
      BY DEF SessionInv, SessionClock
    <2>. QED  BY <1>1, <1>4, <2>1
  <1>. QED  BY <1>1, <1>3, <1>5, <1>6, <1>7 DEF SessionInv

LEMMA SessionInvNext ==
  ASSUME SessionInv, [SessionNext]_sessionVars
  PROVE  SessionInv'
  <1>1. queue \in [Processes -> SUBSET Calls] /\ scope \in [Processes -> Scopes]
        /\ flight \in [Processes -> Flights] /\ Nothing \in Scopes /\ Landed \in Flights
    BY DEF SessionInv, SessionClock, Scopes, Flights, Nothing, Landed, Unread
  <1>2. CASE UNCHANGED <<epoch, tick, ended, served, queue, scope, flight>>
    BY <1>1, <1>2, CachesEmptied
  <1>3. ASSUME NEW p \in Processes,
               ExecuteBatch(p) \/ FindSessionScopes(p) \/ ResolveBatch(p)
        PROVE  SessionInv'
    BY <1>3, ExecuteBatchSteps, FindScopesSteps, ResolveBatchSteps
  <1>4. ASSUME NEW p \in Processes, RejectBatch(p)  PROVE SessionInv'
    <2>1. /\ flight' = [flight EXCEPT ![p] = Landed]
          /\ UNCHANGED <<epoch, tick, ended, served, queue, scope>>
      BY <1>4 DEF RejectBatch
    <2>2. /\ flight' \in [Processes -> Flights]
          /\ \A q \in Processes : flight'[q] = flight[q] \/ flight'[q] = Landed
      BY <1>1, <2>1
    <2>. QED  BY <1>1, <2>1, <2>2, CachesEmptied
  <1>5. ASSUME NEW p \in Processes, RestartProcess(p)  PROVE SessionInv'
    <2>1. /\ scope' = [scope EXCEPT ![p] = Nothing] /\ queue' = [queue EXCEPT ![p] = {}]
          /\ flight' = [flight EXCEPT ![p] = Landed]
          /\ UNCHANGED <<epoch, tick, ended, served>>
      BY <1>5 DEF RestartProcess
    <2>2. /\ flight' \in [Processes -> Flights] /\ scope' \in [Processes -> Scopes]
          /\ queue' \in [Processes -> SUBSET Calls]
          /\ \A q \in Processes : flight'[q] = flight[q] \/ flight'[q] = Landed
          /\ \A q \in Processes : scope'[q] = scope[q] \/ scope'[q] = Nothing
      BY <1>1, <2>1
    <2>. QED  BY <2>1, <2>2, CachesEmptied
  <1>6. CASE SessionTick
    BY <1>6, SessionTickSteps
  <1>7. ASSUME NEW k \in Calls, NEW p \in Processes, NEW op, NEW token, Authenticate(k, p, op, token)
        PROVE  SessionInv'
    BY <1>7, AuthenticateSteps
  <1>8. ASSUME NEW k \in Calls, NEW p \in Processes, NEW word,
               Login(k, p, word) \/ SetNewPassword(k, p) \/ IssueToken(k)
        PROVE  SessionInv'
    <2>1. UNCHANGED <<epoch, tick, ended, served, queue, scope, flight>>
      BY <1>8 DEF Login, SetNewPassword, IssueToken
    <2>. QED  BY <1>2, <2>1
  <1>9. ASSUME NEW k \in Calls, BumpSessionEpoch(k)  PROVE SessionInv'
    BY <1>9, BumpSteps
  <1>10. ASSUME NEW k \in Calls, InvalidateSessionScopeCache(k)  PROVE SessionInv'
    <2>1. /\ scope' = [scope EXCEPT ![call[k].at] = Nothing]
          /\ UNCHANGED <<epoch, tick, ended, served, queue, flight>>
      BY <1>10 DEF InvalidateSessionScopeCache
    <2>2. /\ scope' \in [Processes -> Scopes]
          /\ \A q \in Processes : scope'[q] = scope[q] \/ scope'[q] = Nothing
      BY <1>1, <2>1
    <2>. QED  BY <1>1, <2>1, <2>2, CachesEmptied
  <1>11. ASSUME NEW k \in Calls, IssueToken(k)  PROVE SessionInv'
    BY <1>2, <1>11 DEF IssueToken
  <1>12. CASE UNCHANGED sessionVars
    BY <1>2, <1>12 DEF sessionVars
  <1>. QED  BY <1>3, <1>4, <1>5, <1>6, <1>7, <1>8, <1>9, <1>10, <1>11, <1>12
            DEF SessionNext, LookupStep, CallStep

\* A revoked session ends within a lookup and the time to live of what was read
\* before (auth/alphaSessionScopeBatcher.ts, middleware/auth.ts).
THEOREM SessionsCorrect == SessionSpec => []RevokedSessionsEnd
  <1>1. SessionInit => SessionInv
    BY SessionInvInit
  <1>2. SessionInv /\ [SessionNext]_sessionVars => SessionInv'
    BY SessionInvNext
  <1>3. SessionInv => RevokedSessionsEnd
    <2>. SUFFICES ASSUME SessionInv, served.epoch < epoch
                  PROVE  served.at < ended[served.epoch] + LookupTicks + Ttl
      BY DEF RevokedSessionsEnd
    <2>1. served.epoch \in 0..epoch /\ served.at + 1 <= ended[served.epoch] + (LookupTicks + Ttl)
      BY TicksCount DEF SessionInv, SessionClock, Within, Epochs
    <2>2. served.at \in Nat /\ ended[served.epoch] \in Nat
      BY <2>1, TicksCount DEF SessionInv, SessionClock, Epochs
    <2>. QED  BY <2>1, <2>2, TicksCount
  <1>. QED  BY <1>1, <1>2, <1>3, PTL DEF SessionSpec

-----------------------------------------------------------------------------
(* Rate limits: the map *)

LimitOf(key) == IF key[1] = "ip_coarse" THEN CoarseMax ELSE MaxCalls

Distinct(store) == \A i, j \in 1..Len(store) : store[i].key = store[j].key => i = j

\* The entry that makes a key wait, as long as it was told to.
Waits(store, shut) ==
  \A key \in LimitKeys : shut[key] > moment =>
    \E i \in 1..Len(store) : /\ store[i].key = key /\ store[i].blocked
                             /\ store[i].resetAt = shut[key] /\ store[i].count > LimitOf(key)

StoreHolds(store, shut) ==
  store \in Seq(CounterEntry) /\ Distinct(store) /\ Len(store) <= MaxEntries /\ Waits(store, shut)

LimitInv ==
  /\ StoreHolds(counters, shutUntil)
  /\ moment \in 0..LastMoment /\ moment \in Nat /\ shutUntil \in [LimitKeys -> Nat]

\* Counts are kept up to one beyond any limit.
LEMMA CountsAreBounded ==
  /\ CountBound \in Nat /\ 1 \in 1..CountBound
  /\ \A key : LimitOf(key) < CountBound /\ LimitOf(key) \in Nat
  <1>1. Max({MaxCalls, CoarseMax}) = IF MaxCalls >= CoarseMax THEN MaxCalls ELSE CoarseMax
    BY WindowsAreLong, GreaterOfTwo
  <1>. QED  BY <1>1, WindowsAreLong DEF CountBound, LimitOf

LEMMA EntryFields ==
  ASSUME NEW entry \in CounterEntry
  PROVE  /\ entry.key \in LimitKeys /\ entry.count \in 1..CountBound /\ entry.count \in Nat
         /\ entry.resetAt \in Nat /\ entry.blocked \in BOOLEAN
BY CountsAreBounded DEF CounterEntry

LEMMA LengthIsFinite ==
  ASSUME NEW len \in Nat
  PROVE  IsFiniteSet(1..len) /\ Cardinality(1..len) = len
  <1>1. 1 \in Int /\ len \in Int /\ len = IF 1 > len THEN 0 ELSE len - 1 + 1
    OBVIOUS
  <1>. QED  BY <1>1, FS_Interval

\* The map with the entries that have not lapsed: some of it, in order, without
\* a repetition, and none is missing.
LiveOf(store, live) ==
  /\ live \in Seq(CounterEntry) /\ Len(live) <= Len(store)
  /\ \A n \in 1..Len(live) : \E i \in 1..Len(store) : live[n] = store[i]
  /\ \A i \in 1..Len(store) : ~Lapsed(store[i]) => \E n \in 1..Len(live) : live[n] = store[i]
  /\ Distinct(store) => Distinct(live)

LEMMA LiveEntries ==
  ASSUME moment \in Nat, NEW store, store \in Seq(CounterEntry)
  PROVE  LiveOf(store, Live(store))
  <1>. PICK live : live = Live(store)
    OBVIOUS
  <1>1. PICK places : places = LivePlaces(store)
    OBVIOUS
  <1>2. Len(store) \in Nat /\ DOMAIN store = 1..Len(store) /\ \A i \in 1..Len(store) : store[i] \in CounterEntry
    OBVIOUS
  <1>3. \A i : i \in places <=> i \in 1..Len(store) /\ ~Lapsed(store[i])
    BY <1>1, <1>2 DEF LivePlaces
  <1>4. IsFiniteSet(places) /\ Cardinality(places) <= Len(store) /\ \A i \in places : i \in Int
    <2>1. places \in SUBSET (1..Len(store)) /\ \A i \in places : i \in Int
      BY <1>2, <1>3
    <2>2. IsFiniteSet(1..Len(store)) /\ Cardinality(1..Len(store)) = Len(store)
      BY <1>2, LengthIsFinite
    <2>. QED  BY <2>1, <2>2, FS_Subset
  <1>5. PICK rank : rank = RankFunction(places)
    OBVIOUS
  <1>6. PICK size : size = Cardinality(places)
    OBVIOUS
  <1>7. /\ size \in Nat /\ size <= Len(store)
        /\ \A x \in places : rank[x] \in 1..size
        /\ \A x, y \in places : rank[x] = rank[y] => x = y
        /\ \A n \in 1..size : \E x \in places : rank[x] = n
    <2>1. /\ Cardinality(places) \in Nat
          /\ \A x \in places : rank[x] \in 1..Cardinality(places)
          /\ \A x, y \in places : rank[x] = rank[y] => x = y
          /\ \A n \in 1..Cardinality(places) : \E x \in places : rank[x] = n
      <3>1. (\A x \in places : x \in Int) /\ IsFiniteSet(places)
        BY <1>4
      <3>2. Ranks(rank, places)
        BY <1>5, <3>1, RanksExist
      <3>. QED  BY <3>2 DEF Ranks
    <2>. QED  BY <1>4, <1>6, <2>1
  <1>8. PICK at : at = [n \in 1..size |-> CHOOSE i \in places : rank[i] = n]
    OBVIOUS
  <1>9. \A n \in 1..size : at[n] \in places /\ rank[at[n]] = n
    BY <1>7, <1>8
  <1>10. live = [n \in 1..size |-> store[at[n]]]
    <2>1. \A i \in places : RankIn(i, places) = rank[i]
      BY <1>5 DEF RankIn, RankFunction
    <2>2. \A n \in 1..size : (CHOOSE i \in places : RankIn(i, places) = n) = at[n]
      BY <1>8, <2>1
    <2>3. live = [n \in 1..size |-> store[CHOOSE i \in places : RankIn(i, places) = n]]
      BY <1>1, <1>6 DEF Live
    <2>. QED  BY <2>2, <2>3
  <1>11. \A n \in 1..size : at[n] \in 1..Len(store) /\ live[n] = store[at[n]] /\ live[n] \in CounterEntry
    BY <1>2, <1>3, <1>9, <1>10
  <1>12. live \in Seq(CounterEntry) /\ Len(live) = size
    BY <1>7, <1>10, <1>11
  <1>13. ASSUME NEW i \in 1..Len(store), ~Lapsed(store[i])  PROVE \E n \in 1..Len(live) : live[n] = store[i]
    <2>1. i \in places /\ rank[i] \in 1..size
      BY <1>3, <1>7, <1>13
    <2>2. at[rank[i]] = i
      BY <1>7, <1>9, <2>1
    <2>. QED  BY <1>11, <1>12, <2>1, <2>2
  <1>14. ASSUME Distinct(store)  PROVE Distinct(live)
    <2>. SUFFICES ASSUME NEW n \in 1..size, NEW m \in 1..size, live[n].key = live[m].key
                  PROVE  n = m
      BY <1>12 DEF Distinct
    <2>1. at[n] = at[m]
      BY <1>11, <1>14 DEF Distinct
    <2>. QED  BY <1>9, <2>1
  <1>. QED  BY <1>7, <1>11, <1>12, <1>13, <1>14 DEF LiveOf

\* What is left of a map without the entry at a place.
Without(store, p, rest) ==
  /\ rest \in Seq(CounterEntry) /\ Len(rest) = Len(store) - 1
  /\ \A n \in 1..Len(rest) : \E i \in 1..Len(store) : rest[n] = store[i]
  /\ \A i \in 1..Len(store) : i # p => \E n \in 1..Len(rest) : rest[n] = store[i]
  /\ Distinct(store) => Distinct(rest)

LEMMA RemoveEntry ==
  ASSUME NEW store, store \in Seq(CounterEntry), NEW p, p \in 1..Len(store)
  PROVE  Without(store, p, RemoveAt(store, p))
  <1>. PICK rest : rest = RemoveAt(store, p)
    OBVIOUS
  <1>1. PICK len : len = Len(store) /\ len \in Nat
    OBVIOUS
  <1>2. PICK low, high : low = SubSeq(store, 1, p - 1) /\ high = SubSeq(store, p + 1, len)
    OBVIOUS
  <1>3. p \in 1..len /\ p \in Nat
    BY <1>1
  <1>4. /\ low \in Seq(CounterEntry) /\ Len(low) = p - 1
        /\ \A i \in 1..(p - 1) : low[i] = store[i]
    BY <1>1, <1>2, <1>3
  <1>5. /\ high \in Seq(CounterEntry) /\ Len(high) = len - p
        /\ \A i \in 1..(len - p) : high[i] = store[p + i]
    BY <1>1, <1>2, <1>3
  <1>6. rest = low \o high
    BY <1>1, <1>2 DEF RemoveAt
  <1>7. /\ rest \in Seq(CounterEntry) /\ Len(rest) = len - 1
        /\ \A n \in 1..(len - 1) : rest[n] = IF n <= p - 1 THEN low[n] ELSE high[n - (p - 1)]
    <2>1. /\ rest \in Seq(CounterEntry) /\ Len(rest) = Len(low) + Len(high)
          /\ \A n \in 1..(Len(low) + Len(high)) :
               rest[n] = IF n <= Len(low) THEN low[n] ELSE high[n - Len(low)]
      BY <1>4, <1>5, <1>6, ConcatProperties
    <2>2. Len(low) = p - 1 /\ Len(high) = len - p /\ (p - 1) + (len - p) = len - 1
      BY <1>1, <1>3, <1>4, <1>5
    <2>. QED  BY <2>1, <2>2
  <1>8. \A n \in 1..(len - 1) : rest[n] = IF n < p THEN store[n] ELSE store[n + 1]
    <2>. SUFFICES ASSUME NEW n \in 1..(len - 1)
                  PROVE  rest[n] = IF n < p THEN store[n] ELSE store[n + 1]
      OBVIOUS
    <2>1. CASE n < p
      <3>1. n \in 1..(p - 1) /\ n <= p - 1
        BY <1>3, <2>1
      <3>. QED  BY <1>4, <1>7, <2>1, <3>1
    <2>2. CASE ~(n < p)
      <3>1. n - (p - 1) \in 1..(len - p) /\ p + (n - (p - 1)) = n + 1
        BY <1>1, <1>3, <2>2
      <3>2. rest[n] = high[n - (p - 1)]
        <4>1. ~(n <= p - 1)
          BY <1>3, <2>2
        <4>. QED  BY <1>7, <4>1
      <3>. QED  BY <1>5, <2>2, <3>1, <3>2
    <2>. QED  BY <2>1, <2>2
  <1>9. \A n \in 1..Len(rest) : \E i \in 1..Len(store) : rest[n] = store[i]
    <2>. SUFFICES ASSUME NEW n \in 1..(len - 1) PROVE \E i \in 1..len : rest[n] = store[i]
      BY <1>1, <1>7
    <2>1. n \in 1..len /\ n + 1 \in 1..len
      BY <1>1
    <2>. QED  BY <1>8, <2>1
  <1>10. ASSUME NEW i \in 1..len, i # p  PROVE \E n \in 1..(len - 1) : rest[n] = store[i]
    <2>1. CASE i < p
      <3>1. i \in 1..(len - 1)
        BY <1>1, <1>3, <2>1
      <3>. QED  BY <1>8, <2>1, <3>1
    <2>2. CASE i > p
      <3>1. i - 1 \in 1..(len - 1) /\ ~(i - 1 < p) /\ (i - 1) + 1 = i
        BY <1>1, <1>3, <2>2
      <3>. QED  BY <1>8, <3>1
    <2>. QED  BY <1>3, <1>10, <2>1, <2>2
  <1>11. ASSUME Distinct(store)  PROVE Distinct(rest)
    <2>. SUFFICES ASSUME NEW n \in 1..(len - 1), NEW m \in 1..(len - 1), rest[n].key = rest[m].key
                  PROVE  n = m
      BY <1>1, <1>7 DEF Distinct
    <2>. DEFINE at(x) == IF x < p THEN x ELSE x + 1
    <2>1. at(n) \in 1..len /\ at(m) \in 1..len /\ (at(n) = at(m) => n = m)
      BY <1>1, <1>3
    <2>2. rest[n] = store[at(n)] /\ rest[m] = store[at(m)]
      BY <1>8
    <2>. HIDE DEF at
    <2>. QED  BY <1>1, <1>11, <2>1, <2>2 DEF Distinct
  <1>. QED  BY <1>1, <1>7, <1>9, <1>10, <1>11 DEF Without

\* A map that makes room holds what the other held.
LEMMA RoomHolds ==
  ASSUME moment \in Nat, NEW shut, NEW store, StoreHolds(store, shut), NEW room \in WithRoom(store)
  PROVE  /\ StoreHolds(room, shut) /\ Len(room) < MaxEntries
         /\ \A n \in 1..Len(room) : \E i \in 1..Len(store) : room[n] = store[i]
  <1>1. PICK live : live = Live(store)
    OBVIOUS
  <1>2. /\ store \in Seq(CounterEntry) /\ Distinct(store) /\ Len(store) <= MaxEntries /\ Waits(store, shut)
        /\ Len(store) \in Nat /\ MaxEntries \in Nat
    BY WindowsAreLong DEF StoreHolds
  <1>3. /\ live \in Seq(CounterEntry) /\ Len(live) <= Len(store) /\ Distinct(live) /\ Len(live) \in Nat
        /\ \A n \in 1..Len(live) : \E i \in 1..Len(store) : live[n] = store[i]
        /\ \A i \in 1..Len(store) : ~Lapsed(store[i]) => \E n \in 1..Len(live) : live[n] = store[i]
    <2>1. LiveOf(store, live)
      BY <1>1, <1>2, LiveEntries
    <2>. QED  BY <1>2, <2>1 DEF LiveOf
  <1>4. ASSUME NEW i \in 1..Len(store), NEW key \in LimitKeys, shut[key] > moment,
               store[i].resetAt = shut[key]
        PROVE  ~Lapsed(store[i])
    <2>1. store[i].resetAt \in Nat
      <3>1. store[i] \in CounterEntry
        BY <1>2
      <3>. QED  BY <3>1, EntryFields
    <2>. QED  BY <1>4, <2>1 DEF Lapsed
  <1>5. Waits(live, shut)
    <2>. SUFFICES ASSUME NEW key \in LimitKeys, shut[key] > moment
                  PROVE  \E n \in 1..Len(live) : /\ live[n].key = key /\ live[n].blocked
                                                 /\ live[n].resetAt = shut[key]
                                                 /\ live[n].count > LimitOf(key)
      BY DEF Waits
    <2>1. PICK i \in 1..Len(store) : /\ store[i].key = key /\ store[i].blocked
                                     /\ store[i].resetAt = shut[key] /\ store[i].count > LimitOf(key)
      BY <1>2 DEF Waits
    <2>2. ~Lapsed(store[i])
      BY <1>4, <2>1
    <2>3. PICK n \in 1..Len(live) : live[n] = store[i]
      BY <1>3, <2>2
    <2>. QED  BY <2>1, <2>3
  <1>6. StoreHolds(live, shut)
    BY <1>2, <1>3, <1>5 DEF StoreHolds
  <1>7. CASE room = store /\ Len(store) < MaxEntries
    BY <1>7
  <1>8. CASE room = live /\ Len(live) < MaxEntries
    BY <1>3, <1>6, <1>8
  <1>9. CASE Evictable(live) # {} /\ room = RemoveAt(live, Min(Evictable(live)))
    <2>1. PICK p : p = Min(Evictable(live))
      OBVIOUS
    <2>2. p \in 1..Len(live) /\ ~live[p].blocked
      <3>1. \A i : i \in Evictable(live) <=> i \in 1..Len(live) /\ ~live[i].blocked
        BY <1>3 DEF Evictable
      <3>2. Evictable(live) \in SUBSET (1..Len(live)) /\ \A i \in Evictable(live) : i \in Int
        BY <1>3, <3>1
      <3>3. IsFiniteSet(Evictable(live))
        <4>1. IsFiniteSet(1..Len(live))
          BY <1>3, LengthIsFinite
        <4>. QED  BY <3>2, <4>1, FS_Subset
      <3>4. p \in Evictable(live)
        BY <1>9, <2>1, <3>2, <3>3, LeastExists
      <3>. QED  BY <3>1, <3>4
    <2>3. /\ room \in Seq(CounterEntry) /\ Len(room) = Len(live) - 1 /\ Distinct(room)
          /\ \A n \in 1..Len(room) : \E i \in 1..Len(live) : room[n] = live[i]
          /\ \A i \in 1..Len(live) : i # p => \E n \in 1..Len(room) : room[n] = live[i]
      <3>1. live \in Seq(CounterEntry) /\ p \in 1..Len(live) /\ Distinct(live)
        BY <1>3, <2>2
      <3>2. room = RemoveAt(live, p)
        BY <1>9, <2>1
      <3>3. Without(live, p, room)
        BY <3>1, <3>2, RemoveEntry
      <3>. QED  BY <3>1, <3>3 DEF Without
    <2>4. Waits(room, shut)
      <3>. SUFFICES ASSUME NEW key \in LimitKeys, shut[key] > moment
                    PROVE  \E n \in 1..Len(room) : /\ room[n].key = key /\ room[n].blocked
                                                   /\ room[n].resetAt = shut[key]
                                                   /\ room[n].count > LimitOf(key)
        BY DEF Waits
      <3>1. PICK i \in 1..Len(live) : /\ live[i].key = key /\ live[i].blocked
                                      /\ live[i].resetAt = shut[key] /\ live[i].count > LimitOf(key)
        BY <1>5 DEF Waits
      <3>2. PICK n \in 1..Len(room) : room[n] = live[i]
        BY <2>2, <2>3, <3>1
      <3>. QED  BY <3>1, <3>2
    <2>5. Len(room) < MaxEntries
      BY <1>2, <1>3, <2>3
    <2>. QED  BY <1>2, <1>3, <2>3, <2>4, <2>5 DEF StoreHolds
  <1>. QED  BY <1>1, <1>7, <1>8, <1>9 DEF WithRoom

\* Counting a request for one key takes nothing from another that waits, nor
\* from its own.
LEMMA CountedHolds ==
  ASSUME moment \in Nat, NEW shut, NEW store, StoreHolds(store, shut), NEW key \in LimitKeys,
         NEW counted \in Counted(store, key)
  PROVE  StoreHolds(counted, shut) /\ \E i \in 1..Len(counted) : counted[i].key = key
  <1>1. PICK fresh : fresh = Fresh(key)
    OBVIOUS
  <1>2. fresh \in CounterEntry /\ fresh.key = key
    BY <1>1, WindowsAreLong, CountsAreBounded DEF Fresh, CounterEntry
  <1>3. /\ store \in Seq(CounterEntry) /\ Distinct(store) /\ Len(store) <= MaxEntries /\ Waits(store, shut)
        /\ Len(store) \in Nat /\ MaxEntries \in Nat /\ DOMAIN store = 1..Len(store)
    BY WindowsAreLong DEF StoreHolds
  <1>4. CASE ~Has(store, key)
    <2>1. PICK room \in WithRoom(store) : counted = Append(room, fresh)
      BY <1>1, <1>4 DEF Counted
    <2>2. /\ room \in Seq(CounterEntry) /\ Distinct(room) /\ Len(room) < MaxEntries /\ Waits(room, shut)
          /\ \A n \in 1..Len(room) : \E i \in 1..Len(store) : room[n] = store[i]
      BY <2>1, RoomHolds DEF StoreHolds
    <2>3. \A n \in 1..Len(room) : room[n].key # key
      BY <1>3, <1>4, <2>2 DEF Has
    <2>4. PICK len : len = Len(room) /\ len \in Nat
      BY <2>2
    <2>5. /\ counted \in Seq(CounterEntry) /\ Len(counted) = len + 1 /\ counted[len + 1] = fresh
          /\ \A n \in 1..len : counted[n] = room[n]
      BY <1>2, <2>1, <2>2, <2>4
    <2>6. Distinct(counted)
      <3>. SUFFICES ASSUME NEW i \in 1..(len + 1), NEW j \in 1..(len + 1),
                           counted[i].key = counted[j].key
                    PROVE  i = j
        BY <2>5 DEF Distinct
      <3>1. (i \in 1..len \/ i = len + 1) /\ (j \in 1..len \/ j = len + 1)
        BY <2>4
      <3>. QED  BY <1>2, <2>2, <2>3, <2>4, <2>5, <3>1 DEF Distinct
    <2>7. Waits(counted, shut)
      <3>1. \A n \in 1..len : n \in 1..(len + 1)
        BY <2>4
      <3>. QED  BY <2>2, <2>4, <2>5, <3>1 DEF Waits
    <2>8. Len(counted) <= MaxEntries /\ len + 1 \in 1..Len(counted)
      BY <1>3, <2>2, <2>4, <2>5
    <2>. QED  BY <1>2, <2>5, <2>6, <2>7, <2>8 DEF StoreHolds
  <1>5. CASE Has(store, key)
    <2>1. PICK p : p = PlaceOf(store, key)
      OBVIOUS
    <2>2. p \in 1..Len(store) /\ store[p].key = key
      BY <1>3, <1>5, <2>1 DEF Has, PlaceOf
    <2>3. PICK more : more = Min({store[p].count + 1, CountBound})
      OBVIOUS
    <2>4. store[p] \in CounterEntry /\ store[p].count \in Nat
      <3>1. store[p] \in CounterEntry
        BY <1>3, <2>2
      <3>. QED  BY <3>1, EntryFields
    <2>5. more \in 1..CountBound /\ more \in Nat /\ (store[p].count > LimitOf(key) => more > LimitOf(key))
      <3>1. CountBound \in Nat /\ LimitOf(key) < CountBound /\ LimitOf(key) \in Nat
        BY CountsAreBounded
      <3>2. more = IF store[p].count + 1 <= CountBound THEN store[p].count + 1 ELSE CountBound
        <4>1. store[p].count + 1 \in Int /\ CountBound \in Int
          BY <2>4, <3>1
        <4>. QED  BY <2>3, <4>1, LesserOfTwo
      <3>3. store[p].count \in 1..CountBound
        BY <2>4, EntryFields
      <3>. QED  BY <2>4, <3>1, <3>2, <3>3
    <2>6. PICK new : new = IF Lapsed(store[p]) THEN fresh ELSE [store[p] EXCEPT !.count = more]
      OBVIOUS
    <2>7. counted = [store EXCEPT ![p] = new]
      <3>1. counted = [store EXCEPT ![p] = CountedOnce(store[p], key)]
        BY <1>5, <2>1 DEF Counted
      <3>2. CountedOnce(store[p], key) = new
        BY <1>1, <2>3, <2>6 DEF CountedOnce
      <3>. QED  BY <3>1, <3>2
    <2>8. /\ new \in CounterEntry /\ new.key = key
          /\ ~Lapsed(store[p]) => new.blocked = store[p].blocked /\ new.resetAt = store[p].resetAt
                                  /\ new.count = more
      <3>1. CASE Lapsed(store[p])
        BY <1>2, <2>6, <3>1
      <3>2. CASE ~Lapsed(store[p])
        <4>1. new = [store[p] EXCEPT !.count = more]
          BY <2>6, <3>2
        <4>. QED  BY <2>2, <2>4, <2>5, <4>1, <3>2 DEF CounterEntry
      <3>. QED  BY <3>1, <3>2
    <2>9. /\ counted \in Seq(CounterEntry) /\ Len(counted) = Len(store) /\ counted[p] = new
          /\ \A i \in 1..Len(store) : i # p => counted[i] = store[i]
      BY <1>3, <2>2, <2>7, <2>8
    <2>10. Distinct(counted)
      BY <1>3, <2>2, <2>8, <2>9 DEF Distinct
    <2>11. Waits(counted, shut)
      <3>. SUFFICES ASSUME NEW k \in LimitKeys, shut[k] > moment
                    PROVE  \E i \in 1..Len(counted) :
                             /\ counted[i].key = k /\ counted[i].blocked
                             /\ counted[i].resetAt = shut[k] /\ counted[i].count > LimitOf(k)
        BY DEF Waits
      <3>1. PICK i \in 1..Len(store) : /\ store[i].key = k /\ store[i].blocked
                                       /\ store[i].resetAt = shut[k] /\ store[i].count > LimitOf(k)
        BY <1>3 DEF Waits
      <3>2. CASE i # p
        BY <2>9, <3>1, <3>2
      <3>3. CASE i = p
        <4>1. store[p].resetAt \in Nat
          BY <2>4 DEF CounterEntry
        <4>2. ~Lapsed(store[p])
          BY <3>1, <3>3, <4>1 DEF Lapsed
        <4>. QED  BY <2>2, <2>5, <2>8, <2>9, <3>1, <3>3, <4>2
      <3>. QED  BY <3>2, <3>3
    <2>. QED  BY <1>3, <2>2, <2>8, <2>9, <2>10, <2>11 DEF StoreHolds
  <1>. QED  BY <1>4, <1>5

\* The key that is told to wait has the entry for it.
LEMMA ShutHolds ==
  ASSUME moment \in Nat, shutUntil \in [LimitKeys -> Nat], NEW store, StoreHolds(store, shutUntil),
         NEW key \in LimitKeys, \E i \in 1..Len(store) : store[i].key = key,
         Exceeds(store, key, LimitOf(key)), Shut(store, key)
  PROVE  StoreHolds(counters', shutUntil') /\ shutUntil' \in [LimitKeys -> Nat]
  <1>1. PICK p : p = PlaceOf(store, key)
    OBVIOUS
  <1>2. /\ store \in Seq(CounterEntry) /\ Distinct(store) /\ Len(store) <= MaxEntries
        /\ Waits(store, shutUntil) /\ Len(store) \in Nat /\ DOMAIN store = 1..Len(store)
    BY DEF StoreHolds
  <1>3. p \in 1..Len(store) /\ store[p].key = key /\ store[p].count > LimitOf(key)
    BY <1>1, <1>2 DEF PlaceOf, Exceeds
  <1>4. store[p] \in CounterEntry
    BY <1>2, <1>3
  <1>5. /\ counters' = [store EXCEPT ![p].blocked = TRUE]
        /\ shutUntil' = [shutUntil EXCEPT ![key] = store[p].resetAt]
    BY <1>1 DEF Shut
  <1>6. PICK new : new = [store[p] EXCEPT !.blocked = TRUE]
    OBVIOUS
  <1>7. /\ new \in CounterEntry /\ new.key = key /\ new.blocked /\ new.resetAt = store[p].resetAt
        /\ new.count = store[p].count
    BY <1>3, <1>4, <1>6 DEF CounterEntry
  <1>8. counters' = [store EXCEPT ![p] = new]
    BY <1>5, <1>6
  <1>9. /\ counters' \in Seq(CounterEntry) /\ Len(counters') = Len(store) /\ counters'[p] = new
        /\ \A i \in 1..Len(store) : i # p => counters'[i] = store[i]
    BY <1>2, <1>3, <1>7, <1>8
  <1>10. /\ shutUntil' \in [LimitKeys -> Nat] /\ shutUntil'[key] = store[p].resetAt
         /\ \A k \in LimitKeys : k # key => shutUntil'[k] = shutUntil[k]
    <2>1. store[p].resetAt \in Nat
      BY <1>4 DEF CounterEntry
    <2>. QED  BY <1>5, <2>1
  <1>11. Distinct(counters')
    BY <1>2, <1>3, <1>7, <1>9 DEF Distinct
  <1>12. Waits(counters', shutUntil')
    <2>. SUFFICES ASSUME NEW k \in LimitKeys, shutUntil'[k] > moment
                  PROVE  \E i \in 1..Len(counters') :
                           /\ counters'[i].key = k /\ counters'[i].blocked
                           /\ counters'[i].resetAt = shutUntil'[k] /\ counters'[i].count > LimitOf(k)
      BY DEF Waits
    <2>1. CASE k = key
      BY <1>3, <1>7, <1>9, <1>10, <2>1
    <2>2. CASE k # key
      <3>1. PICK i \in 1..Len(store) : /\ store[i].key = k /\ store[i].blocked
                                       /\ store[i].resetAt = shutUntil[k] /\ store[i].count > LimitOf(k)
        BY <1>2, <1>10, <2>2 DEF Waits
      <3>. QED  BY <1>3, <1>9, <1>10, <2>2, <3>1
    <2>. QED  BY <2>1, <2>2
  <1>. QED  BY <1>2, <1>9, <1>10, <1>11, <1>12 DEF StoreHolds

LEMMA CountCallHolds ==
  ASSUME moment \in Nat, shutUntil \in [LimitKeys -> Nat], NEW store, StoreHolds(store, shutUntil),
         NEW key \in LimitKeys, LimitOf(key) = MaxCalls, CountCall(store, key)
  PROVE  StoreHolds(counters', shutUntil') /\ shutUntil' \in [LimitKeys -> Nat]
  <1>1. CASE counters' = store /\ UNCHANGED shutUntil
    BY <1>1
  <1>2. ASSUME NEW counted \in Counted(store, key),
               IF Exceeds(counted, key, MaxCalls) THEN Shut(counted, key)
               ELSE counters' = counted /\ UNCHANGED shutUntil
        PROVE  StoreHolds(counters', shutUntil') /\ shutUntil' \in [LimitKeys -> Nat]
    <2>1. StoreHolds(counted, shutUntil) /\ \E i \in 1..Len(counted) : counted[i].key = key
      BY CountedHolds
    <2>2. CASE Exceeds(counted, key, MaxCalls)
      BY <1>2, <2>1, <2>2, ShutHolds
    <2>3. CASE ~Exceeds(counted, key, MaxCalls)
      BY <1>2, <2>1, <2>3
    <2>. QED  BY <2>2, <2>3
  <1>. QED  BY <1>1, <1>2 DEF CountCall

LEMMA LimitedCallSteps ==
  ASSUME LimitInv, NEW actor \in Actors \cup {NoActor}, NEW address \in Addresses,
         LimitedCall(actor, address)
  PROVE  LimitInv'
  <1>1. PICK guard, key : guard = CoarseKey(address) /\ key = PrimaryKey(actor, address)
    OBVIOUS
  <1>2. guard \in LimitKeys /\ LimitOf(guard) = CoarseMax
    BY <1>1 DEF CoarseKey, LimitKeys, LimitOf
  <1>3. key \in LimitKeys /\ LimitOf(key) = MaxCalls
    BY <1>1 DEF PrimaryKey, LimitKeys, LimitOf
  <1>4. moment' = moment /\ moment \in Nat /\ shutUntil \in [LimitKeys -> Nat]
        /\ StoreHolds(counters, shutUntil)
    BY DEF LimitedCall, LimitInv
  <1>5. StoreHolds(counters', shutUntil') /\ shutUntil' \in [LimitKeys -> Nat]
    <2>1. CASE CountCall(counters, key)
      BY <1>3, <1>4, <2>1, CountCallHolds
    <2>2. CASE UNCHANGED <<counters, shutUntil>>
      BY <1>4, <2>2
    <2>3. ASSUME NEW counted \in Counted(counters, guard),
                 IF Exceeds(counted, guard, CoarseMax) THEN Shut(counted, guard)
                 ELSE CountCall(counted, key)
          PROVE  StoreHolds(counters', shutUntil') /\ shutUntil' \in [LimitKeys -> Nat]
      <3>1. StoreHolds(counted, shutUntil) /\ \E i \in 1..Len(counted) : counted[i].key = guard
        BY <1>2, <1>4, CountedHolds
      <3>2. CASE Exceeds(counted, guard, CoarseMax)
        BY <1>2, <1>4, <2>3, <3>1, <3>2, ShutHolds
      <3>3. CASE ~Exceeds(counted, guard, CoarseMax)
        BY <1>3, <1>4, <2>3, <3>1, <3>3, CountCallHolds
      <3>. QED  BY <3>2, <3>3
    <2>. QED  BY <1>1, <2>1, <2>2, <2>3 DEF LimitedCall
  <1>6. StoreHolds(counters, shutUntil)'
    BY <1>4, <1>5 DEF StoreHolds, Waits
  <1>. QED  BY <1>4, <1>5, <1>6 DEF LimitInv

LEMMA PruneSteps ==
  ASSUME LimitInv, PruneCounters
  PROVE  LimitInv'
  <1>1. counters' = Live(counters) /\ UNCHANGED <<moment, shutUntil>>
    BY DEF PruneCounters
  <1>2. PICK live : live = Live(counters)
    OBVIOUS
  <1>3. /\ counters \in Seq(CounterEntry) /\ Distinct(counters) /\ Len(counters) <= MaxEntries
        /\ Waits(counters, shutUntil) /\ MaxEntries \in Nat /\ Len(counters) \in Nat /\ moment \in Nat
        /\ shutUntil \in [LimitKeys -> Nat]
    BY WindowsAreLong DEF LimitInv, StoreHolds
  <1>4. /\ live \in Seq(CounterEntry) /\ Len(live) <= Len(counters) /\ Distinct(live) /\ Len(live) \in Nat
        /\ \A i \in 1..Len(counters) : ~Lapsed(counters[i]) =>
             \E n \in 1..Len(live) : live[n] = counters[i]
    <2>1. LiveOf(counters, live)
      BY <1>2, <1>3, LiveEntries
    <2>. QED  BY <1>3, <2>1 DEF LiveOf
  <1>5. ASSUME NEW i \in 1..Len(counters), NEW key \in LimitKeys, shutUntil[key] > moment,
               counters[i].resetAt = shutUntil[key]
        PROVE  ~Lapsed(counters[i])
    <2>1. counters[i].resetAt \in Nat
      <3>1. counters[i] \in CounterEntry
        BY <1>3
      <3>. QED  BY <3>1, EntryFields
    <2>. QED  BY <1>3, <1>5, <2>1 DEF Lapsed
  <1>6. Waits(live, shutUntil)
    <2>. SUFFICES ASSUME NEW key \in LimitKeys, shutUntil[key] > moment
                  PROVE  \E n \in 1..Len(live) : /\ live[n].key = key /\ live[n].blocked
                                                 /\ live[n].resetAt = shutUntil[key]
                                                 /\ live[n].count > LimitOf(key)
      BY DEF Waits
    <2>1. PICK i \in 1..Len(counters) : /\ counters[i].key = key /\ counters[i].blocked
                                        /\ counters[i].resetAt = shutUntil[key]
                                        /\ counters[i].count > LimitOf(key)
      BY <1>3 DEF Waits
    <2>2. ~Lapsed(counters[i])
      BY <1>5, <2>1
    <2>3. PICK n \in 1..Len(live) : live[n] = counters[i]
      BY <1>4, <2>2
    <2>. QED  BY <2>1, <2>3
  <1>7. StoreHolds(live, shutUntil)
    BY <1>3, <1>4, <1>6 DEF StoreHolds
  <1>8. StoreHolds(counters, shutUntil)'
    BY <1>1, <1>2, <1>7 DEF StoreHolds, Waits
  <1>. QED  BY <1>1, <1>3, <1>8 DEF LimitInv

LEMMA MomentSteps ==
  ASSUME LimitInv, MomentPasses
  PROVE  LimitInv'
  <1>1. moment' = moment + 1 /\ UNCHANGED <<counters, shutUntil>> /\ moment \in Nat
        /\ shutUntil \in [LimitKeys -> Nat]
    BY DEF MomentPasses, LimitInv
  <1>2. \A key \in LimitKeys : shutUntil'[key] > moment' => shutUntil[key] > moment
    BY <1>1
  <1>3. Waits(counters, shutUntil)'
    BY <1>1, <1>2 DEF LimitInv, StoreHolds, Waits
  <1>4. moment' \in 0..LastMoment
    BY WindowsAreLong DEF MomentPasses, LimitInv
  <1>. QED  BY <1>1, <1>3, <1>4 DEF LimitInv, StoreHolds, Distinct

\* No key has two windows, the map keeps its size, and a key that was told to
\* wait is refused until then (middleware/rateLimit.ts).
THEOREM LimitsCorrect == LimitSpec => [](LimitTypeOK /\ LimitsHold)
  <1>1. LimitInit => LimitInv
    <2>. SUFFICES ASSUME LimitInit PROVE LimitInv
      OBVIOUS
    <2>1. counters = <<>> /\ moment = 0 /\ shutUntil = [key \in LimitKeys |-> 0]
      BY DEF LimitInit
    <2>2. counters \in Seq(CounterEntry) /\ Len(counters) = 0
      BY <2>1
    <2>3. StoreHolds(counters, shutUntil)
      BY <2>1, <2>2, WindowsAreLong DEF StoreHolds, Distinct, Waits
    <2>. QED  BY <2>1, <2>3, WindowsAreLong DEF LimitInv
  <1>2. LimitInv /\ [LimitNext]_limitVars => LimitInv'
    <2>. SUFFICES ASSUME LimitInv, [LimitNext]_limitVars PROVE LimitInv'
      OBVIOUS
    <2>1. CASE UNCHANGED limitVars
      BY <2>1 DEF limitVars, LimitInv, StoreHolds, Distinct, Waits
    <2>. QED  BY <2>1, LimitedCallSteps, PruneSteps, MomentSteps DEF LimitNext
  <1>3. LimitInv => LimitTypeOK /\ LimitsHold
    <2>. SUFFICES ASSUME LimitInv PROVE LimitTypeOK /\ LimitsHold
      OBVIOUS
    <2>1. /\ counters \in Seq(CounterEntry) /\ Distinct(counters) /\ Len(counters) <= MaxEntries
          /\ Waits(counters, shutUntil)
      BY DEF LimitInv, StoreHolds
    <2>2. DOMAIN counters = 1..Len(counters)
      BY <2>1
    <2>3. LimitTypeOK
      BY DEF LimitInv, StoreHolds, LimitTypeOK
    <2>4. LimitsHold
      BY <2>1, <2>2 DEF LimitsHold, Distinct, Waits, LimitOf
    <2>. QED  BY <2>3, <2>4
  <1>. QED  BY <1>1, <1>2, <1>3, PTL DEF LimitSpec

\* Requests that may not go on do not: of revoked sessions, and beyond a limit
\* (middleware/auth.ts, middleware/rateLimit.ts).
THEOREM RequestsHeld == GateSpec => []RequestsAreHeld
  BY SessionsCorrect, LimitsCorrect, PTL DEF GateSpec, RequestsAreHeld


-----------------------------------------------------------------------------
(* The weekly batch *)

TickSteps == {"idle", "area", "candidate", "generate"}
TrendKeys == UNION {{Candidates(d)[i] : i \in 1..(Len(d) + 1)} : d \in Digests}

Handled(slot, key) == <<slot, key>> \in refused \/ \E g \in made : g.row = slot /\ g.key = key

\* What is left of the candidates of a theme list after the first n of them.
LeftAfter(todo, themes, n) ==
  /\ todo \in Seq(TrendKeys) /\ Len(todo) = Len(themes) + 1 - n
  /\ \A i \in 1..Len(todo) : todo[i] = Candidates(themes)[n + i]

TickType == [step : TickSteps, week : Nat, themes : Digests \cup {<<>>}, area : Nat,
             todo : Seq(TrendKeys)]

\* Of the tick under way: the candidates it has passed are made or refused, and
\* the one it is about to make has not been made.
WorksOff(job, slot) ==
  /\ job.themes \in Digests
  /\ \E n \in 0..(Len(job.themes) + 1) :
       /\ LeftAfter(job.todo, job.themes, n)
       /\ \A i \in 1..n : Handled(slot, Candidates(job.themes)[i])
  /\ job.step = "generate" =>
       job.todo # <<>> /\ ~\E g \in made : g.row = slot /\ g.key = Head(job.todo)

TickersHold ==
  /\ ticker \in [Tickers -> TickType]
  /\ \A p, q \in Tickers : ticker[p].step # "idle" /\ ticker[q].step # "idle" => p = q
  /\ \A p \in Tickers : ticker[p].step # "idle" => ticker[p].themes \in Digests
  /\ \A p \in Tickers : ticker[p].step \in {"candidate", "generate"} => WorksOff(ticker[p], Row(p))

MadeOnce == \A g, h \in made : g.row = h.row /\ g.key = h.key => g = h

MarksHold ==
  \A m \in marked : \A i \in 1..(Len(m[2]) + 1) : Handled(m[1], Candidates(m[2])[i])

TrendInv == monday \in Nat /\ TickersHold /\ MadeOnce /\ MarksHold

LEMMA CandidatesOf ==
  ASSUME NEW d \in Digests
  PROVE  /\ Len(d) \in Nat /\ DOMAIN Candidates(d) = 1..(Len(d) + 1)
         /\ LeftAfter(Candidates(d), d, 0)
  <1>1. Len(d) \in Nat
    BY TrendsAssumption
  <1>2. PICK len : len = Len(d) + 1
    OBVIOUS
  <1>3. PICK all : all = Candidates(d)
    OBVIOUS
  <1>4. DOMAIN all = 1..len /\ all = [i \in 1..len |-> all[i]]
    BY <1>2, <1>3 DEF Candidates
  <1>5. \A i \in 1..len : all[i] \in TrendKeys
    BY <1>2, <1>3 DEF TrendKeys
  <1>6. all \in Seq(TrendKeys) /\ Len(all) = len
    BY <1>1, <1>2, <1>4, <1>5
  <1>. QED  BY <1>1, <1>2, <1>3, <1>4, <1>6 DEF LeftAfter

LEMMA LeftAfterOne ==
  ASSUME NEW themes, Len(themes) \in Nat, NEW todo, NEW n \in 0..(Len(themes) + 1),
         LeftAfter(todo, themes, n), todo # <<>>
  PROVE  /\ n + 1 \in 0..(Len(themes) + 1) /\ Head(todo) = Candidates(themes)[n + 1]
         /\ LeftAfter(Tail(todo), themes, n + 1)
  <1>1. todo \in Seq(TrendKeys) /\ Len(todo) = Len(themes) + 1 - n /\ Len(todo) \in Nat
    BY DEF LeftAfter
  <1>2. Len(todo) >= 1
    BY <1>1
  <1>3. Head(todo) = todo[1] /\ Head(todo) = Candidates(themes)[n + 1]
    BY <1>1, <1>2 DEF LeftAfter
  <1>4. PICK rest : rest = Tail(todo)
    OBVIOUS
  <1>5. rest \in Seq(TrendKeys) /\ Len(rest) = Len(todo) - 1
    BY <1>1, <1>2, <1>4
  <1>6. \A i \in 1..Len(rest) : rest[i] = Candidates(themes)[n + 1 + i]
    <2>. SUFFICES ASSUME NEW i \in 1..Len(rest) PROVE rest[i] = Candidates(themes)[n + 1 + i]
      OBVIOUS
    <2>1. i + 1 \in 1..Len(todo) /\ n + (i + 1) = n + 1 + i
      BY <1>1, <1>5
    <2>2. rest[i] = todo[i + 1]
      BY <1>1, <1>2, <1>4, <1>5
    <2>. QED  BY <2>1, <2>2 DEF LeftAfter
  <1>7. n + 1 \in 0..(Len(themes) + 1) /\ Len(rest) = Len(themes) + 1 - (n + 1)
    BY <1>1, <1>2, <1>5
  <1>. QED  BY <1>3, <1>4, <1>5, <1>6, <1>7 DEF LeftAfter

\* What stays of the rows of a step that only adds to what is made and refused.
LEMMA HandledStays ==
  ASSUME made \subseteq made', refused \subseteq refused', NEW slot, NEW key, Handled(slot, key)
  PROVE  Handled(slot, key)'
BY DEF Handled

\* A step of the one tick under way, to another tick and other rows.
LEMMA TickSteps1 ==
  ASSUME TrendInv, NEW p \in Tickers, NEW job \in TickType, ticker' = [ticker EXCEPT ![p] = job],
         \/ \A q \in Tickers : ticker[q].step = "idle"
         \/ ticker[p].step # "idle",
         job.step # "idle" => job.themes \in Digests,
         job.step \in {"candidate", "generate"} =>
           WorksOff(job, <<job.week, Areas[job.area]>>)'
  PROVE  TickersHold'
  <1>1. ticker \in [Tickers -> TickType]
    BY DEF TrendInv, TickersHold
  <1>2. /\ ticker' \in [Tickers -> TickType] /\ ticker'[p] = job
        /\ \A q \in Tickers : q # p => ticker'[q] = ticker[q]
    BY <1>1
  <1>3. \A q \in Tickers : q # p => ticker'[q].step = "idle"
    BY <1>2 DEF TrendInv, TickersHold
  <1>4. \A q, r \in Tickers : ticker'[q].step # "idle" /\ ticker'[r].step # "idle" => q = r
    BY <1>3
  <1>5. \A q \in Tickers : ticker'[q].step # "idle" => ticker'[q].themes \in Digests
    BY <1>2, <1>3
  <1>6. \A q \in Tickers : ticker'[q].step \in {"candidate", "generate"} => WorksOff(ticker[q], Row(q))'
    <2>. SUFFICES ASSUME NEW q \in Tickers, ticker'[q].step \in {"candidate", "generate"}
                  PROVE  WorksOff(ticker[q], Row(q))'
      OBVIOUS
    <2>1. q = p
      BY <1>3
    <2>2. Row(q)' = <<job.week, Areas[job.area]>>
      BY <1>2, <2>1 DEF Row
    <2>3. ticker'[q] = job
      BY <1>2, <2>1
    <2>4. WorksOff(job, <<job.week, Areas[job.area]>>)'
      BY <2>3
    <2>. QED  BY <2>2, <2>3, <2>4 DEF WorksOff, Handled
  <1>. QED  BY <1>2, <1>4, <1>5, <1>6 DEF TickersHold

LEMMA NoTickIsIdle == NoTick \in TickType /\ NoTick.step = "idle"
  <1>1. <<>> \in Seq(TrendKeys)
    OBVIOUS
  <1>. QED  BY <1>1 DEF NoTick, TickType, TickSteps

\* To the next area, or to the end.
LEMMA AreaAfterHolds ==
  ASSUME TrendInv, NEW p \in Tickers, ticker[p].step # "idle", AreaAfter(p, ticker[p].area)
  PROVE  TickersHold'
  <1>1. PICK old : old = ticker[p]
    OBVIOUS
  <1>2. old \in TickType /\ old.themes \in Digests
    BY <1>1 DEF TrendInv, TickersHold
  <1>3. PICK next : next = [old EXCEPT !.step = "area", !.area = old.area + 1, !.todo = <<>>]
    OBVIOUS
  <1>4. next \in TickType /\ next.themes = old.themes /\ next.step = "area"
    <2>1. <<>> \in Seq(TrendKeys) /\ "area" \in TickSteps
      BY DEF TickSteps
    <2>2. old.area + 1 \in Nat
      BY <1>2 DEF TickType
    <2>3. PICK n : n = old.area + 1
      OBVIOUS
    <2>4. next = [old EXCEPT !.step = "area", !.area = n, !.todo = <<>>] /\ n \in Nat
      BY <1>3, <2>2, <2>3
    <2>. QED  BY <1>2, <2>1, <2>4 DEF TickType
  <1>5. PICK job : job = IF old.area < Len(Areas) THEN next ELSE NoTick
    OBVIOUS
  <1>6. ticker' = [ticker EXCEPT ![p] = job]
    BY <1>1, <1>3, <1>5 DEF AreaAfter
  <1>7. CASE job = next
    BY <1>2, <1>4, <1>6, <1>7, TickSteps1
  <1>8. CASE job = NoTick
    BY <1>6, <1>8, NoTickIsIdle, TickSteps1
  <1>. QED  BY <1>5, <1>7, <1>8

LEMMA RowsStay ==
  ASSUME TrendInv, UNCHANGED <<made, refused, marked>>
  PROVE  MadeOnce' /\ MarksHold'
BY DEF TrendInv, MadeOnce, MarksHold, Handled

LEMMA BeginSteps ==
  ASSUME TrendInv, NEW p \in Tickers, BeginTrends(p)
  PROVE  TrendInv'
  <1>1. PICK themes \in Digests : ticker' = [ticker EXCEPT ![p] =
          [step |-> "area", week |-> monday, themes |-> themes, area |-> 1, todo |-> <<>>]]
    BY DEF BeginTrends
  <1>2. PICK job : job = [step |-> "area", week |-> monday, themes |-> themes, area |-> 1,
                            todo |-> <<>>]
    OBVIOUS
  <1>3. job \in TickType /\ job.step = "area" /\ job.themes \in Digests
    <2>1. <<>> \in Seq(TrendKeys) /\ monday \in Nat
      BY DEF TrendInv
    <2>. QED  BY <1>2, <2>1 DEF TickType, TickSteps
  <1>4. UNCHANGED <<monday, made, refused, marked>> /\ \A q \in Tickers : ticker[q].step = "idle"
    BY DEF BeginTrends, Held
  <1>5. TickersHold'
    BY <1>1, <1>2, <1>3, <1>4, TickSteps1
  <1>. QED  BY <1>4, <1>5, RowsStay DEF TrendInv

LEMMA OpenAreaSteps ==
  ASSUME TrendInv, NEW p \in Tickers, OpenArea(p)
  PROVE  TrendInv'
  <1>1. UNCHANGED <<monday, made, refused, marked>> /\ ticker[p].step = "area"
    BY DEF OpenArea
  <1>2. CASE AreaAfter(p, ticker[p].area)
    BY <1>1, <1>2, AreaAfterHolds, RowsStay DEF TrendInv
  <1>3. CASE ticker' = [ticker EXCEPT ![p].step = "candidate", ![p].todo = Candidates(ticker[p].themes)]
    <2>1. PICK old : old = ticker[p]
      OBVIOUS
    <2>2. old \in TickType /\ old.themes \in Digests
      BY <1>1, <2>1 DEF TrendInv, TickersHold
    <2>3. PICK all : all = Candidates(old.themes)
      OBVIOUS
    <2>4. LeftAfter(all, old.themes, 0) /\ all \in Seq(TrendKeys) /\ Len(old.themes) \in Nat
      BY <2>2, <2>3, CandidatesOf DEF LeftAfter
    <2>5. PICK job : job = [old EXCEPT !.step = "candidate", !.todo = all]
      OBVIOUS
    <2>6. job \in TickType /\ job.step = "candidate" /\ job.todo = all /\ job.themes = old.themes
      BY <2>2, <2>4, <2>5 DEF TickType, TickSteps
    <2>7. ticker' = [ticker EXCEPT ![p] = job]
      BY <1>3, <2>1, <2>3, <2>5
    <2>8. WorksOff(job, <<job.week, Areas[job.area]>>)'
      <3>1. 0 \in 0..(Len(job.themes) + 1)
        BY <2>4, <2>6
      <3>. QED  BY <2>2, <2>4, <2>6, <3>1 DEF WorksOff
    <2>9. TickersHold'
      BY <1>1, <2>2, <2>6, <2>7, <2>8, TickSteps1
    <2>. QED  BY <1>1, <2>9, RowsStay DEF TrendInv
  <1>. QED  BY <1>2, <1>3 DEF OpenArea

\* The tick has passed one more candidate, which is made or refused.
LEMMA PassesOne ==
  ASSUME TrendInv, NEW p \in Tickers, ticker[p].step \in {"candidate", "generate"},
         ticker[p].todo # <<>>, NextCandidate(p), made \subseteq made', refused \subseteq refused',
         NEW slot, slot = Row(p), NEW head, head = Head(ticker[p].todo), Handled(slot, head)'
  PROVE  TickersHold'
  <1>1. PICK old : old = ticker[p]
    OBVIOUS
  <1>2. old \in TickType /\ old.themes \in Digests /\ WorksOff(old, slot) /\ old.step # "idle"
    BY <1>1 DEF TrendInv, TickersHold
  <1>3. PICK n \in 0..(Len(old.themes) + 1) :
          /\ LeftAfter(old.todo, old.themes, n)
          /\ \A i \in 1..n : Handled(slot, Candidates(old.themes)[i])
    BY <1>2 DEF WorksOff
  <1>4. Len(old.themes) \in Nat
    BY <1>2, CandidatesOf
  <1>5. PICK rest : rest = Tail(old.todo)
    OBVIOUS
  <1>6. /\ n + 1 \in 0..(Len(old.themes) + 1) /\ head = Candidates(old.themes)[n + 1]
        /\ LeftAfter(rest, old.themes, n + 1)
    BY <1>1, <1>3, <1>4, <1>5, LeftAfterOne
  <1>7. PICK job : job = [old EXCEPT !.step = "candidate", !.todo = rest]
    OBVIOUS
  <1>8. /\ job \in TickType /\ job.step = "candidate" /\ job.todo = rest /\ job.themes = old.themes
        /\ job.week = old.week /\ job.area = old.area
    <2>1. rest \in Seq(TrendKeys)
      BY <1>6 DEF LeftAfter
    <2>. QED  BY <1>2, <1>7, <2>1 DEF TickType, TickSteps
  <1>9. ticker' = [ticker EXCEPT ![p] = job]
    BY <1>1, <1>5, <1>7 DEF NextCandidate
  <1>10. slot = <<job.week, Areas[job.area]>>
    BY <1>1, <1>8 DEF Row
  <1>11. \A i \in 1..(n + 1) : Handled(slot, Candidates(old.themes)[i])'
    <2>. SUFFICES ASSUME NEW i \in 1..(n + 1) PROVE Handled(slot, Candidates(old.themes)[i])'
      OBVIOUS
    <2>1. CASE i \in 1..n
      BY <1>3, <2>1, HandledStays
    <2>2. CASE i = n + 1
      BY <1>6, <2>2
    <2>. QED  BY <1>3, <2>1, <2>2
  <1>12. WorksOff(job, <<job.week, Areas[job.area]>>)'
    BY <1>2, <1>6, <1>8, <1>10, <1>11 DEF WorksOff
  <1>. QED  BY <1>1, <1>2, <1>8, <1>9, <1>12, TickSteps1

LEMMA LookUpSteps ==
  ASSUME TrendInv, NEW p \in Tickers, LookUp(p)
  PROVE  TrendInv'
  <1>1. /\ UNCHANGED <<monday, made, refused, marked>> /\ ticker[p].step = "candidate"
        /\ ticker[p].todo # <<>>
    BY DEF LookUp
  <1>2. CASE HasGeneration(p) /\ NextCandidate(p)
    <2>1. PICK slot, head : slot = Row(p) /\ head = Head(ticker[p].todo)
      OBVIOUS
    <2>2. Handled(slot, head)'
      BY <1>1, <1>2, <2>1 DEF HasGeneration, Handled
    <2>3. TickersHold'
      BY <1>1, <1>2, <2>1, <2>2, PassesOne
    <2>. QED  BY <1>1, <2>3, RowsStay DEF TrendInv
  <1>3. CASE ~HasGeneration(p) /\ ticker' = [ticker EXCEPT ![p].step = "generate"]
    <2>1. PICK old : old = ticker[p]
      OBVIOUS
    <2>2. old \in TickType /\ old.themes \in Digests /\ WorksOff(old, Row(p)) /\ old.step # "idle"
      BY <1>1, <2>1 DEF TrendInv, TickersHold
    <2>3. PICK job : job = [old EXCEPT !.step = "generate"]
      OBVIOUS
    <2>4. /\ job \in TickType /\ job.todo = old.todo /\ job.themes = old.themes
          /\ job.week = old.week /\ job.area = old.area /\ job.step = "generate"
      BY <2>2, <2>3 DEF TickType, TickSteps
    <2>5. ticker' = [ticker EXCEPT ![p] = job]
      BY <1>3, <2>1, <2>3
    <2>6. Row(p) = <<job.week, Areas[job.area]>>
      BY <2>1, <2>4 DEF Row
    <2>7. PICK slot : slot = <<job.week, Areas[job.area]>>
      OBVIOUS
    <2>8. job.todo # <<>> /\ ~\E g \in made : g.row = slot /\ g.key = Head(job.todo)
      BY <1>1, <1>3, <2>1, <2>4, <2>6, <2>7 DEF HasGeneration
    <2>9. WorksOff(job, slot)
      BY <2>2, <2>4, <2>6, <2>7, <2>8 DEF WorksOff
    <2>10. WorksOff(job, slot)'
      BY <1>1, <2>9 DEF WorksOff, Handled
    <2>11. TickersHold'
      BY <2>1, <2>2, <2>4, <2>5, <2>7, <2>10, TickSteps1
    <2>. QED  BY <1>1, <2>11, RowsStay DEF TrendInv
  <1>. QED  BY <1>2, <1>3 DEF LookUp

LEMMA GenerateSteps ==
  ASSUME TrendInv, NEW p \in Tickers, Generate(p)
  PROVE  TrendInv'
  <1>1. PICK slot, head : slot = Row(p) /\ head = Head(ticker[p].todo)
    OBVIOUS
  <1>2. ticker[p].step = "generate" /\ NextCandidate(p) /\ UNCHANGED <<monday, marked>>
    BY DEF Generate
  <1>3. ticker[p].todo # <<>> /\ ~\E g \in made : g.row = slot /\ g.key = head
    BY <1>1, <1>2 DEF TrendInv, TickersHold, WorksOff
  <1>4. PICK new : new = [row |-> slot, key |-> head, nth |-> Cardinality(made)]
    OBVIOUS
  <1>5. new.row = slot /\ new.key = head
    BY <1>4
  <1>6. \/ made' = made \cup {new} /\ UNCHANGED refused
        \/ refused' = refused \cup {<<slot, head>>} /\ UNCHANGED made
    BY <1>1, <1>4 DEF Generate
  <1>7. made \subseteq made' /\ refused \subseteq refused' /\ Handled(slot, head)'
    BY <1>5, <1>6 DEF Handled
  <1>8. MadeOnce'
    BY <1>3, <1>5, <1>6 DEF TrendInv, MadeOnce
  <1>9. MarksHold'
    BY <1>2, <1>7, HandledStays DEF TrendInv, MarksHold
  <1>10. TickersHold'
    BY <1>1, <1>2, <1>3, <1>7, PassesOne
  <1>. QED  BY <1>2, <1>8, <1>9, <1>10 DEF TrendInv

LEMMA MarkSteps ==
  ASSUME TrendInv, NEW p \in Tickers, MarkArea(p)
  PROVE  TrendInv'
  <1>1. PICK slot, themes : slot = Row(p) /\ themes = ticker[p].themes
    OBVIOUS
  <1>2. /\ UNCHANGED <<monday, made, refused>> /\ marked' = marked \cup {<<slot, themes>>}
        /\ ticker[p].step = "candidate" /\ ticker[p].todo = <<>> /\ AreaAfter(p, ticker[p].area)
    BY <1>1 DEF MarkArea
  <1>3. themes \in Digests /\ Len(themes) \in Nat
    BY <1>1, <1>2, CandidatesOf DEF TrendInv, TickersHold
  <1>4. PICK n \in 0..(Len(themes) + 1) :
          /\ LeftAfter(ticker[p].todo, themes, n)
          /\ \A i \in 1..n : Handled(slot, Candidates(themes)[i])
    BY <1>1, <1>2 DEF TrendInv, TickersHold, WorksOff
  <1>5. n = Len(themes) + 1
    BY <1>2, <1>3, <1>4 DEF LeftAfter
  <1>6. \A m \in marked' : \A i \in 1..(Len(m[2]) + 1) : Handled(m[1], Candidates(m[2])[i])
    <2>. SUFFICES ASSUME NEW m \in marked', NEW i \in 1..(Len(m[2]) + 1)
                  PROVE  Handled(m[1], Candidates(m[2])[i])
      OBVIOUS
    <2>1. CASE m \in marked
      BY <2>1 DEF TrendInv, MarksHold
    <2>2. CASE m = <<slot, themes>>
      <3>1. m[1] = slot /\ m[2] = themes
        BY <2>2
      <3>. QED  BY <1>4, <1>5, <3>1
    <2>. QED  BY <1>2, <2>1, <2>2
  <1>7. MarksHold'
    BY <1>2, <1>6 DEF MarksHold, Handled
  <1>8. TickersHold'
    BY <1>2, AreaAfterHolds
  <1>. QED  BY <1>2, <1>7, <1>8 DEF TrendInv, MadeOnce

LEMMA StopSteps ==
  ASSUME TrendInv, NEW p \in Tickers, StopTrends(p)
  PROVE  TrendInv'
  <1>1. UNCHANGED <<monday, made, refused, marked>> /\ ticker' = [ticker EXCEPT ![p] = NoTick]
    BY DEF StopTrends
  <1>2. ticker \in [Tickers -> TickType]
    BY DEF TrendInv, TickersHold
  <1>3. /\ ticker' \in [Tickers -> TickType] /\ ticker'[p].step = "idle"
        /\ \A q \in Tickers : q # p => ticker'[q] = ticker[q]
    BY <1>1, <1>2, NoTickIsIdle
  <1>4. \A q \in Tickers : ticker'[q].step # "idle" => ticker'[q] = ticker[q]
    BY <1>3
  <1>5. \A q \in Tickers : ticker'[q].step \in {"candidate", "generate"} => WorksOff(ticker[q], Row(q))'
    <2>. SUFFICES ASSUME NEW q \in Tickers, ticker'[q].step \in {"candidate", "generate"}
                  PROVE  WorksOff(ticker[q], Row(q))'
      OBVIOUS
    <2>1. ticker'[q] = ticker[q]
      BY <1>4
    <2>2. Row(q)' = Row(q)
      BY <2>1 DEF Row
    <2>3. WorksOff(ticker[q], Row(q))
      BY <2>1 DEF TrendInv, TickersHold
    <2>. QED  BY <1>1, <2>1, <2>2, <2>3 DEF WorksOff, Handled
  <1>6. TickersHold'
    BY <1>3, <1>4, <1>5 DEF TrendInv, TickersHold
  <1>. QED  BY <1>1, <1>6, RowsStay DEF TrendInv

LEMMA TrendInvHolds ==
  /\ TrendInit => TrendInv
  /\ TrendInv /\ [TrendClock \/ \E p \in Tickers : TrendStep(p)]_trendVars => TrendInv'
  <1>1. TrendInit => TrendInv
    <2>. SUFFICES ASSUME TrendInit PROVE TrendInv
      OBVIOUS
    <2>1. /\ monday = 0 /\ made = {} /\ refused = {} /\ marked = {}
          /\ ticker = [p \in Tickers |-> NoTick]
      BY DEF TrendInit
    <2>2. ticker \in [Tickers -> TickType] /\ \A p \in Tickers : ticker[p].step = "idle"
      BY <2>1, NoTickIsIdle
    <2>3. TickersHold
      BY <2>2 DEF TickersHold
    <2>. QED  BY <2>1, <2>3 DEF TrendInv, MadeOnce, MarksHold
  <1>2. TrendInv /\ [TrendClock \/ \E p \in Tickers : TrendStep(p)]_trendVars => TrendInv'
    <2>. SUFFICES ASSUME TrendInv, [TrendClock \/ \E p \in Tickers : TrendStep(p)]_trendVars
                  PROVE  TrendInv'
      OBVIOUS
    <2>1. CASE monday' \in Nat /\ UNCHANGED <<ticker, made, refused, marked>>
      <3>1. TickersHold'
        <4>1. \A p \in Tickers : WorksOff(ticker[p], Row(p)) => WorksOff(ticker[p], Row(p))'
          BY <2>1 DEF WorksOff, Handled, Row
        <4>. QED  BY <2>1, <4>1 DEF TrendInv, TickersHold
      <3>. QED  BY <2>1, <3>1, RowsStay DEF TrendInv
    <2>2. CASE UNCHANGED trendVars
      BY <2>1, <2>2 DEF trendVars, TrendInv
    <2>3. CASE TrendClock
      <3>1. monday' \in Nat /\ UNCHANGED <<ticker, made, refused, marked>>
        BY <2>3 DEF TrendClock, TrendInv
      <3>. QED  BY <2>1, <3>1
    <2>4. ASSUME NEW p \in Tickers, TrendStep(p)  PROVE TrendInv'
      BY <2>4, BeginSteps, OpenAreaSteps, LookUpSteps, GenerateSteps, MarkSteps, StopSteps
         DEF TrendStep
    <2>. QED  BY <2>2, <2>3, <2>4
  <1>. QED  BY <1>1, <1>2

\* No candidate of a week and area gets two trails, and an area is marked done
\* for themes that were all made or refused (trails/jobs/weeklyTrends.ts).
THEOREM WeeksWorkedOffOnce == TrendSpec => []WeeklyBatchOnce
  <1>1. TrendInv => WeeklyBatchOnce
    <2>. SUFFICES ASSUME TrendInv PROVE WeeklyBatchOnce
      OBVIOUS
    <2>. QED  BY DEF WeeklyBatchOnce, TrendInv, MadeOnce, MarksHold, Handled, Candidates
  <1>. QED  BY <1>1, TrendInvHolds, PTL DEF TrendSpec

-----------------------------------------------------------------------------
(* The books of the trails *)

CatalogRow == [status : {"draft", "pending_review", "published", "rejected", "retired"},
               tier : Tiers, price : Nat \cup {Unset}, dates : {"none", "open", "past"}]
OwnedRow == [by : Guests \cup {"nobody"}, began : Nat, made : Nat, price : Nat]
DraftRow == [step : {"new", "prepared", "begun", "over"}, by : Guests \cup {"nobody"},
             key : Keys \cup {"none"}, week : Nat, began : Nat]
RewardRows == [TrailIds -> [Guests -> Nat \cup {Unset}]]
OwnedRows == [Drafts -> OwnedRow]

PricesOf(own) == [d \in Drafts |-> own[d].price]
DraftsOf(own, u) == {d \in Drafts : own[d].by = u}
Charged(own, u) == SumFunctionOnSet(PricesOf(own), DraftsOf(own, u))
PriceOf(price) == IF price = Unset THEN 0 ELSE price
RewardsOf(rew, u) == [t \in TrailIds |-> rew[t][u]]
RewardedOf(rew, u) == {t \in TrailIds : rew[t][u] # Unset}
Gained(rew, u) == SumFunctionOnSet(RewardsOf(rew, u), RewardedOf(rew, u))

FreeOf(own, u, w) ==
  {d \in Drafts : own[d].by = u /\ own[d].price = 0 /\ own[d].began = w /\ own[d].made = w}

TrailRows ==
  /\ catalog \in CatalogRow /\ unlock \in [Guests -> Nat \cup {Unset}]
  /\ checkin \in [TrailIds -> [Guests -> SUBSET Stops]] /\ reward \in RewardRows
  /\ owned \in OwnedRows /\ draft \in [Drafts -> DraftRow]
  /\ points \in [Guests -> Int] /\ week \in Nat

DraftsHold ==
  \A d \in Drafts :
    /\ draft[d].step # "over" => owned[d] = NotMade
    /\ draft[d].step \in {"prepared", "begun"} => draft[d].by \in Guests

WalksHold ==
  \A u \in Guests, t \in TrailIds :
    /\ reward[t][u] # Unset <=> checkin[t][u] = Stops
    /\ checkin[t][u] # {} => Mine(u, t) \/ (t = "catalog" /\ unlock[u] # Unset)

QuotaHolds ==
  GenerationPrice > 0 =>
    \A u \in Guests, w \in Nat : Cardinality(FreeOf(owned, u, w)) <= FreePerWeek

BooksHold ==
  \A u \in Guests :
    points[u] = Opening - (PriceOf(unlock[u]) + Charged(owned, u)) + Gained(reward, u)

TrailInv == TrailRows /\ DraftsHold /\ WalksHold /\ QuotaHolds /\ BooksHold

LEMMA TrailsAreFinite == IsFiniteSet(Drafts) /\ IsFiniteSet(TrailIds) /\ Unset \notin Nat /\ Unset \in Int
  <1>1. IsFiniteSet(Drafts)
    BY TrailsAssumption
  <1>2. IsFiniteSet({"catalog"} \cup Drafts)
    BY <1>1, FS_Singleton, FS_Union
  <1>. QED  BY <1>1, <1>2 DEF TrailIds, Unset

LEMMA ChargedIsInt ==
  ASSUME NEW own \in OwnedRows, NEW u
  PROVE  /\ IsFiniteSet(DraftsOf(own, u)) /\ Charged(own, u) \in Int
         /\ \A d \in Drafts : PricesOf(own)[d] = own[d].price /\ own[d].price \in Nat
  <1>1. \A d \in Drafts : own[d] \in OwnedRow
    BY DEF OwnedRows
  <1>2. \A d \in Drafts : PricesOf(own)[d] = own[d].price /\ own[d].price \in Nat
    BY <1>1 DEF PricesOf, OwnedRow
  <1>3. DraftsOf(own, u) \in SUBSET Drafts
    BY DEF DraftsOf
  <1>4. IsFiniteSet(DraftsOf(own, u))
    BY <1>3, TrailsAreFinite, FS_Subset
  <1>5. \A d \in DraftsOf(own, u) : PricesOf(own)[d] \in Int
    BY <1>2, <1>3
  <1>6. Charged(own, u) \in Int
    BY <1>4, <1>5, SumIsInt DEF Charged
  <1>. QED  BY <1>2, <1>4, <1>6

LEMMA GainedIsInt ==
  ASSUME NEW rew \in RewardRows, NEW u \in Guests
  PROVE  /\ IsFiniteSet(RewardedOf(rew, u)) /\ Gained(rew, u) \in Int
         /\ \A t \in RewardedOf(rew, u) : RewardsOf(rew, u)[t] = rew[t][u] /\ rew[t][u] \in Nat
  <1>1. RewardedOf(rew, u) \in SUBSET TrailIds
    BY DEF RewardedOf
  <1>2. IsFiniteSet(RewardedOf(rew, u))
    BY <1>1, TrailsAreFinite, FS_Subset
  <1>3. \A t \in RewardedOf(rew, u) : RewardsOf(rew, u)[t] = rew[t][u] /\ rew[t][u] \in Nat
    BY <1>1 DEF RewardRows, RewardedOf, RewardsOf
  <1>4. \A t \in RewardedOf(rew, u) : RewardsOf(rew, u)[t] \in Int
    BY <1>3
  <1>5. Gained(rew, u) \in Int
    BY <1>2, <1>4, SumIsInt DEF Gained
  <1>. QED  BY <1>2, <1>3, <1>5

\* A sum with one more.
LEMMA OneFurther ==
  ASSUME NEW S, IsFiniteSet(S), NEW w, NEW v, NEW y, y \notin S, v[y] \in Int,
         \A x \in S : w[x] \in Int /\ v[x] = w[x], NEW T, T = S \cup {y}
  PROVE  SumFunctionOnSet(v, T) = SumFunctionOnSet(w, S) + v[y] /\ SumFunctionOnSet(w, S) \in Int
  <1>1. SumFunctionOnSet(w, S) = SumFunctionOnSet(v, S)
    BY SumOfEqual
  <1>2. \A x \in S \cup {y} : v[x] \in Int
    OBVIOUS
  <1>3. SumFunctionOnSet(v, S \cup {y}) = v[y] + SumFunctionOnSet(v, S)
    BY <1>2, SumWith
  <1>4. SumFunctionOnSet(w, S) \in Int
    BY SumIsInt
  <1>. QED  BY <1>1, <1>3, <1>4

\* A completion is one more reward of its traveler, and of nobody else.
GainsOne(rew, new, u, gain) ==
  /\ new \in RewardRows /\ Gained(new, u) = Gained(rew, u) + gain
  /\ \A v \in Guests : v # u => Gained(new, v) = Gained(rew, v)

LEMMA GainOne ==
  ASSUME NEW rew \in RewardRows, NEW u \in Guests, NEW t \in TrailIds, NEW gain \in Nat,
         rew[t][u] = Unset
  PROVE  GainsOne(rew, [rew EXCEPT ![t][u] = gain], u, gain)
  <1>. PICK new : new = [rew EXCEPT ![t][u] = gain]
    OBVIOUS
  <1>1. /\ new \in RewardRows /\ new[t][u] = gain
        /\ \A s \in TrailIds, v \in Guests : s # t \/ v # u => new[s][v] = rew[s][v]
    BY DEF RewardRows
  <1>2. gain # Unset
    BY TrailsAreFinite
  <1>3. RewardedOf(new, u) = RewardedOf(rew, u) \cup {t} /\ t \notin RewardedOf(rew, u)
    BY <1>1, <1>2 DEF RewardedOf
  <1>4. PICK w, v : w = RewardsOf(rew, u) /\ v = RewardsOf(new, u)
    OBVIOUS
  <1>5. PICK S : S = RewardedOf(rew, u)
    OBVIOUS
  <1>6. v[t] = gain /\ \A x \in S : w[x] \in Int /\ v[x] = w[x]
    <2>1. \A x \in S : x \in TrailIds /\ x # t
      BY <1>3, <1>5 DEF RewardedOf
    <2>2. \A x \in S : w[x] = rew[x][u] /\ rew[x][u] \in Nat
      BY <1>4, <1>5, GainedIsInt
    <2>3. \A x \in TrailIds : v[x] = new[x][u]
      BY <1>4 DEF RewardsOf
    <2>. QED  BY <1>1, <2>1, <2>2, <2>3
  <1>7. SumFunctionOnSet(v, S \cup {t}) = SumFunctionOnSet(w, S) + v[t]
    <2>1. IsFiniteSet(S) /\ t \notin S /\ v[t] \in Int
      BY <1>3, <1>5, <1>6, GainedIsInt
    <2>. QED  BY <1>6, <2>1, OneFurther
  <1>8. Gained(new, u) = Gained(rew, u) + gain
    BY <1>3, <1>4, <1>5, <1>6, <1>7 DEF Gained
  <1>9. ASSUME NEW x \in Guests, x # u  PROVE Gained(new, x) = Gained(rew, x)
    <2>1. RewardedOf(new, x) = RewardedOf(rew, x)
      BY <1>1, <1>9 DEF RewardedOf
    <2>2. RewardsOf(new, x) = RewardsOf(rew, x)
      BY <1>1, <1>9 DEF RewardsOf
    <2>. QED  BY <2>1, <2>2 DEF Gained
  <1>. QED  BY <1>1, <1>8, <1>9 DEF GainsOne

\* A new trail of a traveler is one more charge, and counts against the week's
\* quota when it is free.
ChargesOne(own, new, u, price) ==
  /\ new \in OwnedRows /\ Charged(new, u) = Charged(own, u) + price
  /\ \A v \in Guests : v # u => Charged(new, v) = Charged(own, v)

LEMMA ChargeOne ==
  ASSUME NEW own \in OwnedRows, NEW u \in Guests, NEW d \in Drafts, own[d] = NotMade,
         NEW made1 \in OwnedRow, made1.by = u
  PROVE  ChargesOne(own, [own EXCEPT ![d] = made1], u, made1.price)
  <1>. PICK new : new = [own EXCEPT ![d] = made1]
    OBVIOUS
  <1>1. /\ new \in OwnedRows /\ new[d] = made1 /\ \A x \in Drafts : x # d => new[x] = own[x]
    BY DEF OwnedRows
  <1>2. own[d].by = "nobody" /\ "nobody" \notin Guests
    BY TrailsAssumption DEF NotMade
  <1>3. DraftsOf(new, u) = DraftsOf(own, u) \cup {d} /\ d \notin DraftsOf(own, u)
    BY <1>1, <1>2 DEF DraftsOf
  <1>4. PICK w, v : w = PricesOf(own) /\ v = PricesOf(new)
    OBVIOUS
  <1>5. PICK S : S = DraftsOf(own, u)
    OBVIOUS
  <1>6. v[d] = made1.price /\ v[d] \in Int /\ \A x \in S : w[x] \in Int /\ v[x] = w[x]
    <2>1. \A x \in S : x \in Drafts /\ x # d
      BY <1>3, <1>5 DEF DraftsOf
    <2>2. \A x \in Drafts : w[x] = own[x].price /\ own[x].price \in Nat
      BY <1>4, ChargedIsInt
    <2>3. \A x \in Drafts : v[x] = new[x].price /\ new[x].price \in Nat
      BY <1>1, <1>4, ChargedIsInt
    <2>. QED  BY <1>1, <2>1, <2>2, <2>3
  <1>7. SumFunctionOnSet(v, S \cup {d}) = SumFunctionOnSet(w, S) + v[d]
    <2>1. IsFiniteSet(S) /\ d \notin S
      BY <1>3, <1>5, ChargedIsInt
    <2>. QED  BY <1>6, <2>1, OneFurther
  <1>8. Charged(new, u) = Charged(own, u) + made1.price
    BY <1>3, <1>4, <1>5, <1>6, <1>7 DEF Charged
  <1>9. ASSUME NEW x \in Guests, x # u  PROVE Charged(new, x) = Charged(own, x)
    <2>1. DraftsOf(new, x) = DraftsOf(own, x)
      BY <1>1, <1>2, <1>9 DEF DraftsOf
    <2>2. PICK T : T = DraftsOf(own, x)
      OBVIOUS
    <2>3. IsFiniteSet(T) /\ \A y \in T : y \in Drafts /\ y # d
      BY <1>2, <1>9, <2>2, ChargedIsInt DEF DraftsOf
    <2>4. \A y \in T : w[y] = v[y]
      BY <1>1, <1>4, <2>3 DEF PricesOf
    <2>5. SumFunctionOnSet(w, T) = SumFunctionOnSet(v, T)
      BY <2>3, <2>4, SumOfEqual
    <2>. QED  BY <1>4, <2>1, <2>2, <2>5 DEF Charged
  <1>. QED  BY <1>1, <1>8, <1>9 DEF ChargesOne

LEMMA PercentIsNat ==
  ASSUME NEW x \in Nat, NEW y \in Nat
  PROVE  (x * y + 50) \div 100 \in Nat
  <1>1. PICK n : n = x * y
    OBVIOUS
  <1>2. n \in Nat
    BY <1>1
  <1>. QED  BY <1>1, <1>2

LEMMA PricesAreNat ==
  ASSUME catalog \in CatalogRow
  PROVE  UnlockPrice \in Nat /\ \A t \in TrailIds : Rewarded(t) \in Nat
  <1>1. catalog.tier \in Tiers /\ catalog.price \in Nat \cup {Unset}
    BY DEF CatalogRow
  <1>2. \A price \in Nat : Priced(price) \in Nat
    <2>. SUFFICES ASSUME NEW price \in Nat PROVE Priced(price) \in Nat
      OBVIOUS
    <2>1. PICK n : n = (price * (100 - Discount) + 50) \div 100
      OBVIOUS
    <2>2. n \in Nat
      <3>1. 100 - Discount \in Nat
        BY TrailsAssumption
      <3>. QED  BY <2>1, <3>1, PercentIsNat
    <2>3. Max({1, n}) = IF 1 >= n THEN 1 ELSE n
      <3>1. 1 \in Int /\ n \in Int
        BY <2>2
      <3>. QED  BY <3>1, GreaterOfTwo
    <2>. QED  BY <2>1, <2>2, <2>3 DEF Priced
  <1>3. SettingPrice[catalog.tier] \in Nat
    BY <1>1, TrailsAssumption
  <1>4. UnlockPrice \in Nat
    <2>1. (IF catalog.price = Unset THEN SettingPrice[catalog.tier] ELSE catalog.price) \in Nat
      BY <1>1, <1>3
    <2>. QED  BY <1>2, <2>1 DEF UnlockPrice
  <1>5. ASSUME NEW t \in TrailIds  PROVE Rewarded(t) \in Nat
    <2>1. Reward[TierOf(t)] \in Nat
      BY <1>1, TrailsAssumption DEF TierOf
    <2>2. 100 + Bonus \in Nat
      BY TrailsAssumption
    <2>. QED  BY <2>1, <2>2, PercentIsNat DEF Rewarded
  <1>. QED  BY <1>4, <1>5

\* The books, once the traveler and the sums of everybody are known.
OnlyBooks(u, paid, charge, gain) ==
  /\ points' = [points EXCEPT ![u] = points[u] - paid - charge + gain]
  /\ PriceOf(unlock'[u]) = PriceOf(unlock[u]) + paid
  /\ Charged(owned', u) = Charged(owned, u) + charge
  /\ Gained(reward', u) = Gained(reward, u) + gain
  /\ \A v \in Guests : v # u => /\ unlock'[v] = unlock[v]
                                /\ Charged(owned', v) = Charged(owned, v)
                                /\ Gained(reward', v) = Gained(reward, v)

LEMMA BooksAfter ==
  ASSUME TrailInv, TrailRows', NEW u \in Guests, NEW paid \in Int, NEW charge \in Int, NEW gain \in Int,
         OnlyBooks(u, paid, charge, gain)
  PROVE  BooksHold'
  <1>. USE DEF OnlyBooks
  <1>1. \A v \in Guests : PriceOf(unlock[v]) \in Int
    BY TrailsAreFinite DEF TrailInv, TrailRows, PriceOf
  <1>2. \A v \in Guests : Charged(owned, v) \in Int /\ Gained(reward, v) \in Int
    BY ChargedIsInt, GainedIsInt DEF TrailInv, TrailRows
  <1>3. points \in [Guests -> Int] /\ Opening \in Int
    BY TrailsAssumption DEF TrailInv, TrailRows
  <1>4. \A v \in Guests :
          points[v] = Opening - (PriceOf(unlock[v]) + Charged(owned, v)) + Gained(reward, v)
    BY DEF TrailInv, BooksHold
  <1>5. ASSUME NEW v \in Guests
        PROVE points'[v] = Opening - (PriceOf(unlock'[v]) + Charged(owned', v)) + Gained(reward', v)
    <2>1. CASE v = u
      <3>1. points'[u] = points[u] - paid - charge + gain
        BY <1>3
      <3>2. PICK a, b, c \in Int : a = PriceOf(unlock[u]) /\ b = Charged(owned, u) /\ c = Gained(reward, u)
        BY <1>1, <1>2
      <3>3. points[u] = Opening - (a + b) + c
        BY <1>4, <3>2
      <3>4. points'[u] = Opening - ((a + paid) + (b + charge)) + (c + gain)
        BY <1>3, <3>1, <3>3
      <3>. QED  BY <2>1, <3>2, <3>4
    <2>2. CASE v # u
      <3>1. points'[v] = points[v]
        BY <1>3, <2>2
      <3>. QED  BY <1>4, <2>2, <3>1
    <2>. QED  BY <2>1, <2>2
  <1>. QED  BY <1>5 DEF BooksHold

LEMMA UnlockSteps ==
  ASSUME TrailInv, NEW u \in Guests, NEW k \in Keys, Unlock(u, k)
  PROVE  TrailInv'
  <1>1. UNCHANGED <<catalog, checkin, reward, owned, draft, week>>
    BY DEF Unlock
  <1>2. PICK price \in Nat : price = UnlockPrice
    BY PricesAreNat DEF TrailInv, TrailRows
  <1>3. \/ UNCHANGED <<unlock, points>>
        \/ /\ unlock[u] = Unset /\ unlock' = [unlock EXCEPT ![u] = price]
           /\ points' = [points EXCEPT ![u] = @ - price]
    BY <1>2 DEF Unlock
  <1>4. CASE UNCHANGED <<unlock, points>>
    BY <1>1, <1>4 DEF TrailInv, TrailRows, DraftsHold, WalksHold, QuotaHolds, BooksHold, Mine
  <1>5. CASE unlock[u] = Unset /\ unlock' = [unlock EXCEPT ![u] = price]
             /\ points' = [points EXCEPT ![u] = @ - price]
    <2>1. /\ unlock' \in [Guests -> Nat \cup {Unset}] /\ unlock'[u] = price /\ price # Unset
          /\ \A v \in Guests : v # u => unlock'[v] = unlock[v]
      BY <1>5, TrailsAreFinite DEF TrailInv, TrailRows
    <2>2. points \in [Guests -> Int] /\ price \in Int /\ 0 \in Int
      BY DEF TrailInv, TrailRows
    <2>3. PICK sum \in Int : sum = points[u] - price /\ sum = points[u] - price - 0 + 0
      BY <2>2
    <2>9. points' \in [Guests -> Int] /\ points' = [points EXCEPT ![u] = sum]
      BY <1>5, <2>2, <2>3
    <2>4. TrailRows'
      BY <1>1, <2>1, <2>9 DEF TrailInv, TrailRows
    <2>5. PriceOf(unlock'[u]) = PriceOf(unlock[u]) + price
      BY <1>5, <2>1 DEF PriceOf
    <2>6. \A v \in Guests : Charged(owned, v) = Charged(owned, v) + 0 /\ Gained(reward, v) = Gained(reward, v) + 0
      BY ChargedIsInt, GainedIsInt DEF TrailInv, TrailRows
    <2>7. BooksHold'
      <3>1. points' = [points EXCEPT ![u] = points[u] - price - 0 + 0]
        BY <2>3, <2>9
      <3>2. OnlyBooks(u, price, 0, 0)
        BY <1>1, <2>1, <2>5, <2>6, <3>1 DEF OnlyBooks
      <3>. QED  BY <2>2, <2>4, <3>2, BooksAfter
    <2>8. WalksHold'
      <3>1. \A v \in Guests : unlock[v] # Unset => unlock'[v] # Unset
        BY <2>1
      <3>. QED  BY <1>1, <3>1 DEF TrailInv, WalksHold, Mine
    <2>. QED  BY <1>1, <2>4, <2>7, <2>8 DEF TrailInv, DraftsHold, QuotaHolds
  <1>. QED  BY <1>3, <1>4, <1>5

LEMMA CheckInSteps ==
  ASSUME TrailInv, NEW u \in Guests, NEW t \in TrailIds, NEW s \in Stops, CheckIn(u, t, s)
  PROVE  TrailInv'
  <1>1. UNCHANGED <<catalog, unlock, owned, draft, week>> /\ MayCheckIn(u, t)
    BY DEF CheckIn
  <1>2. PICK done : done = checkin[t][u] \cup {s}
    OBVIOUS
  <1>3. /\ checkin \in [TrailIds -> [Guests -> SUBSET Stops]] /\ reward \in RewardRows
        /\ checkin[t][u] \in SUBSET Stops /\ points \in [Guests -> Int]
    BY DEF TrailInv, TrailRows
  <1>4. checkin' = [checkin EXCEPT ![t][u] = done] /\ done \in SUBSET Stops
    BY <1>2, <1>3 DEF CheckIn
  <1>5. /\ checkin' \in [TrailIds -> [Guests -> SUBSET Stops]] /\ checkin'[t][u] = done
        /\ \A x \in TrailIds, v \in Guests : x # t \/ v # u => checkin'[x][v] = checkin[x][v]
    BY <1>3, <1>4
  <1>6. Mine(u, t) \/ (t = "catalog" /\ unlock[u] # Unset)
    BY <1>1 DEF MayCheckIn
  <1>7. \A x \in TrailIds, v \in Guests :
          checkin'[x][v] # {} => Mine(v, x)' \/ (x = "catalog" /\ unlock'[v] # Unset)
    BY <1>1, <1>5, <1>6 DEF TrailInv, WalksHold, Mine
  <1>8. CASE reward[t][u] = Unset /\ done = Stops /\ reward' = [reward EXCEPT ![t][u] = Rewarded(t)]
             /\ points' = [points EXCEPT ![u] = @ + Rewarded(t)]
    <2>1. PICK gain \in Nat : gain = Rewarded(t)
      BY PricesAreNat DEF TrailInv, TrailRows
    <2>2. /\ reward' \in RewardRows /\ Gained(reward', u) = Gained(reward, u) + gain
          /\ \A v \in Guests : v # u => Gained(reward', v) = Gained(reward, v)
      <3>1. GainsOne(reward, [reward EXCEPT ![t][u] = gain], u, gain)
        BY <1>3, <1>8, GainOne
      <3>2. reward' = [reward EXCEPT ![t][u] = gain]
        BY <1>8, <2>1
      <3>. QED  BY <3>1, <3>2 DEF GainsOne
    <2>8. PICK sum \in Int : sum = points[u] + gain /\ sum = points[u] - 0 - 0 + gain
      BY <1>3, <2>1
    <2>3. points' = [points EXCEPT ![u] = sum] /\ points' \in [Guests -> Int]
      BY <1>3, <1>8, <2>1, <2>8
    <2>4. TrailRows'
      BY <1>1, <1>5, <2>2, <2>3 DEF TrailInv, TrailRows
    <2>5. PriceOf(unlock[u]) = PriceOf(unlock[u]) + 0 /\ Charged(owned, u) = Charged(owned, u) + 0
          /\ gain \in Int /\ 0 \in Int
      BY TrailsAreFinite, ChargedIsInt DEF TrailInv, TrailRows, PriceOf
    <2>6. BooksHold'
      <3>1. points' = [points EXCEPT ![u] = points[u] - 0 - 0 + gain]
        BY <2>3, <2>8
      <3>2. OnlyBooks(u, 0, 0, gain)
        BY <1>1, <2>2, <2>5, <3>1 DEF OnlyBooks
      <3>. QED  BY <2>4, <2>5, <3>2, BooksAfter
    <2>7. WalksHold'
      <3>1. reward'[t][u] # Unset /\ \A x \in TrailIds, v \in Guests : x # t \/ v # u => reward'[x][v] = reward[x][v]
        BY <1>3, <1>8, <2>1, TrailsAreFinite DEF RewardRows
      <3>2. \A x \in TrailIds, v \in Guests : reward'[x][v] # Unset <=> checkin'[x][v] = Stops
        BY <1>5, <1>8, <3>1 DEF TrailInv, WalksHold
      <3>. QED  BY <1>7, <3>2 DEF WalksHold
    <2>. QED  BY <1>1, <2>4, <2>6, <2>7 DEF TrailInv, DraftsHold, QuotaHolds
  <1>9. CASE ~(reward[t][u] = Unset /\ done = Stops) /\ UNCHANGED <<reward, points>>
    <2>1. TrailRows'
      BY <1>1, <1>5, <1>9 DEF TrailInv, TrailRows
    <2>2. done = Stops <=> checkin[t][u] = Stops
      <3>1. checkin[t][u] = Stops => done = Stops
        BY <1>2
      <3>. QED  BY <1>9, <3>1 DEF TrailInv, WalksHold
    <2>3. WalksHold'
      <3>1. \A x \in TrailIds, v \in Guests : reward'[x][v] # Unset <=> checkin'[x][v] = Stops
        BY <1>5, <1>9, <2>2 DEF TrailInv, WalksHold
      <3>. QED  BY <1>7, <3>1 DEF WalksHold
    <2>. QED  BY <1>1, <1>9, <2>1, <2>3 DEF TrailInv, DraftsHold, QuotaHolds, BooksHold
  <1>. QED  BY <1>2, <1>8, <1>9 DEF CheckIn, Completes

LEMMA GenerateTrailSteps ==
  ASSUME TrailInv, NEW d \in Drafts, GenerateTrail(d)
  PROVE  TrailInv'
  <1>1. UNCHANGED <<catalog, unlock, checkin, reward, week>> /\ draft[d].step = "begun"
        /\ draft' = [draft EXCEPT ![d].step = "over"]
    BY DEF GenerateTrail, EndDraft
  <1>2. draft \in [Drafts -> DraftRow] /\ draft[d] \in DraftRow
    BY DEF TrailInv, TrailRows
  <1>3. PICK over : over = [draft[d] EXCEPT !.step = "over"]
    OBVIOUS
  <1>4. over \in DraftRow /\ over.step = "over" /\ draft' = [draft EXCEPT ![d] = over]
    BY <1>1, <1>2, <1>3 DEF DraftRow
  <1>5. /\ draft' \in [Drafts -> DraftRow] /\ draft'[d].step = "over"
        /\ \A x \in Drafts : x # d => draft'[x] = draft[x]
    BY <1>2, <1>4
  <1>6. PICK u \in Guests : u = draft[d].by
    BY <1>1 DEF TrailInv, DraftsHold
  <1>7. PICK price : price = IF IsFree(u) THEN 0 ELSE GenerationPrice
    OBVIOUS
  <1>8. price \in Nat /\ (GenerationPrice > 0 /\ price = 0 => IsFree(u))
    BY <1>7, TrailsAssumption
  <1>9. PICK own : own = [by |-> u, began |-> draft[d].began, made |-> week, price |-> price]
    OBVIOUS
  <1>10. own \in OwnedRow /\ own.by = u /\ own.price = price /\ own.made = week
    BY <1>2, <1>8, <1>9 DEF OwnedRow, DraftRow, TrailInv, TrailRows
  <1>11. \/ UNCHANGED <<owned, points>>
         \/ owned' = [owned EXCEPT ![d] = own] /\ points' = [points EXCEPT ![u] = @ - price]
    BY <1>6, <1>7, <1>9 DEF GenerateTrail
  <1>12. owned[d] = NotMade /\ owned \in OwnedRows /\ points \in [Guests -> Int]
    BY <1>1 DEF TrailInv, DraftsHold, TrailRows
  <1>13. CASE UNCHANGED <<owned, points>>
    <2>1. TrailRows'
      BY <1>1, <1>5, <1>13 DEF TrailInv, TrailRows
    <2>2. DraftsHold'
      BY <1>5, <1>13 DEF TrailInv, DraftsHold
    <2>. QED  BY <1>1, <1>13, <2>1, <2>2 DEF TrailInv, WalksHold, QuotaHolds, BooksHold, Mine
  <1>14. CASE owned' = [owned EXCEPT ![d] = own] /\ points' = [points EXCEPT ![u] = @ - price]
    <2>1. /\ owned' \in OwnedRows /\ Charged(owned', u) = Charged(owned, u) + price
          /\ \A v \in Guests : v # u => Charged(owned', v) = Charged(owned, v)
      <3>1. ChargesOne(owned, [owned EXCEPT ![d] = own], u, own.price)
        BY <1>10, <1>12, ChargeOne
      <3>2. owned' = [owned EXCEPT ![d] = own]
        BY <1>14
      <3>. QED  BY <1>10, <3>1, <3>2 DEF ChargesOne
    <2>10. PICK sum \in Int : sum = points[u] - price /\ sum = points[u] - 0 - price + 0
      BY <1>8, <1>12
    <2>2. points' = [points EXCEPT ![u] = sum] /\ points' \in [Guests -> Int]
      BY <1>8, <1>12, <1>14, <2>10
    <2>3. TrailRows'
      BY <1>1, <1>5, <2>1, <2>2 DEF TrailInv, TrailRows
    <2>4. PriceOf(unlock[u]) = PriceOf(unlock[u]) + 0 /\ Gained(reward, u) = Gained(reward, u) + 0
          /\ price \in Int /\ 0 \in Int
      BY <1>8, TrailsAreFinite, GainedIsInt DEF TrailInv, TrailRows, PriceOf
    <2>5. BooksHold'
      <3>1. points' = [points EXCEPT ![u] = points[u] - 0 - price + 0]
        BY <2>2, <2>10
      <3>2. OnlyBooks(u, 0, price, 0)
        BY <1>1, <2>1, <2>4, <3>1 DEF OnlyBooks
      <3>. QED  BY <2>3, <2>4, <3>2, BooksAfter
    <2>6. \A x \in Drafts : owned'[x] = IF x = d THEN own ELSE owned[x]
      BY <1>12, <1>14 DEF OwnedRows
    <2>7. DraftsHold'
      BY <1>5, <2>6 DEF TrailInv, DraftsHold
    <2>8. WalksHold'
      <3>1. owned[d].by = "nobody" /\ "nobody" \notin Guests
        BY <1>12, TrailsAssumption DEF NotMade
      <3>2. \A v \in Guests, t \in TrailIds : Mine(v, t) => Mine(v, t)'
        BY <2>6, <3>1 DEF Mine
      <3>. QED  BY <1>1, <3>2 DEF TrailInv, WalksHold
    <2>9. QuotaHolds'
      <3>. SUFFICES ASSUME GenerationPrice > 0, NEW v \in Guests, NEW w \in Nat
                    PROVE  Cardinality(FreeOf(owned', v, w)) <= FreePerWeek
        BY DEF QuotaHolds
      <3>1. Cardinality(FreeOf(owned, v, w)) <= FreePerWeek
        BY DEF TrailInv, QuotaHolds
      <3>2. CASE v = u /\ price = 0 /\ own.began = w /\ own.made = w
        <4>1. PICK before : before = {x \in Drafts : owned[x].by = u /\ owned[x].began = week}
          OBVIOUS
        <4>2. Cardinality(before) < FreePerWeek /\ IsFiniteSet(before) /\ w = week
          <5>1. before \in SUBSET Drafts
            BY <4>1
          <5>. QED  BY <1>8, <1>10, <3>2, <4>1, <5>1, TrailsAreFinite, FS_Subset DEF IsFree, UsedThisWeek
        <4>3. FreeOf(owned, u, w) \in SUBSET before /\ d \notin FreeOf(owned, u, w)
          <5>1. owned[d].by = "nobody" /\ "nobody" \notin Guests
            BY <1>12, TrailsAssumption DEF NotMade
          <5>. QED  BY <4>1, <4>2, <5>1 DEF FreeOf
        <4>4. FreeOf(owned', u, w) = FreeOf(owned, u, w) \cup {d}
          BY <1>10, <2>6, <3>2 DEF FreeOf
        <4>5. PICK free : free = FreeOf(owned, u, w)
          OBVIOUS
        <4>6. IsFiniteSet(free) /\ Cardinality(free) <= Cardinality(before) /\ d \notin free
          BY <4>2, <4>3, <4>5, FS_Subset
        <4>7. Cardinality(free) \in Nat /\ Cardinality(before) \in Nat
          BY <4>2, <4>6, FS_CardinalityType
        <4>8. Cardinality(free \cup {d}) = Cardinality(free) + 1
          BY <4>6, FS_AddElement
        <4>9. Cardinality(free \cup {d}) <= FreePerWeek
          BY <4>2, <4>6, <4>7, <4>8, TrailsAssumption
        <4>. QED  BY <3>2, <4>4, <4>5, <4>9
      <3>3. CASE ~(v = u /\ price = 0 /\ own.began = w /\ own.made = w)
        <4>1. owned[d].by = "nobody" /\ "nobody" \notin Guests
          BY <1>12, TrailsAssumption DEF NotMade
        <4>2. FreeOf(owned', v, w) = FreeOf(owned, v, w)
          BY <1>10, <2>6, <3>3, <4>1 DEF FreeOf
        <4>. QED  BY <3>1, <4>2
      <3>. QED  BY <3>2, <3>3
    <2>. QED  BY <2>3, <2>5, <2>7, <2>8, <2>9 DEF TrailInv
  <1>. QED  BY <1>11, <1>13, <1>14

\* Nothing but the request of a trail that is not made yet.
LEMMA DraftMoves ==
  ASSUME TrailInv, NEW d \in Drafts, draft[d].step # "over", NEW new \in DraftRow,
         new.step \in {"prepared", "begun"} => new.by \in Guests,
         draft' = [draft EXCEPT ![d] = new],
         UNCHANGED <<catalog, unlock, checkin, reward, owned, points, week>>
  PROVE  TrailInv'
  <1>1. /\ draft' \in [Drafts -> DraftRow] /\ draft'[d] = new
        /\ \A x \in Drafts : x # d => draft'[x] = draft[x]
    BY DEF TrailInv, TrailRows
  <1>2. TrailRows'
    BY <1>1 DEF TrailInv, TrailRows
  <1>3. DraftsHold'
    BY <1>1 DEF TrailInv, DraftsHold
  <1>. QED  BY <1>2, <1>3 DEF TrailInv, WalksHold, QuotaHolds, BooksHold, Mine

LEMMA DraftSteps ==
  ASSUME TrailInv, NEW d \in Drafts, DraftStep(d)
  PROVE  TrailInv'
  <1>1. PICK old : old = draft[d]
    OBVIOUS
  <1>2. old \in DraftRow /\ week \in Nat
    BY <1>1 DEF TrailInv, TrailRows
  <1>3. ASSUME NEW u \in Guests, NEW k \in Keys, Prepare(d, u, k)  PROVE TrailInv'
    <2>1. PICK new : new = [step |-> "prepared", by |-> u, key |-> k, week |-> week, began |-> 0]
      OBVIOUS
    <2>2. new \in DraftRow /\ new.by \in Guests
      BY <1>2, <2>1 DEF DraftRow
    <2>3. draft' = [draft EXCEPT ![d] = new] /\ draft[d].step # "over"
          /\ UNCHANGED <<catalog, unlock, checkin, reward, owned, points, week>>
      BY <1>3, <2>1 DEF Prepare, NoDraft
    <2>. QED  BY <2>2, <2>3, DraftMoves
  <1>4. CASE BeginGeneration(d)
    <2>1. PICK new : new = [old EXCEPT !.step = "begun", !.began = week]
      OBVIOUS
    <2>2. new \in DraftRow /\ new.by = old.by
      BY <1>2, <2>1 DEF DraftRow
    <2>3. draft' = [draft EXCEPT ![d] = new] /\ draft[d].step = "prepared"
          /\ UNCHANGED <<catalog, unlock, checkin, reward, owned, points, week>>
      BY <1>1, <1>4, <2>1 DEF BeginGeneration
    <2>4. new.by \in Guests
      BY <1>1, <2>2, <2>3 DEF TrailInv, DraftsHold
    <2>. QED  BY <2>2, <2>3, <2>4, DraftMoves
  <1>5. CASE AbandonDraft(d)
    <2>1. PICK new : new = [old EXCEPT !.step = "over"]
      OBVIOUS
    <2>2. new \in DraftRow /\ new.step = "over"
      BY <1>2, <2>1 DEF DraftRow
    <2>3. draft' = [draft EXCEPT ![d] = new] /\ draft[d].step # "over"
          /\ UNCHANGED <<catalog, unlock, checkin, reward, owned, points, week>>
      BY <1>1, <1>5, <2>1 DEF AbandonDraft, EndDraft
    <2>. QED  BY <2>2, <2>3, DraftMoves
  <1>. QED  BY <1>3, <1>4, <1>5, GenerateTrailSteps DEF DraftStep

LEMMA EditSteps ==
  ASSUME TrailInv, NEW new \in CatalogRow, EditCatalog(new)
  PROVE  TrailInv'
BY DEF EditCatalog, TrailInv, TrailRows, DraftsHold, WalksHold, QuotaHolds, BooksHold, Mine

LEMMA AdminSteps ==
  ASSUME TrailInv, TrailAdmin
  PROVE  TrailInv'
  <1>1. PICK old : old = catalog /\ old \in CatalogRow
    BY DEF TrailInv, TrailRows
  <1>2. ASSUME NEW status \in {"pending_review", "published", "rejected", "retired"},
               UpdateTrailStatus(status)
        PROVE  TrailInv'
    <2>1. [old EXCEPT !.status = status] \in CatalogRow
      BY <1>1 DEF CatalogRow
    <2>. QED  BY <1>1, <1>2, <2>1, EditSteps DEF UpdateTrailStatus
  <1>3. ASSUME NEW tier \in Tiers, NEW price \in Prices \cup {Unset}, PatchTier(tier, price)
        PROVE  TrailInv'
    <2>1. PICK posted : posted = IF ~Points(tier) THEN Unset
                               ELSE IF price # Unset THEN price
                               ELSE IF tier = old.tier /\ old.price # Unset THEN old.price
                               ELSE SettingPrice[tier]
      OBVIOUS
    <2>2. posted \in Nat \cup {Unset}
      <3>1. SettingPrice[tier] \in Nat /\ price \in Nat \cup {Unset}
        BY TrailsAssumption
      <3>2. old.price \in Nat \cup {Unset}
        BY <1>1 DEF CatalogRow
      <3>. QED  BY <2>1, <3>1, <3>2
    <2>3. PICK new : new = [old EXCEPT !.tier = tier, !.price = posted]
      OBVIOUS
    <2>4. new \in CatalogRow
      BY <1>1, <2>2, <2>3 DEF CatalogRow
    <2>5. EditCatalog(new)
      BY <1>1, <1>3, <2>1, <2>3 DEF PatchTier
    <2>. QED  BY <2>4, <2>5, EditSteps
  <1>4. ASSUME NEW dates \in {"none", "open", "past"}, PatchDates(dates)  PROVE TrailInv'
    <2>1. [old EXCEPT !.dates = dates] \in CatalogRow
      BY <1>1 DEF CatalogRow
    <2>. QED  BY <1>1, <1>4, <2>1, EditSteps DEF PatchDates
  <1>. QED  BY <1>2, <1>3, <1>4 DEF TrailAdmin

LEMMA PaidIsCharged ==
  ASSUME NEW u
  PROVE  MapThenSumSet(LAMBDA d : owned[d].price, {d \in Drafts : owned[d].by = u}) = Charged(owned, u)
  BY ZenonT(40) DEF Charged, PricesOf, DraftsOf, MapThenSumSet, MapThenFoldSet, SumFunctionOnSet,
     FoldFunctionOnSet

LEMMA EarnedIsGained ==
  ASSUME NEW u
  PROVE  Earned(u) = Gained(reward, u)
  BY ZenonT(40) DEF Earned, Gained, RewardsOf, RewardedOf, MapThenSumSet, MapThenFoldSet,
     SumFunctionOnSet, FoldFunctionOnSet

LEMMA TrailsStart == TrailInit => TrailInv
  <1>. SUFFICES ASSUME TrailInit PROVE TrailInv
    OBVIOUS
  <1>1. /\ catalog = [status |-> "draft", tier |-> "starter", price |-> Unset, dates |-> "none"]
        /\ unlock = [u \in Guests |-> Unset]
        /\ checkin = [t \in TrailIds |-> [u \in Guests |-> {}]]
        /\ reward = [t \in TrailIds |-> [u \in Guests |-> Unset]]
        /\ owned = [d \in Drafts |-> NotMade] /\ draft = [d \in Drafts |-> NoDraft]
        /\ points = [u \in Guests |-> Opening] /\ week = 1
    BY DEF TrailInit
  <1>2. "starter" \in Tiers /\ Stops # {} /\ "nobody" \notin Guests /\ Opening \in Int /\ FreePerWeek \in Nat
    BY TrailsAssumption
  <1>3. TrailRows
    <2>1. catalog \in CatalogRow
      BY <1>1, <1>2 DEF CatalogRow
    <2>2. NotMade \in OwnedRow /\ NoDraft \in DraftRow
      BY DEF NotMade, NoDraft, OwnedRow, DraftRow
    <2>3. owned \in OwnedRows /\ draft \in [Drafts -> DraftRow]
      BY <1>1, <2>2 DEF OwnedRows
    <2>4. reward \in RewardRows /\ unlock \in [Guests -> Nat \cup {Unset}]
      BY <1>1 DEF RewardRows
    <2>5. checkin \in [TrailIds -> [Guests -> SUBSET Stops]] /\ points \in [Guests -> Int] /\ week \in Nat
      BY <1>1, <1>2
    <2>. QED  BY <2>1, <2>3, <2>4, <2>5 DEF TrailRows
  <1>4. DraftsHold
    BY <1>1 DEF DraftsHold, NoDraft
  <1>5. WalksHold
    BY <1>1, <1>2 DEF WalksHold
  <1>6. \A d \in Drafts : owned[d].by = "nobody"
    BY <1>1 DEF NotMade
  <1>7. QuotaHolds
    <2>1. \A u \in Guests, w \in Nat : FreeOf(owned, u, w) = {}
      BY <1>2, <1>6 DEF FreeOf
    <2>2. Cardinality({}) = 0
      BY FS_EmptySet
    <2>. QED  BY <1>2, <2>1, <2>2 DEF QuotaHolds
  <1>8. BooksHold
    <2>. SUFFICES ASSUME NEW u \in Guests
                  PROVE points[u] = Opening - (PriceOf(unlock[u]) + Charged(owned, u)) + Gained(reward, u)
      BY DEF BooksHold
    <2>1. DraftsOf(owned, u) = {} /\ RewardedOf(reward, u) = {}
      BY <1>1, <1>2, <1>6 DEF DraftsOf, RewardedOf
    <2>2. Charged(owned, u) = 0 /\ Gained(reward, u) = 0
      BY <2>1, SumOfEmpty DEF Charged, Gained
    <2>3. PriceOf(unlock[u]) = 0 /\ points[u] = Opening
      BY <1>1 DEF PriceOf
    <2>. QED  BY <1>2, <2>2, <2>3
  <1>. QED  BY <1>3, <1>4, <1>5, <1>7, <1>8 DEF TrailInv

LEMMA TrailInvStays == TrailInv /\ [TrailNext]_trailVars => TrailInv'
  <1>1. TrailInv /\ [TrailNext]_trailVars => TrailInv'
    <2>. SUFFICES ASSUME TrailInv, [TrailNext]_trailVars PROVE TrailInv'
      OBVIOUS
    <2>1. CASE UNCHANGED trailVars
      BY <2>1 DEF trailVars, TrailInv, TrailRows, DraftsHold, WalksHold, QuotaHolds, BooksHold, Mine
    <2>2. ASSUME NEW u \in Guests, TravelerOnTrail(u)  PROVE TrailInv'
      BY <2>2, UnlockSteps, CheckInSteps DEF TravelerOnTrail
    <2>3. ASSUME NEW u \in Guests, ReachLevel(u)  PROVE TrailInv'
      BY <2>3 DEF ReachLevel, TrailInv, TrailRows, DraftsHold, WalksHold, QuotaHolds, BooksHold, Mine
    <2>4. ASSUME NEW reigning \in SUBSET {"discount", "bonus"}, NextTrailWeek(reigning)  PROVE TrailInv'
      <3>1. week' \in Nat /\ UNCHANGED <<catalog, unlock, checkin, reward, owned, draft, points>>
        BY <2>4 DEF NextTrailWeek, TrailInv, TrailRows
      <3>. QED  BY <3>1 DEF TrailInv, TrailRows, DraftsHold, WalksHold, QuotaHolds, BooksHold, Mine
    <2>. QED  BY <2>1, <2>2, <2>3, <2>4, DraftSteps, AdminSteps DEF TrailNext
  <1>. QED  BY <1>1

\* The rows explain every point, a reward was earned stop by stop, and no week
\* gives more free trails than its quota (trails/progress.ts, trails/personal.ts).
THEOREM TrailBooksCorrect == TrailWalkSpec => []TrailBooksBalance
  <1>1. TrailInv => TrailBooksBalance
    <2>. SUFFICES ASSUME TrailInv, NEW u \in Guests
                  PROVE  /\ points[u] = Opening - Paid(u) + Earned(u)
                         /\ \A t \in TrailIds :
                              /\ reward[t][u] # Unset <=> checkin[t][u] = Stops
                              /\ checkin[t][u] # {} => Mine(u, t) \/ (t = "catalog" /\ unlock[u] # Unset)
                         /\ GenerationPrice > 0 => \A w \in 1..MaxWeek :
                              Cardinality({d \in Drafts : /\ owned[d].by = u /\ owned[d].price = 0
                                                          /\ owned[d].began = w /\ owned[d].made = w})
                                <= FreePerWeek
      BY DEF TrailBooksBalance
    <2>1. Paid(u) = PriceOf(unlock[u]) + Charged(owned, u)
      BY PaidIsCharged DEF Paid, PriceOf
    <2>2. points[u] = Opening - Paid(u) + Earned(u)
      BY <2>1, EarnedIsGained DEF TrailInv, BooksHold
    <2>3. \A w \in 1..MaxWeek : w \in Nat
      BY TrailsAssumption
    <2>4. GenerationPrice > 0 => \A w \in 1..MaxWeek : Cardinality(FreeOf(owned, u, w)) <= FreePerWeek
      BY <2>3 DEF TrailInv, QuotaHolds
    <2>. QED  BY <2>2, <2>4 DEF TrailInv, WalksHold, FreeOf
  <1>. QED  BY <1>1, TrailInvStays, TrailsStart, PTL DEF TrailWalkSpec

\* The rows explain every point of a traveler, and a week is worked off once
\* (trails/progress.ts, trails/personal.ts, trails/jobs/weeklyTrends.ts).
THEOREM TrailsCorrect == TrailSpec => []TrailsHold
  BY TrailBooksCorrect, WeeksWorkedOffOnce, PTL DEF TrailSpec, TrailsHold

-----------------------------------------------------------------------------
(* Lists and walks *)

\* Rows of one list differ in their instant or in their other end.
DistinctRows(list, rows) ==
  /\ IsFiniteSet(rows) /\ rows \subseteq Followed
  /\ \A e, f \in rows : e.at = f.at /\ Other(list, e) = Other(list, f) => e = f

LEMMA RowFacts ==
  ASSUME NEW list, NEW e \in Followed
  PROVE  /\ e.at \in Nat /\ e.from \in Travelers /\ e.to \in Travelers
         /\ Other(list, e) \in Travelers /\ Rank[Other(list, e)] \in Nat
<1>1. e.at \in Nat /\ e.from \in Travelers /\ e.to \in Travelers
  BY FollowsAssumption DEF Followed
<1> QED BY <1>1, FollowsAssumption DEF Other

LEMMA NewerIsOrder ==
  ASSUME NEW list, NEW a \in Followed, NEW b \in Followed
  PROVE  /\ ~Newer(list, a, a)
         /\ ~(Newer(list, a, b) /\ Newer(list, b, a))
         /\ \A c \in Followed : Newer(list, a, b) /\ Newer(list, b, c) => Newer(list, a, c)
BY RowFacts DEF Newer

LEMMA NewerIsTotal ==
  ASSUME NEW list, NEW rows, DistinctRows(list, rows), NEW a \in rows, NEW b \in rows, a # b
  PROVE  Newer(list, a, b) \/ Newer(list, b, a)
<1>1. a \in Followed /\ b \in Followed
  BY DEF DistinctRows
<1>2. a.at = b.at => Rank[Other(list, a)] # Rank[Other(list, b)]
  BY <1>1, RowFacts, FollowsAssumption DEF DistinctRows
<1> QED BY <1>1, <1>2, RowFacts DEF Newer

\* The newer rows of a list place each of its rows.
Ahead(list, rows, e) == {f \in rows : Newer(list, f, e)}

LEMMA AheadGrows ==
  ASSUME NEW list, NEW rows, DistinctRows(list, rows), NEW a \in rows, NEW b \in rows,
         Newer(list, a, b)
  PROVE  Cardinality(Ahead(list, rows, a)) < Cardinality(Ahead(list, rows, b))
<1>1. a \in Followed /\ b \in Followed /\ \A f \in rows : f \in Followed
  BY DEF DistinctRows
<1>2. IsFiniteSet(Ahead(list, rows, a)) /\ IsFiniteSet(Ahead(list, rows, b))
  BY FS_Subset DEF DistinctRows, Ahead
<1>3. Ahead(list, rows, a) \in SUBSET Ahead(list, rows, b)
  BY <1>1, NewerIsOrder DEF Ahead
<1>4. a \in Ahead(list, rows, b) /\ a \notin Ahead(list, rows, a)
  BY <1>1, NewerIsOrder DEF Ahead
<1> QED BY <1>2, <1>3, <1>4, FS_Subset, FS_CardinalityType

LEMMA PlacesExist ==
  ASSUME NEW list, NEW rows, DistinctRows(list, rows)
  PROVE  /\ Cardinality(rows) \in Nat
         /\ \A e \in rows : Cardinality(Ahead(list, rows, e)) + 1 \in 1..Cardinality(rows)
         /\ \A n \in 1..Cardinality(rows) : \E e \in rows :
              Cardinality(Ahead(list, rows, e)) = n - 1
<1>1. PICK standing : standing = [e \in rows |-> Cardinality(Ahead(list, rows, e)) + 1]
  OBVIOUS
<1>2. Cardinality(rows) \in Nat /\ \A e \in rows : Cardinality(Ahead(list, rows, e)) \in Nat
  BY FS_Subset, FS_CardinalityType DEF DistinctRows, Ahead
<1>3. \A e \in rows : standing[e] \in 1..Cardinality(rows)
  <2> SUFFICES ASSUME NEW e \in rows PROVE standing[e] \in 1..Cardinality(rows)
    OBVIOUS
  <2>1. Ahead(list, rows, e) \in SUBSET rows /\ e \notin Ahead(list, rows, e)
    BY NewerIsOrder DEF Ahead, DistinctRows
  <2>2. Cardinality(Ahead(list, rows, e)) < Cardinality(rows)
    BY <1>2, <2>1, FS_Subset DEF DistinctRows
  <2> QED BY <1>1, <1>2, <2>2
<1>4. \A e, f \in rows : standing[e] = standing[f] => e = f
  <2> SUFFICES ASSUME NEW e \in rows, NEW f \in rows, e # f PROVE standing[e] # standing[f]
    OBVIOUS
  <2> QED BY <1>1, <1>2, NewerIsTotal, AheadGrows
<1>5. standing \in Injection(rows, 1..Cardinality(rows))
  <2>1. standing \in [rows -> 1..Cardinality(rows)]
    BY <1>1, <1>3
  <2> QED BY <1>4, <2>1 DEF Injection, IsInjective
<1>6. standing \in Surjection(rows, 1..Cardinality(rows))
  BY <1>2, <1>5, FS_Injection, FS_Interval DEF DistinctRows
<1>7. \A n \in 1..Cardinality(rows) : \E e \in rows : standing[e] = n
  BY <1>6 DEF Surjection
<1> QED BY <1>1, <1>2, <1>3, <1>7

\* What the database answers: every row once, newest first.
LEMMA NewestFirstSorts ==
  ASSUME NEW list, NEW rows, DistinctRows(list, rows), NEW s, s = NewestFirst(list, rows)
  PROVE  /\ s \in Seq(rows) /\ Len(s) = Cardinality(rows) /\ Len(s) \in Nat
         /\ \A i \in 1..Len(s) : s[i] \in rows
         /\ \A e \in rows : \E i \in 1..Len(s) : s[i] = e
         /\ \A i, j \in 1..Len(s) : i < j => Newer(list, s[i], s[j])
<1>1. PICK n \in Nat : n = Cardinality(rows)
  BY PlacesExist
<1>2. s = [i \in 1..n |-> CHOOSE e \in rows : Cardinality(Ahead(list, rows, e)) = i - 1]
  BY <1>1 DEF NewestFirst, Ahead
<1>3. \A i \in 1..n : s[i] \in rows /\ Cardinality(Ahead(list, rows, s[i])) = i - 1
  <2> SUFFICES ASSUME NEW i \in 1..n
               PROVE  s[i] \in rows /\ Cardinality(Ahead(list, rows, s[i])) = i - 1
    OBVIOUS
  <2>1. \E e \in rows : Cardinality(Ahead(list, rows, e)) = i - 1
    BY <1>1, PlacesExist
  <2>2. s[i] = CHOOSE e \in rows : Cardinality(Ahead(list, rows, e)) = i - 1
    BY <1>2
  <2> QED BY <2>1, <2>2
<1>4. s \in [1..n -> rows]
  BY <1>2, <1>3
<1>5. s \in Seq(rows) /\ Len(s) = n
  BY <1>4
<1>6. ASSUME NEW i \in 1..n, NEW j \in 1..n, i < j
      PROVE  Newer(list, s[i], s[j])
  <2>1. s[i] # s[j] /\ ~Newer(list, s[j], s[i])
    BY <1>3, <1>6, AheadGrows
  <2> QED BY <1>3, <2>1, NewerIsTotal
<1>7. ASSUME NEW e \in rows PROVE \E i \in 1..n : s[i] = e
  <2>1. PICK i \in 1..n : i = Cardinality(Ahead(list, rows, e)) + 1
    BY <1>1, PlacesExist
  <2>2. Cardinality(Ahead(list, rows, s[i])) = i - 1 /\ s[i] \in rows
    BY <1>3
  <2>3. Cardinality(Ahead(list, rows, e)) \in Nat /\ Cardinality(Ahead(list, rows, s[i])) \in Nat
    BY FS_Subset, FS_CardinalityType DEF DistinctRows, Ahead
  <2>4. Cardinality(Ahead(list, rows, s[i])) = Cardinality(Ahead(list, rows, e))
    BY <2>1, <2>2, <2>3
  <2>5. ~Newer(list, s[i], e) /\ ~Newer(list, e, s[i])
    BY <2>2, <2>3, <2>4, AheadGrows
  <2>6. s[i] = e
    BY <2>2, <2>5, NewerIsTotal
  <2> QED BY <2>6
<1> QED BY <1>1, <1>3, <1>5, <1>6, <1>7

-----------------------------------------------------------------------------
(* The invariant *)

WalkLists == {"none", "followers", "following", "myFollowers", "myFollowing"}
Someone == Travelers \cup {NoTraveler}

AskType == [at : {"idle", "begun", "saved"}, from : Someone, to : Someone, began : 0..MaxInstant]
WalkType == [list : WalkLists, at : {"idle", "more", "done", "refused"}, shown : Seq(Followed),
             cursor : [at : 0..MaxInstant, last : Someone], counted : Nat]

\* The tables, and what requests have in hand: a follow that was begun is between two
\* travelers who are both simulated or both not.
FollowTables ==
  /\ public \in [Travelers -> BOOLEAN] /\ mirror \in [Travelers -> BOOLEAN]
  /\ edges \subseteq Followed /\ IsFiniteSet(edges) /\ instant \in 0..MaxInstant
  /\ \A e, f \in edges : e.from = f.from /\ e.to = f.to => e = f
  /\ ask \in [FollowAsks -> AskType]
  /\ \A a \in FollowAsks : ask[a].at # "idle" =>
       /\ ask[a].from \in Travelers /\ ask[a].to \in Travelers
       /\ (ask[a].from \in Simulated) = (ask[a].to \in Simulated)
  /\ edit \in [Edits -> [of : Someone, row : BOOLEAN]]
  /\ \A r \in Edits : edit[r] = NoEdit \/ edit[r].of \in Travelers
  /\ notices \subseteq Travelers \X Travelers

Seen(e) == \E i \in 1..Len(walk.shown) : walk.shown[i] = e

\* The cursor stands behind the last row shown.
CursorStands ==
  walk.at = "more" =>
    \/ walk.cursor = NoCursor /\ walk.shown = <<>>
    \/ /\ walk.shown # <<>>
       /\ walk.cursor = [at |-> Millisecond(Last(walk.shown).at),
                         last |-> Other(walk.list, Last(walk.shown))]

\* Whoever was always there was shown or is still to come.
Awaited ==
  /\ watch.always \subseteq Alone(ListRows(walk.list))
  /\ walk.at = "more" =>
       \A e \in watch.always : Seen(e) \/ Beyond(walk.list, e, walk.cursor)
  /\ walk.at = "done" => \A e \in watch.always : Seen(e)

\* As long as the list stands still, what is shown is in it and was counted.
StoodStill ==
  watch.still /\ walk.at \in {"more", "done"} =>
    /\ watch.always = Alone(ListRows(walk.list))
    /\ \A i \in 1..Len(walk.shown) : walk.shown[i] \in ListRows(walk.list)
    /\ walk.list # "myFollowing" => walk.counted = Cardinality(ListRows(walk.list))

WalkInv ==
  /\ walk \in WalkType /\ watch \in [always : SUBSET Followed, still : BOOLEAN]
  /\ walk.at = "idle" => walk = NoWalk
  /\ WalksForward /\ CursorStands /\ Awaited /\ StoodStill

FollowInv == FollowTables /\ WalkInv

-----------------------------------------------------------------------------
(* Steps that leave the reader alone *)

LEMMA RowsOfListDiffer ==
  ASSUME FollowTables, NEW list
  PROVE  DistinctRows(list, ListRows(list)) /\ ListRows(list) \subseteq edges
<1>1. ListRows(list) \subseteq edges
  BY DEF ListRows, Followers, Following, MyFollowing
<1>2. \A e \in ListRows(list) : IF Incoming(list) THEN e.to = Profile ELSE e.from = Profile
  BY DEF ListRows, Followers, Following, MyFollowing, Incoming
<1>3. ASSUME NEW e \in ListRows(list), NEW f \in ListRows(list), Other(list, e) = Other(list, f)
      PROVE  e = f
  BY <1>1, <1>2, <1>3 DEF FollowTables, Other
<1>4. IsFiniteSet(ListRows(list)) /\ ListRows(list) \subseteq Followed
  BY <1>1, FS_Subset DEF FollowTables
<1> QED BY <1>1, <1>3, <1>4 DEF DistinctRows

LEMMA AloneIsPart ==
  ASSUME NEW rows PROVE Alone(rows) \subseteq rows
BY DEF Alone

\* Time, edits and follows: the reader's expectations shrink.
LEMMA WatchingKeeps ==
  ASSUME FollowInv, walk' = walk, Watch
  PROVE  WalkInv'
<1>1. PICK before : before = ListRows(walk.list)
  OBVIOUS
<1>2. PICK after : after = ListRows(walk.list)'
  OBVIOUS
<1>5. CASE walk.at = "idle"
  <2>1. walk = NoWalk /\ walk.list = "none"
    BY <1>5 DEF FollowInv, WalkInv, NoWalk
  <2>2. before = {} /\ after = {}
    BY <1>1, <1>2, <2>1 DEF ListRows, Incoming
  <2>3. watch' = [always |-> Alone(ListRows(walk'.list)), still |-> TRUE]
    BY <1>5 DEF Watch
  <2>4. ListRows(walk'.list) = {}
    BY <1>1, <2>2
  <2>5. watch'.always = {} /\ watch'.still = TRUE /\ watch' \in [always : SUBSET Followed, still : BOOLEAN]
    BY <2>3, <2>4 DEF Alone
  <2>6. walk'.at = "idle" /\ walk' = NoWalk
    BY <1>5, <2>1
  <2> QED BY <2>5, <2>6 DEF FollowInv, WalkInv, WalksForward, CursorStands, Awaited, StoodStill
<1>6. CASE walk.at # "idle"
  <2>1. watch' = [always |-> watch.always \cap Alone(after), still |-> watch.still /\ after = before]
    BY <1>1, <1>2, <1>6 DEF Watch
  <2>2. watch'.always = watch.always \cap Alone(after) /\ watch'.still = (watch.still /\ after = before)
    BY <2>1
  <2>3. watch' \in [always : SUBSET Followed, still : BOOLEAN]
    <3>1. watch.always \subseteq Followed /\ watch.still \in BOOLEAN
      BY DEF FollowInv, WalkInv
    <3>2. PICK all : all = watch.always \cap Alone(after)
      OBVIOUS
    <3>3. PICK still \in BOOLEAN : still = (watch.still /\ after = before)
      BY <3>1
    <3> QED BY <2>1, <3>1, <3>2, <3>3
  <2>4. Awaited'
    <3>1. watch'.always \subseteq Alone(ListRows(walk.list))'
      BY <1>2, <2>2 DEF Alone
    <3>2. \A e : Seen(e)' = Seen(e)
      BY DEF Seen
    <3>3. \A e : Beyond(walk.list, e, walk.cursor)' = Beyond(walk.list, e, walk.cursor)
      BY DEF Beyond, Other
    <3> QED BY <2>2, <3>1, <3>2, <3>3 DEF FollowInv, WalkInv, Awaited
  <2>5. StoodStill'
    <3> SUFFICES ASSUME watch'.still, walk.at \in {"more", "done"}
                 PROVE  /\ watch'.always = Alone(after)
                        /\ \A i \in 1..Len(walk.shown) : walk.shown[i] \in after
                        /\ walk.list # "myFollowing" => walk.counted = Cardinality(after)
      BY <1>2 DEF StoodStill, Alone
    <3>1. watch.still /\ after = before
      BY <2>2
    <3> QED BY <1>1, <2>2, <3>1 DEF FollowInv, WalkInv, StoodStill
  <2>6. WalksForward' /\ CursorStands'
    BY DEF FollowInv, WalkInv, WalksForward, CursorStands, Newer, Other
  <2> QED BY <1>6, <2>3, <2>4, <2>5, <2>6 DEF FollowInv, WalkInv
<1> QED BY <1>5, <1>6

LEMMA NoAskIsType == NoAsk \in AskType /\ NoAsk.at = "idle"
BY FollowsAssumption DEF NoAsk, AskType, Someone

LEMMA NoEditIsType == NoEdit \in [of : Someone, row : BOOLEAN]
BY DEF NoEdit, Someone

\* A request takes one step.
LEMMA AskChanges ==
  ASSUME FollowTables, NEW a \in FollowAsks, NEW new \in AskType,
         ask' = [ask EXCEPT ![a] = new],
         new.at # "idle" => /\ new.from \in Travelers /\ new.to \in Travelers
                            /\ (new.from \in Simulated) = (new.to \in Simulated)
  PROVE  /\ ask' \in [FollowAsks -> AskType]
         /\ \A b \in FollowAsks : ask'[b].at # "idle" =>
              /\ ask'[b].from \in Travelers /\ ask'[b].to \in Travelers
              /\ (ask'[b].from \in Simulated) = (ask'[b].to \in Simulated)
<1>1. ask \in [FollowAsks -> AskType]
  BY DEF FollowTables
<1>2. \A b \in FollowAsks : ask'[b] = IF b = a THEN new ELSE ask[b]
  BY <1>1
<1>3. ask' \in [FollowAsks -> AskType]
  BY <1>1
<1> QED BY <1>2, <1>3 DEF FollowTables

LEMMA AskFollowKeeps ==
  ASSUME FollowInv, NEW a \in FollowAsks, NEW u \in Travelers, NEW v \in Travelers,
         AskFollow(a, u, v), Watch
  PROVE  FollowInv'
<1>1. PICK new : new = [at |-> "begun", from |-> u, to |-> v, began |-> instant]
  OBVIOUS
<1>2. new \in AskType /\ new.from = u /\ new.to = v
  BY <1>1 DEF AskType, Someone, FollowInv, FollowTables
<1>3. ask' = [ask EXCEPT ![a] = new] /\ (u \in Simulated) = (v \in Simulated)
  BY <1>1 DEF AskFollow
<1>4. FollowTables'
  BY <1>2, <1>3, AskChanges DEF FollowInv, FollowTables, AskFollow, Followed
<1> QED BY <1>4, WatchingKeeps DEF AskFollow, FollowInv

LEMMA SaveFollowKeeps ==
  ASSUME FollowInv, NEW a \in FollowAsks, SaveFollow(a), Watch
  PROVE  FollowInv' /\ FollowsArePublic
<1> DEFINE u == ask[a].from
           v == ask[a].to
           created == BothPublic(u, v) /\ ~Follows(u, v)
<1>1. PICK added : added = [from |-> u, to |-> v, at |-> ask[a].began]
  OBVIOUS
<1>2. ask[a] \in AskType /\ ask[a].at = "begun"
  BY DEF FollowInv, FollowTables, SaveFollow
<1>3. u \in Travelers /\ v \in Travelers /\ (u \in Simulated) = (v \in Simulated)
  BY <1>2 DEF FollowInv, FollowTables
<1>4. added \in Followed /\ added.from = u /\ added.to = v
  BY <1>1, <1>2, <1>3 DEF Followed, AskType
<1>5. PICK saved : saved = [ask[a] EXCEPT !.at = "saved"]
  OBVIOUS
<1>6. saved \in AskType /\ saved.from = u /\ saved.to = v
  BY <1>2, <1>5 DEF AskType
<1>7. PICK new : new = IF created THEN saved ELSE NoAsk
  OBVIOUS
<1>8. new \in AskType /\ (new.at # "idle" => new = saved)
  BY <1>6, <1>7, NoAskIsType
<1>9. ask' = [ask EXCEPT ![a] = new]
  BY <1>5, <1>7 DEF SaveFollow
<1>10. edges' = IF created THEN edges \cup {added} ELSE edges
  BY <1>1 DEF SaveFollow
<1>11. created => /\ public[u] /\ public[v]
                  /\ \A e \in edges : ~(e.from = u /\ e.to = v)
  BY DEF BothPublic, Follows
<1>12. edges' \subseteq Followed /\ IsFiniteSet(edges')
       /\ \A e, f \in edges' : e.from = f.from /\ e.to = f.to => e = f
  <2> HIDE DEF created, u, v
  <2> QED BY <1>4, <1>10, <1>11, FS_AddElement DEF FollowInv, FollowTables
<1>13. FollowTables'
  <2>1. UNCHANGED <<public, mirror, instant, edit, notices, walk>>
    BY DEF SaveFollow
  <2> HIDE DEF created, u, v
  <2>2. /\ ask' \in [FollowAsks -> AskType]
        /\ \A b \in FollowAsks : ask'[b].at # "idle" =>
             /\ ask'[b].from \in Travelers /\ ask'[b].to \in Travelers
             /\ (ask'[b].from \in Simulated) = (ask'[b].to \in Simulated)
    BY <1>3, <1>6, <1>8, <1>9, AskChanges DEF FollowInv
  <2> QED BY <1>12, <2>1, <2>2 DEF FollowInv, FollowTables
<1>14. FollowsArePublic
  <2> HIDE DEF created, u, v
  <2> QED BY <1>3, <1>4, <1>10, <1>11 DEF FollowsArePublic
<1> QED BY <1>13, <1>14, WatchingKeeps DEF SaveFollow, FollowInv

LEMMA NotifyFollowKeeps ==
  ASSUME FollowInv, NEW a \in FollowAsks, NotifyFollow(a), Watch
  PROVE  FollowInv'
<1>1. ask[a].from \in Travelers /\ ask[a].to \in Travelers
  BY DEF FollowInv, FollowTables, NotifyFollow
<1>2. notices' \subseteq Travelers \X Travelers
  <2>1. <<ask[a].to, ask[a].from>> \in Travelers \X Travelers
    BY <1>1
  <2> QED BY <2>1 DEF NotifyFollow, FollowInv, FollowTables
<1>3. ask' = [ask EXCEPT ![a] = NoAsk]
  BY DEF NotifyFollow
<1>4. FollowTables'
  <2>1. UNCHANGED <<public, mirror, edges, instant, edit, walk>>
    BY DEF NotifyFollow
  <2>2. /\ ask' \in [FollowAsks -> AskType]
        /\ \A b \in FollowAsks : ask'[b].at # "idle" =>
             /\ ask'[b].from \in Travelers /\ ask'[b].to \in Travelers
             /\ (ask'[b].from \in Simulated) = (ask'[b].to \in Simulated)
    BY <1>3, NoAskIsType, AskChanges DEF FollowInv
  <2> QED BY <1>2, <2>1, <2>2 DEF FollowInv, FollowTables
<1> QED BY <1>4, WatchingKeeps DEF NotifyFollow, FollowInv

LEMMA UnfollowKeeps ==
  ASSUME FollowInv, NEW u \in Travelers, NEW v \in Travelers, Unfollow(u, v), Watch
  PROVE  FollowInv'
<1>1. edges' \subseteq edges
  BY DEF Unfollow
<1>2. IsFiniteSet(edges')
  BY <1>1, FS_Subset DEF FollowInv, FollowTables
<1>3. UNCHANGED <<public, mirror, instant, ask, edit, notices, walk>>
  BY DEF Unfollow
<1>4. FollowTables'
  BY <1>1, <1>2, <1>3 DEF FollowInv, FollowTables
<1> QED BY <1>3, <1>4, WatchingKeeps DEF FollowInv

LEMMA EditKeeps ==
  ASSUME FollowInv, EditProfile, Watch
  PROVE  FollowInv'
<1>1. public \in [Travelers -> BOOLEAN] /\ mirror \in [Travelers -> BOOLEAN]
      /\ edit \in [Edits -> [of : Someone, row : BOOLEAN]]
      /\ \A r \in Edits : edit[r] = NoEdit \/ edit[r].of \in Travelers
  BY DEF FollowInv, FollowTables
<1>2. ASSUME NEW r \in Edits, NEW u \in Travelers, NEW shows \in BOOLEAN,
             edit' = [edit EXCEPT ![r] = [of |-> u, row |-> shows]]
      PROVE  edit' \in [Edits -> [of : Someone, row : BOOLEAN]]
             /\ \A q \in Edits : edit'[q] = NoEdit \/ edit'[q].of \in Travelers
  <2>1. PICK new : new = [of |-> u, row |-> shows]
    OBVIOUS
  <2>2. new \in [of : Someone, row : BOOLEAN] /\ new.of = u
    BY <2>1 DEF Someone
  <2>3. edit' = [edit EXCEPT ![r] = new]
    BY <1>2, <2>1
  <2> QED BY <1>1, <2>2, <2>3
<1>3. ASSUME NEW r \in Edits, NEW u \in Travelers, NEW visible \in BOOLEAN,
             UpdateProfile(r, u, visible)
      PROVE  FollowTables' /\ walk' = walk
  <2>1. public' \in [Travelers -> BOOLEAN]
    BY <1>1, <1>3 DEF UpdateProfile
  <2>2. edit' = [edit EXCEPT ![r] = [of |-> u, row |-> visible]]
        /\ UNCHANGED <<mirror, edges, instant, ask, notices, walk>>
    BY <1>3 DEF UpdateProfile
  <2>3. edit' \in [Edits -> [of : Someone, row : BOOLEAN]]
        /\ \A q \in Edits : edit'[q] = NoEdit \/ edit'[q].of \in Travelers
    BY <1>2, <2>2
  <2> QED BY <2>1, <2>2, <2>3 DEF FollowInv, FollowTables
<1>4. ASSUME NEW r \in Edits, NEW u \in Travelers, FindUserByIdDurable(r, u)
      PROVE  FollowTables' /\ walk' = walk
  <2>1. public[u] \in BOOLEAN
    BY <1>1
  <2>2. edit' = [edit EXCEPT ![r] = [of |-> u, row |-> public[u]]]
        /\ UNCHANGED <<public, mirror, edges, instant, ask, notices, walk>>
    BY <1>4 DEF FindUserByIdDurable
  <2>3. edit' \in [Edits -> [of : Someone, row : BOOLEAN]]
        /\ \A q \in Edits : edit'[q] = NoEdit \/ edit'[q].of \in Travelers
    BY <1>2, <2>1, <2>2
  <2> QED BY <2>2, <2>3 DEF FollowInv, FollowTables
<1>5. ASSUME NEW r \in Edits, PutInMemory(r)
      PROVE  FollowTables' /\ walk' = walk
  <2>1. edit[r].of \in Travelers /\ edit[r].row \in BOOLEAN
    BY <1>1, <1>5 DEF PutInMemory
  <2>2. mirror' \in [Travelers -> BOOLEAN]
    BY <1>1, <1>5, <2>1 DEF PutInMemory
  <2>3. edit' = [edit EXCEPT ![r] = NoEdit]
        /\ UNCHANGED <<public, edges, instant, ask, notices, walk>>
    BY <1>5 DEF PutInMemory
  <2>4. edit' \in [Edits -> [of : Someone, row : BOOLEAN]]
        /\ \A q \in Edits : edit'[q] = NoEdit \/ edit'[q].of \in Travelers
    BY <1>1, <2>3, NoEditIsType
  <2> QED BY <2>2, <2>3, <2>4 DEF FollowInv, FollowTables
<1>6. ASSUME ReloadUsers
      PROVE  FollowTables' /\ walk' = walk
  <2>1. mirror' = public /\ ask' = [a \in FollowAsks |-> NoAsk] /\ edit' = [r \in Edits |-> NoEdit]
        /\ UNCHANGED <<public, edges, instant, notices, walk>>
    BY <1>6 DEF ReloadUsers
  <2>2. ask' \in [FollowAsks -> AskType] /\ \A a \in FollowAsks : ask'[a].at = "idle"
    BY <2>1, NoAskIsType
  <2>3. edit' \in [Edits -> [of : Someone, row : BOOLEAN]] /\ \A r \in Edits : edit'[r] = NoEdit
    BY <2>1, NoEditIsType
  <2> QED BY <1>1, <2>1, <2>2, <2>3 DEF FollowInv, FollowTables
<1>7. FollowTables' /\ walk' = walk
  BY <1>3, <1>4, <1>5, <1>6 DEF EditProfile
<1> QED BY <1>7, WatchingKeeps DEF FollowInv

LEMMA InstantKeeps ==
  ASSUME FollowInv, InstantPasses, Watch
  PROVE  FollowInv'
<1>1. FollowTables' /\ walk' = walk
  BY FollowsAssumption DEF InstantPasses, FollowInv, FollowTables
<1> QED BY <1>1, WatchingKeeps DEF FollowInv

-----------------------------------------------------------------------------
(* The reader *)

LEMMA ListsStand ==
  ASSUME UNCHANGED <<public, edges>>
  PROVE  \A list \in WalkLists : ListRows(list)' = ListRows(list)
BY DEF ListRows, Followers, Following, MyFollowing, Shown

LEMMA NoWalkIsType == NoWalk \in WalkType
<1>1. <<>> \in Seq(Followed)
  OBVIOUS
<1>2. NoCursor \in [at : 0..MaxInstant, last : Someone]
  BY FollowsAssumption DEF NoCursor, Someone
<1> QED BY <1>1, <1>2 DEF NoWalk, WalkType, WalkLists

LEMMA NoWalkFacts ==
  /\ NoWalk.list = "none" /\ NoWalk.at = "idle" /\ NoWalk.shown = <<>>
  /\ NoWalk.cursor = NoCursor /\ NoWalk.counted = 0
BY DEF NoWalk

LEMMA ShowProfileKeeps ==
  ASSUME FollowInv, NEW list \in WalkLists \ {"none"}, ShowProfile(list), Watch
  PROVE  FollowInv'
<1>1. walk.at = "idle" /\ UNCHANGED <<public, mirror, edges, instant, ask, edit, notices>>
  BY DEF ShowProfile
<1>2. FollowTables'
  BY <1>1 DEF FollowInv, FollowTables
<1>3. PICK rows : rows = ListRows(list)
  OBVIOUS
<1>4. ListRows(list)' = rows
  BY <1>1, <1>3, ListsStand
<1>5. rows \subseteq Followed /\ IsFiniteSet(rows) /\ Cardinality(rows) \in Nat
  BY <1>3, RowsOfListDiffer, FS_CardinalityType DEF FollowInv, DistinctRows
<1>6. PICK counts : counts = FollowCounts(Profile, list \in {"myFollowers", "myFollowing"})
  OBVIOUS
<1>7. PICK n : n = IF Incoming(list) THEN counts.followers ELSE counts.following
  OBVIOUS
<1>8. counts = [followers |-> Cardinality(Followers(Profile)),
                following |-> Cardinality(Following(Profile))]
  BY <1>6 DEF FollowCounts, ShowProfile, WalkLists
<1>9. n \in Nat /\ (list # "myFollowing" => n = Cardinality(rows))
  <2>1. n = IF Incoming(list) THEN Cardinality(Followers(Profile)) ELSE Cardinality(Following(Profile))
    BY <1>7, <1>8
  <2>2. list # "myFollowing" => rows = IF Incoming(list) THEN Followers(Profile) ELSE Following(Profile)
    BY <1>3 DEF ListRows, Incoming, WalkLists
  <2>3. Following(Profile) \subseteq edges
    BY DEF Following
  <2>4. Cardinality(Following(Profile)) \in Nat
    BY <2>3, FS_Subset, FS_CardinalityType DEF FollowInv, FollowTables
  <2> QED BY <1>5, <2>1, <2>2, <2>4 DEF Incoming, WalkLists
<1>10. PICK new : new = [NoWalk EXCEPT !.list = list, !.at = "more", !.counted = n]
  OBVIOUS
<1>11. walk' = new
  BY <1>1, <1>6, <1>7, <1>10 DEF ShowProfile
<1>12. new \in WalkType /\ new.list = list /\ new.at = "more" /\ new.shown = <<>>
       /\ new.cursor = NoCursor /\ new.counted = n
  BY <1>9, <1>10, NoWalkIsType, NoWalkFacts DEF WalkType
<1>13. watch' = [always |-> Alone(rows), still |-> TRUE]
  BY <1>1, <1>3, <1>11, <1>12 DEF Watch
<1>14. watch'.always = Alone(rows) /\ Alone(rows) \subseteq Followed
       /\ watch' \in [always : SUBSET Followed, still : BOOLEAN]
  <2>1. PICK part : part = Alone(rows)
    OBVIOUS
  <2>2. part \subseteq Followed
    BY <1>5, <2>1, AloneIsPart
  <2> QED BY <1>13, <2>1, <2>2
<1>15. walk'.list = list /\ walk'.at = "more" /\ walk'.shown = <<>> /\ walk'.cursor = NoCursor
       /\ walk'.counted = n /\ walk' \in WalkType
  BY <1>11, <1>12
<1>16. WalksForward' /\ CursorStands'
  BY <1>15 DEF WalksForward, CursorStands, NoCursor
<1>17. Awaited'
  <2>1. Alone(ListRows(walk.list))' = Alone(rows)
    BY <1>4, <1>15 DEF Alone
  <2>2. \A e : Beyond(walk'.list, e, walk'.cursor)
    BY <1>15 DEF Beyond
  <2>3. (\A e \in watch.always : Seen(e) \/ Beyond(walk.list, e, walk.cursor))'
    BY <2>2 DEF Beyond, Other
  <2> QED BY <1>14, <1>15, <2>1, <2>3 DEF Awaited
<1>18. StoodStill'
  <2>1. ListRows(walk.list)' = rows
    BY <1>4, <1>15
  <2> QED BY <1>9, <1>14, <1>15, <2>1 DEF StoodStill, Alone
<1> QED BY <1>2, <1>14, <1>15, <1>16, <1>17, <1>18 DEF FollowInv, WalkInv

LEMMA Milliseconds ==
  ASSUME NEW t \in Nat, NEW s \in Nat, s <= t
  PROVE  /\ Millisecond(t) \in Nat /\ Millisecond(t) <= t /\ Millisecond(s) <= Millisecond(t)
         /\ Millisecond(s) # Millisecond(t) => s < Millisecond(t)
BY SMTT(30) DEF Millisecond

\* What is beyond a cursor is older than the row it was made from.
LEMMA BeyondIsOlder ==
  ASSUME NEW list, NEW e \in Followed, NEW f \in Followed, NEW c,
         c = [at |-> Millisecond(f.at), last |-> Other(list, f)], Beyond(list, e, c)
  PROVE  c # NoCursor /\ Newer(list, f, e)
<1>1. c.at = Millisecond(f.at) /\ c.last = Other(list, f)
  OBVIOUS
<1>2. c # NoCursor
  BY <1>1, RowFacts, FollowsAssumption DEF NoCursor
<1>3. Millisecond(f.at) <= f.at /\ Millisecond(f.at) \in Nat
  BY RowFacts, Milliseconds
<1> QED BY <1>1, <1>2, <1>3, RowFacts DEF Beyond, Newer

\* A row that is alone in its millisecond is beyond the cursor of a newer one.
LEMMA OlderIsBeyond ==
  ASSUME NEW list, NEW rows, DistinctRows(list, rows), NEW e \in Alone(rows), NEW f \in rows,
         Newer(list, f, e), NEW c, c = [at |-> Millisecond(f.at), last |-> Other(list, f)]
  PROVE  Beyond(list, e, c)
<1>1. e \in rows /\ e \in Followed /\ f \in Followed
  BY DEF Alone, DistinctRows
<1>2. e # f
  BY <1>1, NewerIsOrder
<1>3. Millisecond(e.at) # Millisecond(f.at)
  BY <1>2 DEF Alone
<1>4. e.at <= f.at
  BY <1>1, RowFacts DEF Newer
<1>5. e.at < Millisecond(f.at)
  BY <1>1, <1>3, <1>4, RowFacts, Milliseconds
<1> QED BY <1>5 DEF Beyond

\* What a page adds: the first rows behind the cursor, newest first.
PageOf(list, page, more) ==
  LET rows == {e \in ListRows(list) : Beyond(list, e, walk.cursor)}
      all == NewestFirst(list, rows)
  IN /\ more = (Len(all) > PageLimit)
     /\ page = IF more THEN SubSeq(all, 1, PageLimit) ELSE all

LEMMA PageFacts ==
  ASSUME FollowInv, NEW list, NEW page, NEW more, PageOf(list, page, more)
  PROVE  /\ page \in Seq(Followed) /\ Len(page) \in Nat /\ more \in BOOLEAN
         /\ \A i \in 1..Len(page) : page[i] \in ListRows(list) /\ Beyond(list, page[i], walk.cursor)
         /\ \A i, j \in 1..Len(page) : i < j => Newer(list, page[i], page[j])
         /\ more => Len(page) = PageLimit
         /\ \A e \in ListRows(list) : Beyond(list, e, walk.cursor) =>
              \/ \E i \in 1..Len(page) : page[i] = e
              \/ more /\ Newer(list, page[PageLimit], e)
<1>1. PICK rows : rows = {e \in ListRows(list) : Beyond(list, e, walk.cursor)}
  OBVIOUS
<1>2. DistinctRows(list, rows)
  <2>1. DistinctRows(list, ListRows(list))
    BY RowsOfListDiffer DEF FollowInv
  <2> QED BY <1>1, <2>1, FS_Subset DEF DistinctRows
<1>3. PICK all : all = NewestFirst(list, rows)
  OBVIOUS
<1>4. /\ all \in Seq(rows) /\ Len(all) \in Nat
      /\ \A i \in 1..Len(all) : all[i] \in rows
      /\ \A e \in rows : \E i \in 1..Len(all) : all[i] = e
      /\ \A i, j \in 1..Len(all) : i < j => Newer(list, all[i], all[j])
  BY <1>2, <1>3, NewestFirstSorts
<1>5. more = (Len(all) > PageLimit) /\ page = IF more THEN SubSeq(all, 1, PageLimit) ELSE all
  BY <1>1, <1>3 DEF PageOf
<1>6. rows \subseteq Followed /\ PageLimit \in Nat /\ PageLimit > 0
  BY <1>2, FollowsAssumption DEF DistinctRows
<1>7. CASE more
  <2>1. Len(all) > PageLimit /\ page = SubSeq(all, 1, PageLimit)
    BY <1>5, <1>7
  <2>2. page \in Seq(Followed) /\ Len(page) = PageLimit
        /\ \A i \in 1..PageLimit : page[i] = all[i]
    <3>1. all \in Seq(Followed) /\ 1 \in 1..(Len(all) + 1) /\ PageLimit \in 0..Len(all)
      BY <1>4, <1>6, <2>1
    <3>2. page \in Seq(Followed) /\ Len(page) = PageLimit
      BY <1>4, <1>6, <2>1, <3>1, SubSeqProperties
    <3>3. \A i \in 1..PageLimit : page[i] = all[1 + i - 1]
      BY <1>4, <1>6, <2>1, <3>1, SubSeqProperties
    <3> QED BY <1>6, <3>2, <3>3
  <2>3. ASSUME NEW e \in rows
        PROVE  (\E i \in 1..Len(page) : page[i] = e) \/ Newer(list, page[PageLimit], e)
    <3>1. PICK i \in 1..Len(all) : all[i] = e
      BY <1>4
    <3>2. CASE i <= PageLimit
      BY <2>2, <3>1, <3>2
    <3>3. CASE i > PageLimit
      <4>1. PageLimit \in 1..Len(all)
        BY <1>4, <1>6, <2>1
      <4>2. Newer(list, all[PageLimit], e)
        BY <1>4, <3>1, <3>3, <4>1
      <4> QED BY <1>6, <2>2, <4>2
    <3> QED BY <1>6, <3>1, <3>2, <3>3
  <2>4. \A i \in 1..PageLimit : i \in 1..Len(all)
    BY <1>4, <1>6, <2>1
  <2> QED BY <1>1, <1>4, <1>5, <1>6, <1>7, <2>2, <2>3, <2>4
<1>8. CASE ~more
  <2>1. page = all
    BY <1>5, <1>8
  <2>2. page \in Seq(Followed)
    BY <1>4, <1>6, <2>1
  <2> QED BY <1>1, <1>4, <1>5, <1>8, <2>1, <2>2
<1> QED BY <1>5, <1>7, <1>8

LEMMA TurnPageKeeps ==
  ASSUME FollowInv, NEW list, walk.list = list, walk.at = "more",
         UNCHANGED <<public, mirror, edges, instant, ask, edit, notices>>,
         TurnPage(list), Watch
  PROVE  FollowInv'
<1>1. walk \in WalkType /\ list \in WalkLists
  BY DEF FollowInv, WalkInv, WalkType
<1>2. PICK more : more = (Len(NewestFirst(list, {e \in ListRows(list) : Beyond(list, e, walk.cursor)})) > PageLimit)
  OBVIOUS
<1>3. PICK page : PageOf(list, page, more)
  BY <1>2 DEF PageOf
<1>4. /\ page \in Seq(Followed) /\ Len(page) \in Nat /\ more \in BOOLEAN
      /\ \A i \in 1..Len(page) : page[i] \in ListRows(list) /\ Beyond(list, page[i], walk.cursor)
      /\ \A i, j \in 1..Len(page) : i < j => Newer(list, page[i], page[j])
      /\ more => Len(page) = PageLimit
      /\ \A e \in ListRows(list) : Beyond(list, e, walk.cursor) =>
           \/ \E i \in 1..Len(page) : page[i] = e
           \/ more /\ Newer(list, page[PageLimit], e)
  BY <1>3, PageFacts
<1>5. PICK stand : stand = [at |-> Millisecond(page[PageLimit].at), last |-> Other(list, page[PageLimit])]
  OBVIOUS
<1>6. PICK cursor : cursor = IF more THEN stand ELSE walk.cursor
  OBVIOUS
<1>7. PICK at : at = IF more THEN "more" ELSE "done"
  OBVIOUS
<1>8. PICK shown : shown = walk.shown \o page
  OBVIOUS
<1>9. walk' = [walk EXCEPT !.shown = shown, !.at = at, !.cursor = cursor]
  BY <1>2, <1>3, <1>5, <1>6, <1>7, <1>8 DEF TurnPage, PageOf
<1>10. PageLimit \in 1..PageLimit /\ PageLimit \in Nat
  BY FollowsAssumption
<1>11. walk.shown \in Seq(Followed) /\ walk.cursor \in [at : 0..MaxInstant, last : Someone]
  BY <1>1 DEF WalkType
<1>12. shown \in Seq(Followed) /\ Len(shown) = Len(walk.shown) + Len(page)
       /\ Len(walk.shown) \in Nat
       /\ (\A i \in 1..Len(walk.shown) : shown[i] = walk.shown[i])
       /\ \A i \in 1..Len(page) : shown[Len(walk.shown) + i] = page[i]
  BY <1>4, <1>8, <1>11
<1>13. more => stand \in [at : 0..MaxInstant, last : Someone]
  <2> SUFFICES ASSUME more PROVE stand \in [at : 0..MaxInstant, last : Someone]
    OBVIOUS
  <2>1. page[PageLimit] \in Followed
    BY <1>4, <1>10
  <2>2. page[PageLimit].at \in 0..MaxInstant /\ Other(list, page[PageLimit]) \in Travelers
    BY <2>1, RowFacts DEF Followed
  <2>3. Millisecond(page[PageLimit].at) \in 0..MaxInstant
    BY <2>2, Milliseconds, FollowsAssumption
  <2> QED BY <1>5, <2>2, <2>3 DEF Someone
<1>14. cursor \in [at : 0..MaxInstant, last : Someone] /\ at \in {"more", "done"}
  BY <1>6, <1>7, <1>11, <1>13
<1>15. /\ walk' \in WalkType /\ walk'.list = list /\ walk'.at = at /\ walk'.shown = shown
       /\ walk'.cursor = cursor /\ walk'.counted = walk.counted
  BY <1>1, <1>9, <1>12, <1>14 DEF WalkType
<1>16. FollowTables'
  BY DEF FollowInv, FollowTables
<1>17. ListRows(list)' = ListRows(list)
  BY <1>1, ListsStand
<1>18. PICK now : now = ListRows(list)
  OBVIOUS
<1>19. DistinctRows(list, now) /\ now \subseteq Followed
  BY <1>18, RowsOfListDiffer DEF FollowInv, DistinctRows
<1>20. watch' = [always |-> watch.always \cap Alone(now), still |-> watch.still /\ now = now]
  <2>1. walk.at # "idle" /\ ListRows(walk.list) = now
    BY <1>18
  <2>2. ListRows(walk.list)' = now /\ Alone(ListRows(walk.list))' = Alone(now)
    BY <1>15, <1>17, <1>18 DEF Alone
  <2> QED BY <2>1, <2>2 DEF Watch
<1>21. watch'.always = watch.always \cap Alone(now) /\ watch'.still = watch.still
       /\ watch' \in [always : SUBSET Followed, still : BOOLEAN]
  <2>1. watch.always \subseteq Followed /\ watch.still \in BOOLEAN
    BY DEF FollowInv, WalkInv
  <2>2. PICK both : both = watch.always \cap Alone(now)
    OBVIOUS
  <2>3. watch' = [always |-> both, still |-> watch.still]
    BY <1>20, <2>1, <2>2
  <2> QED BY <2>1, <2>2, <2>3
<1>22. Alone(ListRows(walk.list))' = Alone(now)
  BY <1>15, <1>17, <1>18 DEF Alone
<1>23. ASSUME NEW i \in 1..Len(walk.shown), NEW e \in Followed, Beyond(list, e, walk.cursor)
       PROVE  Newer(list, walk.shown[i], e)
  <2>1. walk.shown # <<>> /\ Len(walk.shown) > 0
    BY <1>12, <1>23
  <2>2. PICK last : last = walk.shown[Len(walk.shown)]
    OBVIOUS
  <2>3. last \in Followed /\ walk.shown[i] \in Followed
    BY <1>11, <1>12, <2>1, <2>2
  <2>4. walk.cursor = [at |-> Millisecond(last.at), last |-> Other(list, last)]
    BY <2>1, <2>2 DEF FollowInv, WalkInv, CursorStands, Last
  <2>5. Newer(list, last, e)
    BY <1>23, <2>3, <2>4, BeyondIsOlder
  <2>6. i = Len(walk.shown) \/ Newer(list, walk.shown[i], last)
    <3>1. PICK n \in Nat : n = Len(walk.shown)
      BY <1>12
    <3>2. i \in 1..n /\ n \in 1..n
      BY <2>1, <3>1
    <3>3. \A k, l \in 1..n : k < l => Newer(list, walk.shown[k], walk.shown[l])
      BY <3>1 DEF FollowInv, WalkInv, WalksForward
    <3>4. i = n \/ i < n
      BY <3>2
    <3> QED BY <2>2, <3>1, <3>2, <3>3, <3>4
  <2>7. PICK one : one = walk.shown[i]
    OBVIOUS
  <2>8. Newer(list, one, last) => Newer(list, one, e)
    BY <2>3, <2>5, <2>7, NewerIsOrder
  <2> QED BY <2>2, <2>5, <2>6, <2>7, <2>8
<1>24. WalksForward'
  <2>1. ASSUME NEW i \in 1..Len(shown), NEW j \in 1..Len(shown), i < j
        PROVE  Newer(list, shown[i], shown[j])
    <3>1. PICK m \in Nat : m = Len(walk.shown)
      BY <1>12
    <3>5. Len(page) \in Nat /\ Len(shown) = m + Len(page) /\ i \in Int /\ j \in Int
          /\ (\A k \in 1..m : shown[k] = walk.shown[k])
          /\ \A k \in 1..Len(page) : shown[m + k] = page[k]
      BY <1>4, <1>12, <3>1
    <3>6. ASSUME NEW k \in 1..Len(shown), k > m
          PROVE  k - m \in 1..Len(page) /\ shown[k] = page[k - m]
      <4>0. k \in Int /\ k - m \in Int
        BY <3>1, <3>5
      <4>1. PICK l \in Int : l = k - m
        BY <4>0
      <4>2. l \in 1..Len(page) /\ m + l = k
        BY <3>1, <3>5, <3>6, <4>1
      <4>3. shown[m + l] = page[l]
        BY <3>5, <4>2
      <4> QED BY <4>1, <4>2, <4>3
    <3>2. CASE j <= m
      <4>1. i \in 1..m /\ j \in 1..m /\ shown[i] = walk.shown[i] /\ shown[j] = walk.shown[j]
        BY <2>1, <3>1, <3>2, <3>5
      <4> QED BY <2>1, <3>1, <4>1 DEF FollowInv, WalkInv, WalksForward
    <3>3. CASE i <= m /\ j > m
      <4>1. j - m \in 1..Len(page) /\ shown[j] = page[j - m]
        BY <3>3, <3>6
      <4>2. page[j - m] \in Followed /\ Beyond(list, page[j - m], walk.cursor)
        BY <1>4, <4>1
      <4>3. i \in 1..m /\ shown[i] = walk.shown[i]
        BY <3>1, <3>3, <3>5
      <4>4. Newer(list, walk.shown[i], page[j - m])
        BY <1>23, <3>1, <4>2, <4>3
      <4> QED BY <4>1, <4>3, <4>4
    <3>4. CASE i > m
      <4>1. j > m
        BY <2>1, <3>1, <3>4, <3>5
      <4>2. j - m \in 1..Len(page) /\ shown[j] = page[j - m]
        BY <3>6, <4>1
      <4>3. i - m \in 1..Len(page) /\ shown[i] = page[i - m]
        BY <3>4, <3>6
      <4>4. i - m < j - m
        BY <2>1, <3>1, <3>5
      <4> QED BY <1>4, <4>2, <4>3, <4>4
    <3> QED BY <3>1, <3>2, <3>3, <3>4, <3>5
  <2> QED BY <1>15, <2>1 DEF WalksForward, Newer, Other
<1>25. CursorStands'
  <2> SUFFICES ASSUME more
               PROVE  shown # <<>> /\ cursor = [at |-> Millisecond(Last(shown).at), last |-> Other(list, Last(shown))]
    BY <1>7, <1>15 DEF CursorStands, Last, Other, Millisecond
  <2>1. Len(page) = PageLimit /\ Len(shown) = Len(walk.shown) + PageLimit
    BY <1>4, <1>12
  <2>2. shown # <<>> /\ Last(shown) = page[PageLimit]
    BY <1>10, <1>12, <2>1 DEF Last
  <2> QED BY <1>5, <1>6, <2>2
<1>26. ASSUME NEW e \in watch'.always
       PROVE  (\E i \in 1..Len(shown) : shown[i] = e) \/ (more /\ Beyond(list, e, cursor))
  <2>1. e \in watch.always /\ e \in Alone(now) /\ e \in now
    BY <1>21, AloneIsPart
  <2>2. CASE \E i \in 1..Len(walk.shown) : walk.shown[i] = e
    <3>1. PICK i \in 1..Len(walk.shown) : walk.shown[i] = e
      BY <2>2
    <3>2. i \in 1..Len(shown) /\ shown[i] = e
      BY <1>4, <1>12, <3>1
    <3> QED BY <3>2
  <2>3. CASE Beyond(list, e, walk.cursor)
    <3>1. CASE \E i \in 1..Len(page) : page[i] = e
      <4>1. PICK i \in 1..Len(page) : page[i] = e
        BY <3>1
      <4>2. Len(walk.shown) + i \in 1..Len(shown) /\ shown[Len(walk.shown) + i] = e
        BY <1>4, <1>12, <4>1
      <4> QED BY <4>2
    <3>2. CASE more /\ Newer(list, page[PageLimit], e)
      <4>1. page[PageLimit] \in now
        BY <1>4, <1>10, <1>18, <3>2
      <4>2. Beyond(list, e, stand)
        BY <1>5, <1>19, <2>1, <3>2, <4>1, OlderIsBeyond
      <4> QED BY <1>6, <3>2, <4>2
    <3> QED BY <1>4, <1>18, <2>1, <2>3, <3>1, <3>2
  <2> QED BY <2>1, <2>2, <2>3 DEF FollowInv, WalkInv, Awaited, Seen
<1>27. Awaited'
  <2>1. watch'.always \subseteq Alone(ListRows(walk.list))'
    BY <1>21, <1>22
  <2>2. \A e : Seen(e)' = \E i \in 1..Len(shown) : shown[i] = e
    BY <1>15 DEF Seen
  <2>3. \A e : Beyond(walk.list, e, walk.cursor)' = Beyond(list, e, cursor)
    BY <1>15 DEF Beyond, Other
  <2>4. at = "done" => ~more
    BY <1>7
  <2> QED BY <1>15, <1>26, <2>1, <2>2, <2>3, <2>4 DEF Awaited
<1>28. StoodStill'
  <2> SUFFICES ASSUME watch.still
               PROVE  /\ watch'.always = Alone(now)
                      /\ \A i \in 1..Len(shown) : shown[i] \in now
                      /\ list # "myFollowing" => walk.counted = Cardinality(now)
    <3>1. ListRows(walk.list)' = now
      BY <1>15, <1>17, <1>18
    <3> QED BY <1>15, <1>21, <1>22, <3>1 DEF StoodStill
  <2>1. watch.always = Alone(now) /\ (\A i \in 1..Len(walk.shown) : walk.shown[i] \in now)
        /\ (list # "myFollowing" => walk.counted = Cardinality(now))
    BY <1>18 DEF FollowInv, WalkInv, StoodStill
  <2>2. ASSUME NEW i \in 1..Len(shown) PROVE shown[i] \in now
    <3>1. CASE i <= Len(walk.shown)
      BY <1>12, <2>1, <3>1
    <3>2. CASE i > Len(walk.shown)
      <4>1. i - Len(walk.shown) \in 1..Len(page)
            /\ shown[Len(walk.shown) + (i - Len(walk.shown))] = page[i - Len(walk.shown)]
            /\ Len(walk.shown) + (i - Len(walk.shown)) = i
        BY <1>4, <1>12, <3>2
      <4> QED BY <1>4, <1>18, <4>1
    <3> QED BY <1>12, <3>1, <3>2
  <2> QED BY <1>21, <2>1, <2>2
<1>29. walk'.at # "idle"
  BY <1>14, <1>15
<1> QED BY <1>15, <1>16, <1>21, <1>24, <1>25, <1>27, <1>28, <1>29 DEF FollowInv, WalkInv

LEMMA RefusedKeeps ==
  ASSUME FollowInv, NEW list, walk.list = list, walk.at = "more",
         UNCHANGED <<public, mirror, edges, instant, ask, edit, notices>>, Refused, Watch
  PROVE  FollowInv'
<1>1. walk \in WalkType /\ list \in WalkLists
  BY DEF FollowInv, WalkInv, WalkType
<1>2. walk' = [walk EXCEPT !.at = "refused"]
  BY DEF Refused
<1>3. /\ walk' \in WalkType /\ walk'.list = list /\ walk'.at = "refused"
      /\ walk'.shown = walk.shown
  BY <1>1, <1>2 DEF WalkType
<1>4. FollowTables'
  BY DEF FollowInv, FollowTables
<1>5. PICK now : now = ListRows(list)
  OBVIOUS
<1>6. ListRows(list)' = now
  BY <1>1, <1>5, ListsStand
<1>7. ListRows(walk.list)' = now /\ Alone(ListRows(walk.list))' = Alone(now)
  BY <1>3, <1>6 DEF Alone
<1>8. watch' = [always |-> watch.always \cap Alone(now), still |-> watch.still /\ now = now]
  BY <1>5, <1>7 DEF Watch
<1>9. watch'.always = watch.always \cap Alone(now)
      /\ watch' \in [always : SUBSET Followed, still : BOOLEAN]
  <2>1. watch.always \subseteq Followed /\ watch.still \in BOOLEAN
    BY DEF FollowInv, WalkInv
  <2>2. PICK both : both = watch.always \cap Alone(now)
    OBVIOUS
  <2>3. watch' = [always |-> both, still |-> watch.still]
    BY <1>8, <2>1, <2>2
  <2> QED BY <2>1, <2>2, <2>3
<1>10. WalksForward'
  BY <1>3 DEF FollowInv, WalkInv, WalksForward, Newer, Other
<1>11. Awaited'
  <2>1. watch'.always \subseteq Alone(ListRows(walk.list))'
    BY <1>7, <1>9
  <2> QED BY <1>3, <2>1 DEF Awaited
<1>12. CursorStands' /\ StoodStill'
  BY <1>3 DEF CursorStands, StoodStill
<1> QED BY <1>3, <1>4, <1>9, <1>10, <1>11, <1>12 DEF FollowInv, WalkInv

LEMMA ReadKeepsFollows ==
  ASSUME FollowInv, ReadLists, Watch
  PROVE  FollowInv'
<1>1. ASSUME NEW list, Reading(list), TurnPage(list) \/ Refused
      PROVE  FollowInv'
  BY <1>1, TurnPageKeeps, RefusedKeeps DEF Reading
<1>2. ASSUME NEW list \in {"followers", "following", "myFollowers", "myFollowing"}, ShowProfile(list)
      PROVE  FollowInv'
  BY <1>2, ShowProfileKeeps DEF WalkLists
<1> QED BY <1>1, <1>2 DEF ReadLists, FollowersPage, FollowingPage, MyFollowersPage, MyFollowingPage

LEMMA FollowBegins == FollowsInit => FollowInv
<1> SUFFICES ASSUME FollowsInit PROVE FollowInv
  OBVIOUS
<1>1. FollowTables
  <2>1. public \in [Travelers -> BOOLEAN] /\ mirror \in [Travelers -> BOOLEAN]
    BY DEF FollowsInit
  <2>2. edges \subseteq Followed /\ IsFiniteSet(edges) /\ instant \in 0..MaxInstant
    BY FS_EmptySet, FollowsAssumption DEF FollowsInit
  <2>3. ask \in [FollowAsks -> AskType] /\ \A a \in FollowAsks : ask[a].at = "idle"
    BY NoAskIsType DEF FollowsInit
  <2>4. edit \in [Edits -> [of : Someone, row : BOOLEAN]] /\ \A r \in Edits : edit[r] = NoEdit
    BY NoEditIsType DEF FollowsInit
  <2> QED BY <2>1, <2>2, <2>3, <2>4 DEF FollowTables, FollowsInit
<1>2. walk \in WalkType /\ walk = NoWalk
  BY NoWalkIsType DEF FollowsInit
<1>3. watch.always = {} /\ watch \in [always : SUBSET Followed, still : BOOLEAN]
  BY DEF FollowsInit
<1>4. walk.at = "idle" /\ walk.shown = <<>>
  BY <1>2, NoWalkFacts
<1> QED BY <1>1, <1>2, <1>3, <1>4
        DEF FollowInv, WalkInv, WalksForward, CursorStands, Awaited, StoodStill

LEMMA FollowStepKeeps ==
  ASSUME FollowInv, [FollowsStep]_followVars
  PROVE  FollowInv' /\ FollowsArePublic
<1>1. CASE UNCHANGED followVars
  <2>1. UNCHANGED <<public, mirror, edges, instant, ask, edit, notices, walk, watch>>
    BY <1>1 DEF followVars
  <2>2. FollowTables' /\ FollowsArePublic
    BY <2>1 DEF FollowInv, FollowTables, FollowsArePublic
  <2>3. WalkInv'
    <3>1. walk.list \in WalkLists /\ walk'.list = walk.list
      BY <2>1 DEF FollowInv, WalkInv, WalkType
    <3>2. ListRows(walk.list)' = ListRows(walk.list)
      BY <2>1 DEF ListRows, Followers, Following, MyFollowing, Shown
    <3>3. PICK now : now = ListRows(walk.list)
      OBVIOUS
    <3>4. ListRows(walk.list)' = now /\ Alone(ListRows(walk.list))' = Alone(now)
      BY <3>2, <3>3 DEF Alone
    <3>5. WalksForward' /\ CursorStands'
      BY <2>1 DEF FollowInv, WalkInv, WalksForward, CursorStands, Newer, Other, Last
    <3>6. Awaited'
      BY <2>1, <3>3, <3>4 DEF FollowInv, WalkInv, Awaited, Seen, Beyond, Other
    <3>7. StoodStill'
      BY <2>1, <3>3, <3>4 DEF FollowInv, WalkInv, StoodStill
    <3> QED BY <2>1, <3>5, <3>6, <3>7 DEF FollowInv, WalkInv
  <2> QED BY <2>2, <2>3 DEF FollowInv
<1>2. ASSUME NEW a \in FollowAsks, SaveFollow(a), Watch
      PROVE  FollowInv' /\ FollowsArePublic
  BY <1>2, SaveFollowKeeps
<1>3. ASSUME edges' \subseteq edges
      PROVE  FollowsArePublic
  BY <1>3 DEF FollowsArePublic
<1>4. ASSUME NEW a \in FollowAsks, NotifyFollow(a), Watch
      PROVE  FollowInv' /\ edges' \subseteq edges
  BY <1>4, NotifyFollowKeeps DEF NotifyFollow
<1>5. ASSUME NEW a \in FollowAsks, NEW u \in Travelers, NEW v \in Travelers, AskFollow(a, u, v), Watch
      PROVE  FollowInv' /\ edges' \subseteq edges
  BY <1>5, AskFollowKeeps DEF AskFollow
<1>6. ASSUME NEW u \in Travelers, NEW v \in Travelers, Unfollow(u, v), Watch
      PROVE  FollowInv' /\ edges' \subseteq edges
  BY <1>6, UnfollowKeeps DEF Unfollow
<1>7. ASSUME EditProfile, Watch
      PROVE  FollowInv' /\ edges' \subseteq edges
  BY <1>7, EditKeeps DEF EditProfile, UpdateProfile, FindUserByIdDurable, PutInMemory, ReloadUsers
<1>8. ASSUME ReadLists, Watch
      PROVE  FollowInv' /\ edges' \subseteq edges
  BY <1>8, ReadKeepsFollows
     DEF ReadLists, ShowProfile, FollowersPage, FollowingPage, MyFollowersPage, MyFollowingPage, Reading
<1>9. ASSUME InstantPasses, Watch
      PROVE  FollowInv' /\ edges' \subseteq edges
  BY <1>9, InstantKeeps DEF InstantPasses
<1> QED BY <1>1, <1>2, <1>3, <1>4, <1>5, <1>6, <1>7, <1>8, <1>9 DEF FollowsStep, Follow

\* A sequence that repeats nothing is as long as its set of members.
LEMMA AsLongAsMembers ==
  ASSUME NEW S, NEW s \in Seq(S), NEW list, S \subseteq Followed,
         \A i, j \in 1..Len(s) : i < j => Newer(list, s[i], s[j]),
         \A e \in S : \E i \in 1..Len(s) : s[i] = e
  PROVE  Len(s) = Cardinality(S)
<1>1. PICK n \in Nat : n = Len(s)
  OBVIOUS
<1>2. s \in [1..n -> S]
  BY <1>1
<1>3. \A i, j \in 1..n : s[i] = s[j] => i = j
  <2> SUFFICES ASSUME NEW i \in 1..n, NEW j \in 1..n, i < j PROVE s[i] # s[j]
    OBVIOUS
  <2>1. s[i] \in Followed /\ s[j] \in Followed /\ Newer(list, s[i], s[j])
    BY <1>1, <1>2
  <2> QED BY <2>1, NewerIsOrder
<1>4. s \in Bijection(1..n, S)
  <2>1. s \in Injection(1..n, S)
    BY <1>2, <1>3 DEF Injection, IsInjective
  <2>2. \A e \in S : \E i \in 1..n : s[i] = e
    BY <1>1
  <2>3. s \in Surjection(1..n, S)
    BY <1>2, <2>2 DEF Surjection
  <2> QED BY <2>1, <2>3 DEF Bijection
<1>5. IsFiniteSet(1..n) /\ Cardinality(1..n) = n
  BY FS_Interval
<1>6. ExistsBijection(1..n, S)
  BY <1>4 DEF ExistsBijection
<1> QED BY <1>1, <1>5, <1>6, FS_Bijection

LEMMA FollowInvTells == FollowInv => FollowsTypeOK /\ WalksForward /\ WalkIsComplete
<1> SUFFICES ASSUME FollowInv PROVE FollowsTypeOK /\ WalksForward /\ WalkIsComplete
  OBVIOUS
<1>1. FollowsTypeOK
  BY DEF FollowInv, FollowTables, WalkInv, FollowsTypeOK, AskType, WalkType
<1>2. WalkIsComplete
  <2> SUFFICES ASSUME walk.at = "done"
               PROVE  /\ \A e \in watch.always : Seen(e)
                      /\ watch.still /\ walk.list # "myFollowing"
                         /\ Alone(ListRows(walk.list)) = ListRows(walk.list)
                           => Len(walk.shown) = walk.counted
    BY DEF WalkIsComplete, Seen
  <2>1. \A e \in watch.always : Seen(e)
    BY DEF FollowInv, WalkInv, Awaited
  <2>2. ASSUME watch.still, walk.list # "myFollowing", Alone(ListRows(walk.list)) = ListRows(walk.list)
        PROVE  Len(walk.shown) = walk.counted
    <3>1. PICK now : now = ListRows(walk.list)
      OBVIOUS
    <3>2. watch.always = now /\ (\A i \in 1..Len(walk.shown) : walk.shown[i] \in now)
          /\ walk.counted = Cardinality(now)
      BY <2>2, <3>1 DEF FollowInv, WalkInv, StoodStill
    <3>3. now \subseteq Followed
      BY <3>1, RowsOfListDiffer DEF FollowInv, DistinctRows
    <3>4. walk.shown \in Seq(Followed)
      BY DEF FollowInv, WalkInv, WalkType
    <3>5. walk.shown \in Seq(now)
      BY <3>2, <3>4
    <3>6. \A i, j \in 1..Len(walk.shown) : i < j => Newer(walk.list, walk.shown[i], walk.shown[j])
      BY DEF FollowInv, WalkInv, WalksForward
    <3>7. \A e \in now : \E i \in 1..Len(walk.shown) : walk.shown[i] = e
      BY <2>1, <3>2 DEF Seen
    <3> QED BY <3>2, <3>3, <3>5, <3>6, <3>7, AsLongAsMembers
  <2> QED BY <2>1, <2>2
<1> QED BY <1>1, <1>2 DEF FollowInv, WalkInv

\* However travelers follow, hide and restart the server between two pages: a walk through
\* a list shows nobody twice, in order, and whoever was there all along; what the profile
\* counted when nothing changed; and a follow is begun between public profiles only,
\* whatever the memory says of them (routes/users.ts, repositories/users.ts).
THEOREM ListsAreWalked == FollowsSpec => []FollowsTypeOK /\ FollowsHold
<1>1. FollowsSpec => []FollowInv
  BY FollowBegins, FollowStepKeeps, PTL DEF FollowsSpec
<1>2. FollowsSpec => [][FollowsArePublic]_followVars
  <2>1. FollowInv /\ [FollowsStep]_followVars => [FollowsArePublic]_followVars
    BY FollowStepKeeps
  <2> QED BY <1>1, <2>1, PTL DEF FollowsSpec
<1> QED BY <1>1, <1>2, FollowInvTells, PTL DEF FollowsHold
-----------------------------------------------------------------------------
(* The route search *)

\* Legs and stays by stop.
Stays(p, r, k) == [j \in 1..k |-> Leg(p, r, j) + p.dwell[r[j]]]

LEMMA LeftIsSum ==
  ASSUME NEW p, NEW r, NEW k
  PROVE  Left(p, r, k) = SumFunctionOnSet(Stays(p, r, k), 1..k)
BY ZenonT(40) DEF Left, Stays, MapThenSumSet, MapThenFoldSet, SumFunctionOnSet, FoldFunctionOnSet

LEMMA StayIsNat ==
  ASSUME NEW p, IsProblem(p), NEW r \in Seq(Nodes(p)), NEW j \in 1..Len(r)
  PROVE  Leg(p, r, j) \in Nat /\ Leg(p, r, j) + p.dwell[r[j]] \in Nat
<1>1. \A i \in 1..Len(r) : r[i] \in DOMAIN p.value
  BY DEF Nodes
<1>2. r[j] \in DOMAIN p.value /\ p.dwell[r[j]] \in Nat
  BY <1>1 DEF IsProblem
<1>3. CASE j > 1
  <2>1. r[j - 1] \in DOMAIN p.value
    BY <1>1, <1>3
  <2>2. p.leg[<<r[j - 1], r[j]>>] \in Nat
    BY <1>2, <2>1 DEF IsProblem
  <2> QED BY <1>2, <1>3, <2>2 DEF Leg
<1>4. CASE j = 1
  <2>1. Leg(p, r, j) = IF p.start = NoStart THEN 0 ELSE p.leg[<<p.start, r[1]>>]
    BY <1>4 DEF Leg
  <2>2. p.start # NoStart => p.leg[<<p.start, r[1]>>] \in Nat
    BY <1>2, <1>4 DEF IsProblem
  <2> QED BY <1>2, <2>1, <2>2
<1> QED BY <1>3, <1>4

\* A prefix of a route leaves its stops when the route does.
LEMMA PrefixKeepsTime ==
  ASSUME NEW p, IsProblem(p), NEW r \in Seq(Nodes(p)), NEW n \in 1..Len(r),
         NEW q \in Seq(Nodes(p)), Len(q) = n, \A i \in 1..n : q[i] = r[i]
  PROVE  /\ \A i \in 1..n : Leg(p, q, i) = Leg(p, r, i)
         /\ \A k \in 0..n : Left(p, q, k) = Left(p, r, k) /\ Left(p, r, k) \in Int
<1>1. ASSUME NEW i \in 1..n PROVE Leg(p, q, i) = Leg(p, r, i)
  <2>1. q[i] = r[i] /\ 1 \in 1..n /\ q[1] = r[1]
    OBVIOUS
  <2>2. CASE i > 1
    <3>1. i - 1 \in 1..n
      BY <2>2
    <3>2. q[i - 1] = r[i - 1]
      BY <3>1
    <3> QED BY <2>1, <2>2, <3>2 DEF Leg
  <2>3. CASE ~(i > 1)
    <3>1. i = 1
      BY <2>3
    <3> QED BY <2>1, <3>1 DEF Leg
  <2> QED BY <2>2, <2>3
<1>2. ASSUME NEW k \in 0..n
      PROVE  Left(p, q, k) = Left(p, r, k) /\ Left(p, r, k) \in Int
  <2>1. \A i \in 1..k : i \in 1..n /\ i \in 1..Len(r)
    OBVIOUS
  <2>2. IsFiniteSet(1..k)
    BY FS_Interval
  <2>3. \A i \in 1..k : Stays(p, q, k)[i] = Stays(p, r, k)[i] /\ Stays(p, r, k)[i] \in Nat
    BY <1>1, <2>1, StayIsNat DEF Stays
  <2>4. SumFunctionOnSet(Stays(p, q, k), 1..k) = SumFunctionOnSet(Stays(p, r, k), 1..k)
    BY <2>2, <2>3, SumOfEqual
  <2>5. SumFunctionOnSet(Stays(p, r, k), 1..k) \in Nat
    BY <2>2, <2>3, SumIsNat
  <2> QED BY <2>4, <2>5, LeftIsSum
<1> QED BY <1>1, <1>2

LEMMA TimePasses ==
  ASSUME NEW p, IsProblem(p), NEW r \in Seq(Nodes(p)), NEW n \in 0..Len(r)
  PROVE  Left(p, r, n) <= Left(p, r, Len(r)) /\ Left(p, r, n) \in Int /\ Left(p, r, Len(r)) \in Int
<1>1. PICK m \in Nat : m = Len(r)
  OBVIOUS
<1>2. IsFiniteSet(1..m) /\ IsFiniteSet(1..n)
  BY FS_Interval
<1>3. \A i \in 1..m : Stays(p, r, m)[i] \in Nat
  BY <1>1, StayIsNat DEF Stays
<1>4. 1..n \subseteq 1..m
  BY <1>1
<1>5. \A i \in 1..n : Stays(p, r, n)[i] = Stays(p, r, m)[i]
  BY <1>4 DEF Stays
<1>6. SumFunctionOnSet(Stays(p, r, n), 1..n) = SumFunctionOnSet(Stays(p, r, m), 1..n)
  BY <1>2, <1>5, SumOfEqual
<1>7. SumFunctionOnSet(Stays(p, r, m), (1..m) \ (1..n))
        = SumFunctionOnSet(Stays(p, r, m), 1..m) - SumFunctionOnSet(Stays(p, r, m), 1..n)
  BY <1>2, <1>3, <1>4, SumOfRest
<1>8. SumFunctionOnSet(Stays(p, r, m), (1..m) \ (1..n)) \in Nat
  <2>1. IsFiniteSet((1..m) \ (1..n))
    BY <1>2, FS_Subset
  <2> QED BY <1>3, <2>1, SumIsNat
<1>9. SumFunctionOnSet(Stays(p, r, m), 1..m) \in Nat /\ SumFunctionOnSet(Stays(p, r, m), 1..n) \in Nat
  BY <1>2, <1>3, <1>4, SumIsNat
<1>10. Left(p, r, n) = SumFunctionOnSet(Stays(p, r, m), 1..n)
  BY <1>6, LeftIsSum
<1>11. Left(p, r, m) = SumFunctionOnSet(Stays(p, r, m), 1..m)
  BY LeftIsSum
<1>12. PICK a \in Nat, b \in Nat : a = Left(p, r, n) /\ b = Left(p, r, m) /\ b - a \in Nat
  BY <1>7, <1>8, <1>9, <1>10, <1>11
<1> QED BY <1>1, <1>12

Prefix(r, n) == SubSeq(r, 1, n)

\* Whoever walks a route within its limits has walked each prefix within them.
LEMMA PrefixIsPartial ==
  ASSUME NEW p, IsProblem(p), NEW r \in Seq(Nodes(p)), Partial(p, r), NEW n \in 1..Len(r),
         NEW q, q = Prefix(r, n)
  PROVE  q \in Seq(Nodes(p)) /\ Len(q) = n /\ Partial(p, q)
<1>1. q \in Seq(Nodes(p)) /\ Len(q) = n /\ \A i \in 1..n : q[i] = r[i]
  <2>1. \A i \in 1..n : i \in 1..Len(r) /\ r[i] \in Nodes(p)
    OBVIOUS
  <2>2. n \in Nat /\ n >= 1
    OBVIOUS
  <2>3. SubSeq(r, 1, n) \in Seq(Nodes(p)) /\ Len(SubSeq(r, 1, n)) = n - 1 + 1
        /\ \A i \in 1..(n - 1 + 1) : SubSeq(r, 1, n)[i] = r[1 + i - 1]
    BY <2>1, <2>2, SubSeqProperties
  <2> QED BY <2>2, <2>3 DEF Prefix
<1>2. DOMAIN q = 1..n /\ DOMAIN r = 1..Len(r)
  BY <1>1
<1>3. \A i \in 1..n : i \in DOMAIN r
  BY <1>2
<1>4. /\ \A i \in 1..n : Leg(p, q, i) = Leg(p, r, i)
      /\ \A k \in 0..n : Left(p, q, k) = Left(p, r, k)
  BY <1>1, PrefixKeepsTime
<1>5. Len(q) \in 1..p.max
  BY <1>1 DEF Partial, IsProblem
<1>6. ToSet(q) \subseteq Nodes(p) /\ IsInjective(q)
  BY <1>1, <1>2, <1>3 DEF ToSet, IsInjective, Partial
<1>7. ASSUME NEW i \in 1..n
      PROVE  /\ Leg(p, q, i) <= p.maxLeg
             /\ p.window[q[i]] # {} => Arrival(p, q, i) \in p.window[q[i]]
             /\ Cardinality(OfCategory(p, q, p.category[q[i]])) <= p.maxPerCategory
  <2>1. i \in DOMAIN r /\ q[i] = r[i] /\ Leg(p, q, i) = Leg(p, r, i) /\ i - 1 \in 0..n
    BY <1>1, <1>3, <1>4
  <2>2. Arrival(p, q, i) = Arrival(p, r, i)
    BY <1>4, <2>1 DEF Arrival
  <2>3. PICK c : c = p.category[r[i]]
    OBVIOUS
  <2>4. OfCategory(p, q, c) \subseteq OfCategory(p, r, c)
    BY <1>1, <1>2, <1>3 DEF OfCategory
  <2>5. IsFiniteSet(OfCategory(p, r, c))
    <3>1. IsFiniteSet(1..Len(r)) /\ OfCategory(p, r, c) \subseteq 1..Len(r)
      BY <1>2, FS_Interval DEF OfCategory
    <3> QED BY <3>1, FS_Subset
  <2>6. /\ Cardinality(OfCategory(p, q, c)) <= Cardinality(OfCategory(p, r, c))
        /\ Cardinality(OfCategory(p, q, c)) \in Nat /\ Cardinality(OfCategory(p, r, c)) \in Nat
    BY <2>4, <2>5, FS_Subset, FS_CardinalityType
  <2>7. /\ Leg(p, r, i) <= p.maxLeg
        /\ p.window[r[i]] # {} => Arrival(p, r, i) \in p.window[r[i]]
        /\ Cardinality(OfCategory(p, r, c)) <= p.maxPerCategory
    BY <2>1, <2>3 DEF Partial
  <2>8. p.maxPerCategory \in Int
    BY DEF IsProblem
  <2> QED BY <2>1, <2>2, <2>3, <2>6, <2>7, <2>8
<1>8. Left(p, q, Len(q)) <= p.budget
  <2>1. Left(p, q, n) = Left(p, r, n) /\ n \in 0..Len(r)
    BY <1>4
  <2>2. Left(p, r, n) <= Left(p, r, Len(r)) /\ Left(p, r, n) \in Int /\ Left(p, r, Len(r)) \in Int
    BY <2>1, TimePasses
  <2>3. Left(p, r, Len(r)) <= p.budget /\ p.budget \in Int
    BY DEF Partial, IsProblem
  <2> QED BY <1>1, <2>1, <2>2, <2>3
<1> QED BY <1>1, <1>2, <1>5, <1>6, <1>7, <1>8 DEF Partial

LEMMA FeasibleIsExact ==
  ASSUME NEW p, IsProblem(p), NEW r \in Seq(Nodes(p)), Feasible(p, r)
  PROVE  r \in ExactRoutes(p)
<1>1. PICK n \in Nat : n = Len(r)
  OBVIOUS
<1>2. n \in p.min..p.max
  BY <1>1 DEF Feasible, Partial, IsProblem
<1>3. r \in [1..n -> Nodes(p)]
  BY <1>1
<1>4. r \in RoutesOf(p)
  BY <1>2, <1>3 DEF RoutesOf
<1> QED BY <1>4 DEF ExactRoutes

LEMMA TargetIsNat ==
  ASSUME NEW p, IsProblem(p)
  PROVE  TargetStops(p) \in Nat /\ (p.must = {} => TargetStops(p) = p.min)
<1>1. Cardinality(p.must) \in Nat /\ p.min \in Nat /\ p.min >= 1
  BY FS_CardinalityType DEF IsProblem
<1>2. p.must = {} => Cardinality(p.must) = 0
  BY FS_EmptySet
<1> QED BY <1>1, <1>2 DEF TargetStops

LEMMA SeedIsFeasible ==
  ASSUME NEW p, IsProblem(p), NEW r \in Seeds(p)
  PROVE  r \in Seq(Nodes(p)) /\ Feasible(p, r)
<1>1. PICK n \in Nat : n = TargetStops(p)
  BY TargetIsNat
<1>2. r \in [1..n -> Nodes(p)] /\ Feasible(p, r)
  BY <1>1 DEF Seeds
<1> QED BY <1>2

\* Where a route exists and no stop is demanded, its prefix of the fewest stops is a seed.
LEMMA SeedsExist ==
  ASSUME NEW p, IsProblem(p), p.must = {}, NEW r \in ExactRoutes(p)
  PROVE  Seeds(p) # {}
<1>1. PICK n \in p.min..p.max : r \in [1..n -> Nodes(p)]
  BY DEF ExactRoutes, RoutesOf
<1>2. p.min \in Nat /\ p.min >= 1 /\ n \in Nat /\ p.min <= n
  BY DEF IsProblem
<1>3. r \in Seq(Nodes(p)) /\ Len(r) = n /\ p.min \in 1..Len(r)
  BY <1>1, <1>2
<1>4. Partial(p, r)
  BY DEF ExactRoutes, Feasible
<1>5. PICK q : q = Prefix(r, p.min)
  OBVIOUS
<1>6. q \in Seq(Nodes(p)) /\ Len(q) = p.min /\ Partial(p, q)
  BY <1>3, <1>4, <1>5, PrefixIsPartial
<1>7. Feasible(p, q)
  BY <1>2, <1>6 DEF Feasible
<1>8. DOMAIN q = 1..p.min /\ q \in [1..p.min -> Nodes(p)]
  BY <1>6
<1>9. ASSUME NEW k \in 1..p.min PROVE Extendable(p, SubSeq(q, 1, k))
  <2>1. k \in 1..Len(q)
    BY <1>6
  <2>2. PICK start : start = Prefix(q, k)
    OBVIOUS
  <2>3. Len(start) = k /\ Partial(p, start)
    BY <1>6, <2>1, <2>2, PrefixIsPartial
  <2>4. p.must \ ToSet(start) = {} /\ Cardinality({}) = 0
    BY FS_EmptySet
  <2>5. Cardinality(p.must \ ToSet(start)) + Len(start) <= TargetStops(p)
    BY <1>2, <2>3, <2>4, TargetIsNat
  <2>6. Extendable(p, start)
    BY <2>3, <2>5 DEF Extendable
  <2> QED BY <2>2, <2>6 DEF Prefix
<1>10. q \in Seeds(p)
  BY <1>7, <1>8, <1>9, TargetIsNat DEF Seeds
<1> QED BY <1>10

-----------------------------------------------------------------------------
(* Sequences of nodes *)

LEMMA PartOfRoute ==
  ASSUME NEW S, NEW s \in Seq(S), NEW a \in 1..(Len(s) + 1), NEW b \in 0..Len(s)
  PROVE  SubSeq(s, a, b) \in Seq(S) /\ Len(SubSeq(s, a, b)) = IF a <= b THEN b - a + 1 ELSE 0
<1>1. \A i \in a..b : s[i] \in S
  OBVIOUS
<1> QED BY <1>1, SubSeqProperties

LEMMA InsertStays ==
  ASSUME NEW S, NEW s \in Seq(S), NEW i \in 1..(Len(s) + 1), NEW e \in S
  PROVE  InsertAt(s, i, e) \in Seq(S)
<1>1. SubSeq(s, 1, i - 1) \in Seq(S)
  <2>1. 1 \in 1..(Len(s) + 1) /\ i - 1 \in 0..Len(s)
    OBVIOUS
  <2> QED BY <2>1, PartOfRoute
<1>2. SubSeq(s, i, Len(s)) \in Seq(S)
  <2>1. Len(s) \in 0..Len(s)
    OBVIOUS
  <2> QED BY <2>1, PartOfRoute
<1>3. PICK x \in Seq(S), y \in Seq(S) : x = SubSeq(s, 1, i - 1) /\ y = SubSeq(s, i, Len(s))
  BY <1>1, <1>2
<1>4. x \o <<e>> \o y \in Seq(S)
  BY <1>3
<1> QED BY <1>3, <1>4 DEF InsertAt

LEMMA RemoveStays ==
  ASSUME NEW S, NEW s \in Seq(S), NEW i \in 1..Len(s)
  PROVE  RemoveAt(s, i) \in Seq(S) /\ Len(RemoveAt(s, i)) = Len(s) - 1
<1>1. /\ 1 \in 1..(Len(s) + 1) /\ i - 1 \in 0..Len(s) /\ Len(s) \in 0..Len(s)
      /\ i + 1 \in 1..(Len(s) + 1)
  OBVIOUS
<1>2. SubSeq(s, 1, i - 1) \in Seq(S) /\ Len(SubSeq(s, 1, i - 1)) = IF 1 <= i - 1 THEN i - 1 - 1 + 1 ELSE 0
  BY <1>1, PartOfRoute
<1>3. SubSeq(s, i + 1, Len(s)) \in Seq(S)
      /\ Len(SubSeq(s, i + 1, Len(s))) = IF i + 1 <= Len(s) THEN Len(s) - (i + 1) + 1 ELSE 0
  BY <1>1, PartOfRoute
<1>4. PICK x \in Seq(S), y \in Seq(S) : x = SubSeq(s, 1, i - 1) /\ y = SubSeq(s, i + 1, Len(s))
  BY <1>2, <1>3
<1>5. Len(x) = i - 1 /\ Len(y) = Len(s) - i
  BY <1>1, <1>2, <1>3, <1>4
<1>6. x \o y \in Seq(S) /\ Len(x \o y) = Len(x) + Len(y)
  BY ConcatProperties
<1>7. Len(x) + Len(y) = Len(s) - 1
  BY <1>1, <1>5
<1> QED BY <1>4, <1>6, <1>7 DEF RemoveAt

LEMMA ReplaceStays ==
  ASSUME NEW S, NEW s \in Seq(S), NEW i \in 1..Len(s), NEW e \in S
  PROVE  ReplaceAt(s, i, e) \in Seq(S)
BY DEF ReplaceAt

LEMMA ReversedStays ==
  ASSUME NEW S, NEW s \in Seq(S), NEW b \in 1..Len(s), NEW a \in 1..b
  PROVE  SubSeq(s, 1, a - 1) \o Reverse(SubSeq(s, a, b)) \o SubSeq(s, b + 1, Len(s)) \in Seq(S)
<1>1. /\ 1 \in 1..(Len(s) + 1) /\ a - 1 \in 0..Len(s) /\ Len(s) \in 0..Len(s)
      /\ b + 1 \in 1..(Len(s) + 1) /\ a \in 1..(Len(s) + 1) /\ b \in 0..Len(s)
  OBVIOUS
<1>2. PICK x \in Seq(S), y \in Seq(S), z \in Seq(S) :
        x = SubSeq(s, 1, a - 1) /\ y = SubSeq(s, a, b) /\ z = SubSeq(s, b + 1, Len(s))
  BY <1>1, PartOfRoute
<1>3. Reverse(y) \in Seq(S)
  <2>1. PICK n \in Nat : n = Len(y)
    OBVIOUS
  <2>2. \A i \in 1..n : n - i + 1 \in 1..n /\ y[n - i + 1] \in S
    BY <2>1
  <2>3. Reverse(y) = [i \in 1..n |-> y[n - i + 1]]
    BY <2>1 DEF Reverse
  <2>4. Reverse(y) \in [1..n -> S]
    BY <2>2, <2>3
  <2> QED BY <2>4
<1>4. PICK w \in Seq(S) : w = Reverse(y)
  BY <1>3
<1>5. x \o w \o z \in Seq(S)
  OBVIOUS
<1> QED BY <1>2, <1>4, <1>5

LEMMA GrownIsRoute ==
  ASSUME IsProblem(problem), route \in Seq(Nodes(problem)), NEW r \in Grown
  PROVE  r \in Seq(Nodes(problem)) /\ Feasible(problem, r)
<1>1. PICK at \in 1..(Len(route) + 1), n \in Nodes(problem) : r = InsertAt(route, at, n)
  BY DEF Grown
<1>2. r \in Seq(Nodes(problem))
  BY <1>1, InsertStays
<1> QED BY <1>2 DEF Grown

LEMMA NeighbourIsRoute ==
  ASSUME route \in Seq(Nodes(problem)), NEW r \in Neighbours
  PROVE  r \in Seq(Nodes(problem))
<1>1. PICK S : S = Nodes(problem)
  OBVIOUS
<1>2. route \in Seq(S) /\ DOMAIN route = 1..Len(route) /\ \A i \in 1..Len(route) : route[i] \in S
  BY <1>1
<1>3. ASSUME NEW b \in 1..Len(route), NEW a \in 1..b,
             r = SubSeq(route, 1, a - 1) \o Reverse(SubSeq(route, a, b)) \o SubSeq(route, b + 1, Len(route))
      PROVE  r \in Seq(S)
  BY <1>2, <1>3, ReversedStays
<1>4. ASSUME NEW a \in 1..Len(route), NEW b \in 1..Len(route),
             r = InsertAt(RemoveAt(route, a), b, route[a])
      PROVE  r \in Seq(S)
  <2>1. PICK s \in Seq(S) : s = RemoveAt(route, a) /\ Len(s) = Len(route) - 1
    BY <1>2, RemoveStays
  <2>2. b \in 1..(Len(s) + 1) /\ route[a] \in S
    BY <1>2, <2>1
  <2> QED BY <1>4, <2>1, <2>2, InsertStays
<1>5. ASSUME NEW i \in 1..Len(route), NEW n \in S, r = ReplaceAt(route, i, n)
      PROVE  r \in Seq(S)
  BY <1>2, <1>5, ReplaceStays
<1>6. ASSUME NEW at \in 1..(Len(route) + 1), NEW n \in S, r = InsertAt(route, at, n)
      PROVE  r \in Seq(S)
  BY <1>2, <1>6, InsertStays
<1>7. ASSUME NEW i \in 1..Len(route), r = RemoveAt(route, i)
      PROVE  r \in Seq(S)
  BY <1>2, <1>7, RemoveStays
<1> SUFFICES r \in Seq(S)
  BY <1>1
<1>14. \/ r \in Reversals \/ r \in Relocations \/ r \in Replacements
       \/ r \in Insertions \/ r \in Removals
  BY DEF Neighbours
<1>15. CASE r \in Reversals
  <2>1. PICK b \in 1..Len(route) : r \in {SubSeq(route, 1, a - 1) \o Reverse(SubSeq(route, a, b))
                  \o SubSeq(route, b + 1, Len(route)) : a \in 1..b}
    BY <1>2, <1>15, Zenon DEF Reversals
  <2>2. PICK a \in 1..b : r = SubSeq(route, 1, a - 1) \o Reverse(SubSeq(route, a, b))
                  \o SubSeq(route, b + 1, Len(route))
    BY <2>1, Zenon
  <2> QED BY <1>3, <2>2
<1>16. CASE r \in Relocations
  BY <1>2, <1>4, <1>16 DEF Relocations
<1>17. CASE r \in Replacements
  BY <1>1, <1>2, <1>5, <1>17 DEF Replacements
<1>18. CASE r \in Insertions
  BY <1>1, <1>2, <1>6, <1>18 DEF Insertions
<1>19. CASE r \in Removals
  BY <1>2, <1>7, <1>19 DEF Removals
<1> QED BY <1>14, <1>15, <1>16, <1>17, <1>18, <1>19

-----------------------------------------------------------------------------
(* Relaxing *)

LEMMA RelaxedIsProblem ==
  ASSUME NEW p, IsProblem(p), NEW n \in 0..2, NEW q, q = Relaxation(p, n)
  PROVE  IsProblem(q) /\ q.must = p.must /\ Nodes(q) = Nodes(p)
<1>1. q \in {[p EXCEPT !.maxPerCategory = p.maxPerCategory + 1],
             [p EXCEPT !.maxLeg = p.maxLeg + 15],
             [p EXCEPT !.budget = p.budget + 60]}
  BY DEF Relaxation
<1>2. PICK b \in Int, l \in Int, c \in Int :
        q = [value |-> p.value, dwell |-> p.dwell, window |-> p.window, category |-> p.category,
             leg |-> p.leg, exclude |-> p.exclude, must |-> p.must, start |-> p.start,
             budget |-> b, min |-> p.min, max |-> p.max, maxLeg |-> l, maxPerCategory |-> c]
  <2>1. PICK T : T = [value : {p.value}, dwell : {p.dwell}, window : {p.window},
                      category : {p.category}, leg : {p.leg}, exclude : {p.exclude},
                      must : {p.must}, start : {p.start}, budget : Int, min : {p.min},
                      max : {p.max}, maxLeg : Int, maxPerCategory : Int]
    OBVIOUS
  <2>2. p.budget \in Int /\ p.maxLeg \in Int /\ p.maxPerCategory \in Int
    BY DEF IsProblem
  <2>3. p \in T
    BY <2>1, <2>2 DEF IsProblem
  <2>4. q \in T
    BY <1>1, <2>1, <2>2, <2>3
  <2>5. q.budget \in Int /\ q.maxLeg \in Int /\ q.maxPerCategory \in Int
        /\ q = [value |-> p.value, dwell |-> p.dwell, window |-> p.window, category |-> p.category,
                leg |-> p.leg, exclude |-> p.exclude, must |-> p.must, start |-> p.start,
                budget |-> q.budget, min |-> p.min, max |-> p.max, maxLeg |-> q.maxLeg,
                maxPerCategory |-> q.maxPerCategory]
    BY <2>1, <2>4
  <2> QED BY <2>5
<1>3. /\ q.value = p.value /\ q.dwell = p.dwell /\ q.window = p.window /\ q.category = p.category
      /\ q.leg = p.leg /\ q.exclude = p.exclude /\ q.must = p.must /\ q.start = p.start
      /\ q.min = p.min /\ q.max = p.max /\ q.budget = b /\ q.maxLeg = l /\ q.maxPerCategory = c
  BY <1>2
<1>4. q = [value |-> q.value, dwell |-> q.dwell, window |-> q.window, category |-> q.category,
           leg |-> q.leg, exclude |-> q.exclude, must |-> q.must, start |-> q.start,
           budget |-> q.budget, min |-> q.min, max |-> q.max, maxLeg |-> q.maxLeg,
           maxPerCategory |-> q.maxPerCategory]
  BY <1>2, <1>3
<1>5. IsProblem(q)
  BY <1>3, <1>4 DEF IsProblem
<1> QED BY <1>3, <1>5 DEF Nodes

LEMMA AsRelaxedSteps ==
  AsRelaxed(0) = asked /\ \A n \in 0..2 : AsRelaxed(n + 1) = Relaxation(AsRelaxed(n), n)
<1>1. AsRelaxed(0) = asked
  BY DEF AsRelaxed
<1>2. AsRelaxed(1) = Relaxation(asked, 0)
  BY DEF AsRelaxed
<1>3. AsRelaxed(2) = Relaxation(Relaxation(asked, 0), 1)
  BY DEF AsRelaxed
<1>4. AsRelaxed(3) = Relaxation(Relaxation(Relaxation(asked, 0), 1), 2)
  BY DEF AsRelaxed
<1> QED BY <1>1, <1>2, <1>3, <1>4

-----------------------------------------------------------------------------
(* The invariant of the search *)

HasRoute == phase \in {"grow", "move", "done"}

SolverInv ==
  /\ phase \in {"seed", "grow", "move", "done", "failed"} /\ relaxed \in 0..3 /\ moved \in 0..Moves
  /\ late \in BOOLEAN
  /\ IsProblem(asked) /\ IsProblem(problem) /\ problem = AsRelaxed(relaxed)
  /\ problem.must = asked.must
  /\ route \in Seq(Nodes(problem))
  /\ HasRoute => Feasible(problem, route)
  /\ ~late /\ asked.must = {} =>
       /\ phase = "failed" => ExactRoutes(problem) = {}
       /\ \A n \in 0..(relaxed - 1) : ExactRoutes(AsRelaxed(n)) = {}

LEMMA RelaxedStays ==
  ASSUME asked' = asked
  PROVE  \A n \in 0..3 : AsRelaxed(n)' = AsRelaxed(n)
BY DEF AsRelaxed

LEMMA SolverBegins == SolverInit => SolverInv
<1> SUFFICES ASSUME SolverInit PROVE SolverInv
  OBVIOUS
<1>1. IsProblem(problem) /\ asked = problem /\ Moves \in Nat
  BY SolverAssumption DEF SolverInit
<1>2. <<>> \in Seq(Nodes(problem))
  OBVIOUS
<1>3. problem = AsRelaxed(0)
  BY <1>1, AsRelaxedSteps
<1>4. phase = "seed" /\ relaxed = 0 /\ moved = 0 /\ late = FALSE /\ route = <<>>
  BY DEF SolverInit
<1>5. relaxed \in 0..3 /\ moved \in 0..Moves /\ 0..(relaxed - 1) = {}
  BY <1>1, <1>4
<1> QED BY <1>1, <1>2, <1>3, <1>4, <1>5 DEF SolverInv, HasRoute

\* Steps that search in the problem as it is.
LEMMA SearchKeeps ==
  ASSUME SolverInv, UNCHANGED <<problem, asked, relaxed>>,
         phase' \in {"seed", "grow", "move", "done", "failed"}, moved' \in 0..Moves,
         late' \in BOOLEAN, late => late',
         route' \in Seq(Nodes(problem)), HasRoute' => Feasible(problem, route'),
         phase' = "failed" /\ ~late' /\ asked.must = {} => ExactRoutes(problem) = {}
  PROVE  SolverInv'
<1>1. relaxed \in 0..3 /\ \A n \in 0..3 : AsRelaxed(n)' = AsRelaxed(n)
  BY RelaxedStays DEF SolverInv
<1>2. AsRelaxed(relaxed)' = AsRelaxed(relaxed)
  BY <1>1
<1>3. \A n \in 0..(relaxed - 1) : n \in 0..3 /\ ExactRoutes(AsRelaxed(n))' = ExactRoutes(AsRelaxed(n))
  <2> SUFFICES ASSUME NEW n \in 0..(relaxed - 1)
               PROVE  n \in 0..3 /\ ExactRoutes(AsRelaxed(n))' = ExactRoutes(AsRelaxed(n))
    OBVIOUS
  <2>1. n \in 0..3
    BY <1>1
  <2>2. AsRelaxed(n)' = AsRelaxed(n)
    BY <1>1, <2>1
  <2>3. PICK p : p = AsRelaxed(n)
    OBVIOUS
  <2>4. ExactRoutes(AsRelaxed(n))' = ExactRoutes(p)
    BY <2>2, <2>3
  <2> QED BY <2>1, <2>3, <2>4
<1>4. \/ late' \/ asked.must # {}
      \/ (\A n \in 0..(relaxed - 1) : ExactRoutes(AsRelaxed(n)) = {})
  BY DEF SolverInv
<1>5. ~late' /\ asked'.must = {} =>
        /\ phase' = "failed" => ExactRoutes(problem') = {}
        /\ \A n \in 0..(relaxed' - 1) : ExactRoutes(AsRelaxed(n))' = {}
  BY <1>3, <1>4
<1>6. problem' = AsRelaxed(relaxed)'
  BY <1>2 DEF SolverInv
<1> QED BY <1>5, <1>6 DEF SolverInv

LEMMA RelaxKeeps ==
  ASSUME SolverInv, Relax
  PROVE  SolverInv'
<1>1. relaxed \in 0..2 /\ relaxed' = relaxed + 1 /\ problem' = Relaxation(problem, relaxed)
      /\ phase = "failed" /\ phase' = "seed" /\ UNCHANGED <<asked, route, late, moved>>
  BY DEF Relax, SolverInv
<1>2. IsProblem(problem') /\ problem'.must = problem.must /\ Nodes(problem') = Nodes(problem)
  BY <1>1, RelaxedIsProblem DEF SolverInv
<1>3. \A n \in 0..3 : AsRelaxed(n)' = AsRelaxed(n)
  BY <1>1, RelaxedStays
<1>4. problem' = AsRelaxed(relaxed)'
  <2>1. AsRelaxed(relaxed + 1) = Relaxation(AsRelaxed(relaxed), relaxed)
    BY <1>1, AsRelaxedSteps
  <2>2. relaxed + 1 \in 0..3
    BY <1>1
  <2> QED BY <1>1, <1>3, <2>1, <2>2 DEF SolverInv
<1>5. ASSUME ~late, asked.must = {}, NEW n \in 0..relaxed
      PROVE  ExactRoutes(AsRelaxed(n))' = {}
  <2>1. n \in 0..3 /\ AsRelaxed(n)' = AsRelaxed(n)
    BY <1>1, <1>3
  <2>2. CASE n = relaxed
    <3>1. AsRelaxed(n) = problem /\ ExactRoutes(problem) = {}
      BY <1>1, <1>5, <2>2 DEF SolverInv
    <3> QED BY <2>1, <3>1
  <2>3. CASE n # relaxed
    <3>1. n \in 0..(relaxed - 1)
      BY <1>1, <2>3
    <3>2. ExactRoutes(AsRelaxed(n)) = {}
      BY <1>5, <3>1 DEF SolverInv
    <3> QED BY <2>1, <3>2
  <2> QED BY <2>2, <2>3
<1>6. relaxed' \in 0..3 /\ 0..(relaxed' - 1) = 0..relaxed
  BY <1>1
<1>7. route' \in Seq(Nodes(problem'))
  BY <1>1, <1>2 DEF SolverInv
<1>8. ~late' /\ asked'.must = {} => \A n \in 0..(relaxed' - 1) : ExactRoutes(AsRelaxed(n))' = {}
  BY <1>1, <1>5, <1>6
<1> QED BY <1>1, <1>2, <1>4, <1>6, <1>7, <1>8 DEF SolverInv, HasRoute

LEMMA SolverStepKeeps ==
  ASSUME SolverInv, [SolverStep]_solverVars
  PROVE  SolverInv'
<1>1. IsProblem(problem) /\ route \in Seq(Nodes(problem)) /\ late \in BOOLEAN /\ moved \in 0..Moves
      /\ problem.must = asked.must
  BY DEF SolverInv
<1>2. CASE UNCHANGED solverVars
  <2>1. UNCHANGED <<problem, asked, route, phase, relaxed, late, moved>>
    BY <1>2 DEF solverVars
  <2> QED BY <2>1, SearchKeeps DEF SolverInv, HasRoute
<1>3. CASE FindFeasibleSeed
  <2>1. UNCHANGED <<problem, asked, relaxed, moved>>
    BY <1>3 DEF FindFeasibleSeed
  <2>2. ASSUME NEW r \in Seeds(problem), route' = r, phase' = "grow", UNCHANGED late
        PROVE  SolverInv'
    <3>1. r \in Seq(Nodes(problem)) /\ Feasible(problem, r)
      BY <1>1, SeedIsFeasible
    <3> QED BY <1>1, <2>1, <2>2, <3>1, SearchKeeps
  <2>3. ASSUME Seeds(problem) = {}, phase' = "failed", UNCHANGED <<route, late>>
        PROVE  SolverInv'
    <3>1. asked.must = {} => ExactRoutes(problem) = {}
      BY <1>1, <2>3, SeedsExist
    <3>2. ~HasRoute'
      BY <2>3 DEF HasRoute
    <3> QED BY <1>1, <2>1, <2>3, <3>1, <3>2, SearchKeeps
  <2>4. ASSUME phase' = "failed", late' = TRUE, UNCHANGED route
        PROVE  SolverInv'
    <3>1. ~HasRoute'
      BY <2>4 DEF HasRoute
    <3> QED BY <1>1, <2>1, <2>4, <3>1, SearchKeeps
  <2> QED BY <1>3, <2>2, <2>3, <2>4 DEF FindFeasibleSeed
<1>4. CASE Grow
  <2>1. UNCHANGED <<problem, asked, relaxed, moved>> /\ HasRoute
    BY <1>4 DEF Grow, HasRoute
  <2>2. Feasible(problem, route)
    BY <2>1 DEF SolverInv
  <2>3. ASSUME NEW r \in Grown \cup {route}, route' = r, phase' \in {"grow", "done"}, late' \in BOOLEAN, late => late'
        PROVE  SolverInv'
    <3>1. r \in Seq(Nodes(problem)) /\ Feasible(problem, r)
      BY <1>1, <2>2, GrownIsRoute
    <3> QED BY <1>1, <2>1, <2>3, <3>1, SearchKeeps
  <2>4. ASSUME phase' = "move", UNCHANGED <<route, late>>
        PROVE  SolverInv'
    BY <1>1, <2>1, <2>2, <2>4, SearchKeeps
  <2>5. phase = "grow"
    BY <1>4 DEF Grow
  <2> QED BY <1>1, <1>4, <2>3, <2>4, <2>5 DEF Grow
<1>5. CASE Improve
  <2>1. PICK r \in Neighbours : Feasible(problem, r) /\ route' = r
    BY <1>5 DEF Improve
  <2>2. UNCHANGED <<problem, asked, phase, relaxed, late>> /\ phase = "move"
    BY <1>5 DEF Improve
  <2>3. moved' \in 0..Moves
    BY <1>1, <1>5, SolverAssumption DEF Improve
  <2>4. r \in Seq(Nodes(problem))
    BY <1>1, NeighbourIsRoute
  <2> QED BY <1>1, <2>1, <2>2, <2>3, <2>4, SearchKeeps
<1>6. CASE EndMoves
  <2>1. phase = "move" /\ phase' = "done" /\ UNCHANGED <<problem, asked, route, relaxed, late, moved>>
    BY <1>6 DEF EndMoves
  <2>2. Feasible(problem, route)
    BY <2>1 DEF SolverInv, HasRoute
  <2> QED BY <1>1, <2>1, <2>2, SearchKeeps
<1> QED BY <1>2, <1>3, <1>4, <1>5, <1>6, RelaxKeeps DEF SolverStep

LEMMA SolverInvTells == SolverInv => SolverTypeOK /\ FindsWhatExists
<1> SUFFICES ASSUME SolverInv PROVE SolverTypeOK /\ FindsWhatExists
  OBVIOUS
<1>1. SolverTypeOK
  <2>1. ToSet(route) \subseteq Nodes(problem)
    BY DEF SolverInv, ToSet
  <2> QED BY <2>1 DEF SolverInv, SolverTypeOK
<1>2. HasRoute => route \in ExactRoutes(problem)
  BY FeasibleIsExact DEF SolverInv
<1> QED BY <1>1, <1>2 DEF SolverInv, FindsWhatExists, HasRoute

\* Whatever the problem and wherever the deadlines fall: what the local search returns is a
\* route of the exhaustive one; where no deadline passed and no stop is demanded it finds a
\* route if there is one, and relaxes no limit without need (trails/solver/local.ts,
\* trails/solver/exact.ts, trails/generate.ts).
THEOREM SearchFinds == SolverSpec => [](SolverTypeOK /\ FindsWhatExists)
<1> QED BY SolverBegins, SolverStepKeeps, SolverInvTells, PTL DEF SolverSpec

-----------------------------------------------------------------------------
-----------------------------------------------------------------------------
(* Sessions: types.  A call that waits for a lookup is one of the process it
   came to, and waits in one place. *)

Waiting == {"visit", "upgrade", "revoke"}
CallRow == [op : Waiting \cup {"none", "issue", "bump", "forget"}, at : Processes \cup {"none"},
            token : Int]
FailureRow == {f \in [count : 0..MaxFailures, until : Nat] : f.until = 0 => f.count < MaxFailures}

CallsWait ==
  \A p \in Processes, k \in Calls :
    /\ k \in queue[p] \cup flight[p].callers => call[k].at = p /\ call[k].op \in Waiting
    /\ ~(k \in queue[p] /\ k \in flight[p].callers)

TokensKnown ==
  /\ secret \in Epochs /\ issued \subseteq 0..epoch /\ tick \in 0..MaxTick
  /\ \A p \in Processes :
       scope[p].epoch \in {Unread} \cup 0..epoch /\ flight[p].read \in {Unread} \cup 0..epoch

SessionTypes ==
  /\ TokensKnown /\ CallsWait
  /\ call \in [Calls -> CallRow] /\ failures \in [Processes -> FailureRow]

LEMMA IdleIsCall ==
  Idle \in CallRow /\ Idle.op = "none"
  BY DEF Idle, CallRow

LEMMA SessionTypesInit ==
  ASSUME SessionInit
  PROVE  SessionTypes
  <1>1. PICK nothing, landed, none, idle :
          nothing = Nothing /\ landed = Landed /\ none = NoFailure /\ idle = Idle
    OBVIOUS
  <1>2. /\ nothing.epoch = Unread /\ landed.callers = {} /\ landed.read = Unread
        /\ none \in FailureRow /\ idle \in CallRow
    <2>1. none \in [count : 0..MaxFailures, until : Nat] /\ none.count = 0
      BY <1>1, SessionsAssumption DEF NoFailure
    <2>. QED  BY <1>1, <2>1, IdleIsCall, SessionsAssumption DEF Nothing, Landed, FailureRow
  <1>3. /\ epoch = 0 /\ secret = 0 /\ issued = {0} /\ tick = 0
        /\ scope = [p \in Processes |-> nothing] /\ queue = [p \in Processes |-> {}]
        /\ flight = [p \in Processes |-> landed] /\ failures = [p \in Processes |-> none]
        /\ call = [k \in Calls |-> idle]
    BY <1>1 DEF SessionInit
  <1>. QED  BY <1>2, <1>3, SessionsAssumption DEF SessionTypes, TokensKnown, CallsWait, Epochs

\* The epoch of a token is one there was, and stays one.
LEMMA KnownStays ==
  ASSUME SessionInv, TokensKnown, epoch' \in Nat, epoch <= epoch', secret' = secret, tick' = tick,
         issued' \subseteq 0..epoch',
         \A p \in Processes :
           /\ scope'[p].epoch \in {Unread} \cup 0..epoch
           /\ flight'[p].read \in {Unread} \cup 0..epoch
  PROVE  TokensKnown'
  <1>1. epoch \in Nat /\ 0..epoch \subseteq 0..epoch'
    BY TicksCount DEF SessionInv, SessionClock, Epochs
  <1>. QED  BY <1>1 DEF TokensKnown, Epochs, Unread

LEMMA TypesAuthenticate ==
  ASSUME SessionInv, SessionTypes, NEW k \in Calls, NEW p \in Processes, NEW op \in Waiting,
         NEW token \in issued, Authenticate(k, p, op, token)
  PROVE  SessionTypes'
  <1>1. UNCHANGED <<epoch, secret, issued, scope, flight, tick, failures>> /\ call[k] = Idle
    BY DEF Authenticate
  <1>2. TokensKnown'
    BY <1>1 DEF TokensKnown, SessionTypes, Epochs
  <1>3. PICK arrived : arrived = [op |-> op, at |-> p, token |-> token]
    OBVIOUS
  <1>4. arrived \in CallRow /\ arrived.op = op /\ arrived.at = p
    <2>1. token \in Int
      BY TicksCount DEF SessionTypes, TokensKnown, SessionInv, SessionClock, Epochs
    <2>. QED  BY <1>3, <2>1 DEF CallRow
  <1>5. call[k].op = "none" /\ \A q \in Processes : k \notin queue[q] \cup flight[q].callers
    BY <1>1, IdleIsCall DEF SessionTypes, CallsWait, Waiting
  <1>6. CASE Cached(p)
    <2>1. PICK after : after = Accepted(arrived, scope[p].epoch)
      OBVIOUS
    <2>2. call' = [call EXCEPT ![k] = after] /\ UNCHANGED queue
      BY <1>3, <1>6, <2>1 DEF Authenticate
    <2>3. after \in CallRow
      <3>1. After(op) \in {"none", "issue", "bump"}
        BY DEF After, Waiting
      <3>2. PICK next : next = [arrived EXCEPT !.op = After(op)]
        OBVIOUS
      <3>3. next \in CallRow
        BY <1>4, <3>1, <3>2 DEF CallRow
      <3>. QED  BY <1>4, <2>1, <3>2, <3>3, IdleIsCall DEF Accepted
    <2>4. call' \in [Calls -> CallRow] /\ \A j \in Calls \ {k} : call'[j] = call[j]
      BY <2>2, <2>3 DEF SessionTypes
    <2>5. CallsWait'
      BY <1>1, <1>5, <2>2, <2>4 DEF SessionTypes, CallsWait
    <2>. QED  BY <1>1, <1>2, <2>4, <2>5 DEF SessionTypes
  <1>7. CASE ~Cached(p)
    <2>1. call' = [call EXCEPT ![k] = arrived] /\ queue' = [queue EXCEPT ![p] = queue[p] \cup {k}]
      BY <1>3, <1>7 DEF Authenticate
    <2>2. /\ call' \in [Calls -> CallRow] /\ call'[k] = arrived
          /\ \A j \in Calls \ {k} : call'[j] = call[j]
      BY <1>4, <2>1 DEF SessionTypes
    <2>3. \A q \in Processes : queue'[q] = IF q = p THEN queue[q] \cup {k} ELSE queue[q]
      BY <2>1 DEF SessionInv, SessionClock
    <2>4. ASSUME NEW q \in Processes, NEW j \in Calls
          PROVE  /\ j \in queue'[q] \cup flight'[q].callers => call'[j].at = q /\ call'[j].op \in Waiting
                 /\ ~(j \in queue'[q] /\ j \in flight'[q].callers)
      <3>1. CASE j = k
        BY <1>1, <1>4, <1>5, <2>2, <2>3, <3>1
      <3>2. CASE j # k
        <4>1. /\ j \in queue[q] \cup flight[q].callers => call[j].at = q /\ call[j].op \in Waiting
              /\ ~(j \in queue[q] /\ j \in flight[q].callers)
          BY DEF SessionTypes, CallsWait
        <4>2. flight'[q].callers = flight[q].callers /\ (j \in queue'[q] <=> j \in queue[q])
              /\ call'[j] = call[j]
          BY <1>1, <2>2, <2>3, <3>2
        <4>. QED  BY <4>1, <4>2
      <3>. QED  BY <3>1, <3>2
    <2>5. CallsWait'
      BY <2>4 DEF CallsWait
    <2>. QED  BY <1>1, <1>2, <2>2, <2>5 DEF SessionTypes
  <1>. QED  BY <1>6, <1>7

LEMMA TypesLookup ==
  ASSUME SessionInv, SessionTypes, NEW p \in Processes,
         ExecuteBatch(p) \/ FindSessionScopes(p) \/ ResolveBatch(p) \/ RejectBatch(p)
         \/ RestartProcess(p)
  PROVE  SessionTypes'
  <1>1. /\ UNCHANGED <<epoch, secret, issued, tick>> /\ epoch \in Nat
        /\ flight \in [Processes -> Flights] /\ queue \in [Processes -> SUBSET Calls]
        /\ scope \in [Processes -> Scopes]
    BY TicksCount DEF ExecuteBatch, FindSessionScopes, ResolveBatch, RejectBatch, RestartProcess,
       SessionInv, SessionClock, Epochs
  <1>2. PICK landed, nothing, idle, none :
          landed = Landed /\ nothing = Nothing /\ idle = Idle /\ none = NoFailure
    OBVIOUS
  <1>3. /\ landed.callers = {} /\ landed.read = Unread /\ nothing.epoch = Unread
        /\ idle \in CallRow /\ none \in FailureRow
    <2>1. none \in [count : 0..MaxFailures, until : Nat] /\ none.count = 0
      BY <1>2, SessionsAssumption DEF NoFailure
    <2>. QED  BY <1>2, <2>1, IdleIsCall, SessionsAssumption DEF Nothing, Landed, FailureRow
  <1>4. CASE ExecuteBatch(p)
    <2>1. PICK batch : batch = [callers |-> queue[p], since |-> tick, read |-> Unread]
      OBVIOUS
    <2>2. /\ flight' = [flight EXCEPT ![p] = batch] /\ queue' = [queue EXCEPT ![p] = {}]
          /\ UNCHANGED <<scope, call, failures>> /\ batch.callers = queue[p] /\ batch.read = Unread
      BY <1>4, <2>1 DEF ExecuteBatch
    <2>3. \A q \in Processes : /\ flight'[q] = IF q = p THEN batch ELSE flight[q]
                               /\ queue'[q] = IF q = p THEN {} ELSE queue[q]
      BY <1>1, <2>2
    <2>4. CallsWait'
      BY <2>2, <2>3 DEF SessionTypes, CallsWait
    <2>5. TokensKnown'
      BY <1>1, <2>2, <2>3 DEF SessionTypes, TokensKnown, Epochs, Unread
    <2>. QED  BY <2>2, <2>4, <2>5 DEF SessionTypes
  <1>5. CASE FindSessionScopes(p)
    <2>1. PICK batch : batch = [flight[p] EXCEPT !.read = epoch]
      OBVIOUS
    <2>2. flight' = [flight EXCEPT ![p] = batch] /\ UNCHANGED <<scope, queue, call, failures>>
      BY <1>5, <2>1 DEF FindSessionScopes
    <2>3. batch.callers = flight[p].callers /\ batch.read = epoch
      BY <1>1, <2>1 DEF Flights
    <2>4. \A q \in Processes : flight'[q] = IF q = p THEN batch ELSE flight[q]
      BY <1>1, <2>2
    <2>5. CallsWait'
      BY <2>2, <2>3, <2>4 DEF SessionTypes, CallsWait
    <2>6. TokensKnown'
      BY <1>1, <2>2, <2>3, <2>4 DEF SessionTypes, TokensKnown, Epochs, Unread
    <2>. QED  BY <2>2, <2>5, <2>6 DEF SessionTypes
  <1>6. CASE ResolveBatch(p)
    <2>1. PICK entry : entry = [epoch |-> flight[p].read, until |-> tick + Ttl]
      OBVIOUS
    <2>2. /\ scope' = [scope EXCEPT ![p] = entry] /\ flight' = [flight EXCEPT ![p] = landed]
          /\ call' = [k \in Calls |-> IF k \in flight[p].callers THEN Accepted(call[k], flight[p].read)
                                      ELSE call[k]]
          /\ UNCHANGED <<queue, failures>> /\ flight[p].read # Unread
      BY <1>2, <1>6, <2>1 DEF ResolveBatch
    <2>3. entry.epoch = flight[p].read
      BY <2>1
    <2>4. \A q \in Processes : /\ flight'[q] = IF q = p THEN landed ELSE flight[q]
                               /\ scope'[q] = IF q = p THEN entry ELSE scope[q]
      BY <1>1, <2>2
    <2>5. ASSUME NEW k \in Calls, k \in flight[p].callers
          PROVE  Accepted(call[k], flight[p].read) \in CallRow
      <3>1. call[k] \in CallRow /\ call[k].op \in Waiting
        BY <2>5 DEF SessionTypes, CallsWait
      <3>2. After(call[k].op) \in {"none", "issue", "bump"}
        BY <3>1 DEF After, Waiting
      <3>3. PICK next : next = [call[k] EXCEPT !.op = After(call[k].op)]
        OBVIOUS
      <3>4. next \in CallRow
        BY <3>1, <3>2, <3>3 DEF CallRow
      <3>. QED  BY <3>3, <3>4, IdleIsCall DEF Accepted
    <2>6. /\ call' \in [Calls -> CallRow]
          /\ \A k \in Calls \ flight[p].callers : call'[k] = call[k]
      BY <2>2, <2>5 DEF SessionTypes
    <2>7. CallsWait'
      <3>1. ASSUME NEW q \in Processes, NEW k \in Calls, k \in queue'[q] \cup flight'[q].callers
            PROVE  k \notin flight[p].callers
        BY <1>3, <2>2, <2>4, <3>1 DEF SessionTypes, CallsWait
      <3>. QED  BY <1>3, <2>2, <2>4, <2>6, <3>1 DEF SessionTypes, CallsWait
    <2>8. TokensKnown'
      BY <1>1, <1>3, <2>2, <2>3, <2>4 DEF SessionTypes, TokensKnown, Epochs, Unread
    <2>. QED  BY <2>2, <2>6, <2>7, <2>8 DEF SessionTypes
  <1>7. CASE RejectBatch(p)
    <2>1. /\ call' = [k \in Calls |-> IF k \in flight[p].callers THEN idle ELSE call[k]]
          /\ flight' = [flight EXCEPT ![p] = landed] /\ UNCHANGED <<scope, queue, failures>>
      BY <1>2, <1>7 DEF RejectBatch
    <2>2. \A q \in Processes : flight'[q] = IF q = p THEN landed ELSE flight[q]
      BY <1>1, <2>1
    <2>3. /\ call' \in [Calls -> CallRow]
          /\ \A k \in Calls \ flight[p].callers : call'[k] = call[k]
      BY <1>3, <2>1 DEF SessionTypes
    <2>4. CallsWait'
      <3>1. ASSUME NEW q \in Processes, NEW k \in Calls, k \in queue'[q] \cup flight'[q].callers
            PROVE  k \notin flight[p].callers
        BY <1>3, <2>1, <2>2, <3>1 DEF SessionTypes, CallsWait
      <3>. QED  BY <1>3, <2>1, <2>2, <2>3, <3>1 DEF SessionTypes, CallsWait
    <2>5. TokensKnown'
      BY <1>1, <1>3, <2>1, <2>2 DEF SessionTypes, TokensKnown, Epochs, Unread
    <2>. QED  BY <2>1, <2>3, <2>4, <2>5 DEF SessionTypes
  <1>8. CASE RestartProcess(p)
    <2>1. /\ scope' = [scope EXCEPT ![p] = nothing] /\ queue' = [queue EXCEPT ![p] = {}]
          /\ flight' = [flight EXCEPT ![p] = landed] /\ failures' = [failures EXCEPT ![p] = none]
          /\ call' = [k \in Calls |-> IF call[k].at = p THEN idle ELSE call[k]]
      BY <1>2, <1>8 DEF RestartProcess
    <2>2. \A q \in Processes : /\ flight'[q] = IF q = p THEN landed ELSE flight[q]
                               /\ scope'[q] = IF q = p THEN nothing ELSE scope[q]
                               /\ queue'[q] = IF q = p THEN {} ELSE queue[q]
      BY <1>1, <2>1
    <2>3. /\ call' \in [Calls -> CallRow] /\ failures' \in [Processes -> FailureRow]
          /\ \A k \in Calls : call[k].at # p => call'[k] = call[k]
      BY <1>3, <2>1 DEF SessionTypes
    <2>4. CallsWait'
      BY <1>3, <2>2, <2>3 DEF SessionTypes, CallsWait
    <2>5. TokensKnown'
      BY <1>1, <1>3, <2>2 DEF SessionTypes, TokensKnown, Epochs, Unread
    <2>. QED  BY <2>3, <2>4, <2>5 DEF SessionTypes
  <1>. QED  BY <1>4, <1>5, <1>6, <1>7, <1>8

\* A call that is in no queue may become anything.
LEMMA CallMoves ==
  ASSUME SessionInv, SessionTypes, NEW k \in Calls, call[k].op \notin Waiting,
         NEW after \in CallRow, call' = [call EXCEPT ![k] = after], UNCHANGED <<queue, flight>>
  PROVE  call' \in [Calls -> CallRow] /\ CallsWait'
  <1>1. \A j \in Calls : call'[j] = IF j = k THEN after ELSE call[j]
    BY DEF SessionTypes
  <1>. QED  BY <1>1 DEF SessionTypes, CallsWait

LEMMA TypesCall ==
  ASSUME SessionInv, SessionTypes, NEW k \in Calls, NEW p,
         \/ p \in Processes /\ ((\E word : Login(k, p, word)) \/ SetNewPassword(k, p))
         \/ IssueToken(k) \/ BumpSessionEpoch(k) \/ InvalidateSessionScopeCache(k)
  PROVE  SessionTypes'
  <1>1. /\ UNCHANGED <<queue, flight, tick>> /\ epoch \in Nat /\ scope \in [Processes -> Scopes]
        /\ Idle \in CallRow /\ call[k] \in CallRow
    BY TicksCount, IdleIsCall DEF Login, SetNewPassword, IssueToken, BumpSessionEpoch,
       InvalidateSessionScopeCache, SessionInv, SessionClock, Epochs, SessionTypes
  <1>2. CASE p \in Processes /\ \E word : Login(k, p, word)
    <2>1. PICK word : Login(k, p, word)
      BY <1>2
    <2>2. UNCHANGED <<epoch, secret, issued, scope>> /\ call[k] = Idle
      BY <2>1 DEF Login
    <2>3. TokensKnown'
      BY <1>1, <2>2 DEF SessionTypes, TokensKnown, Epochs
    <2>4. CASE word = secret
      <3>1. PICK none, after :
              none = NoFailure /\ after = [op |-> "issue", at |-> p, token |-> 0]
        OBVIOUS
      <3>2. call' = [call EXCEPT ![k] = after] /\ failures' = [failures EXCEPT ![p] = none]
        BY <2>1, <2>4, <3>1 DEF Login
      <3>3. after \in CallRow
        BY <1>2, <3>1 DEF CallRow
      <3>4. none \in [count : 0..MaxFailures, until : Nat] /\ none.count = 0
        BY <3>1, SessionsAssumption DEF NoFailure
      <3>5. failures' \in [Processes -> FailureRow]
        BY <1>2, <3>2, <3>4, SessionsAssumption DEF SessionTypes, FailureRow
      <3>6. call' \in [Calls -> CallRow] /\ CallsWait'
        BY <1>1, <2>2, <3>2, <3>3, CallMoves, IdleIsCall DEF Waiting
      <3>. QED  BY <2>3, <3>5, <3>6 DEF SessionTypes
    <2>5. CASE word # secret
      <3>1. RecordFailure(p) /\ UNCHANGED call
        BY <2>1, <2>5 DEF Login
      <3>2. PICK old : old = failures[p]
        OBVIOUS
      <3>3. /\ old.count \in 0..MaxFailures /\ old.until \in Nat
              /\ (old.until = 0 => old.count < MaxFailures)
        BY <1>2, <3>2 DEF SessionTypes, FailureRow
      <3>4. tick + Ttl \in Nat \ {0}
        BY TicksCount DEF SessionInv, SessionClock
      <3>5. PICK pause : pause = IF old.count + 1 >= MaxFailures THEN tick + Ttl ELSE 0
        OBVIOUS
      <3>6. pause \in Nat /\ (pause = 0 => old.count + 1 < MaxFailures)
        BY <3>3, <3>4, <3>5, SessionsAssumption
      <3>7. PICK first, next :
              first = [count |-> 1, until |-> 0] /\ next = [count |-> old.count + 1, until |-> pause]
        OBVIOUS
      <3>8. \/ failures' = [failures EXCEPT ![p] = first]
            \/ old.until = 0 /\ failures' = [failures EXCEPT ![p] = next]
        BY <3>1, <3>2, <3>5, <3>7 DEF RecordFailure, SessionTypes
      <3>9. first \in FailureRow
        BY <3>7, SessionsAssumption DEF FailureRow
      <3>10. old.until = 0 => next \in FailureRow
        BY <3>3, <3>6, <3>7, SessionsAssumption DEF FailureRow
      <3>11. failures' \in [Processes -> FailureRow]
        BY <3>8, <3>9, <3>10 DEF SessionTypes
      <3>12. CallsWait' /\ call' \in [Calls -> CallRow]
        BY <1>1, <3>1 DEF SessionTypes, CallsWait
      <3>. QED  BY <2>3, <3>11, <3>12 DEF SessionTypes
    <2>. QED  BY <2>4, <2>5
  <1>3. CASE p \in Processes /\ SetNewPassword(k, p)
    <2>1. PICK after : after = [op |-> "bump", at |-> p, token |-> 0]
      OBVIOUS
    <2>2. /\ call[k] = Idle /\ secret < MaxEpoch /\ secret' = secret + 1
          /\ call' = [call EXCEPT ![k] = after] /\ UNCHANGED <<epoch, issued, scope, failures>>
      BY <1>3, <2>1 DEF SetNewPassword
    <2>3. after \in CallRow
      BY <1>3, <2>1 DEF CallRow
    <2>4. call' \in [Calls -> CallRow] /\ CallsWait'
      BY <1>1, <2>2, <2>3, CallMoves, IdleIsCall DEF Waiting
    <2>5. TokensKnown'
      BY <1>1, <2>2, TicksCount DEF SessionTypes, TokensKnown, Epochs
    <2>. QED  BY <2>2, <2>4, <2>5 DEF SessionTypes
  <1>4. CASE IssueToken(k)
    <2>1. /\ call[k].op = "issue" /\ issued' = issued \cup {epoch}
          /\ call' = [call EXCEPT ![k] = Idle] /\ UNCHANGED <<epoch, secret, scope, failures>>
      BY <1>4 DEF IssueToken
    <2>2. call' \in [Calls -> CallRow] /\ CallsWait'
      BY <1>1, <2>1, CallMoves DEF Waiting
    <2>3. TokensKnown'
      BY <1>1, <2>1 DEF SessionTypes, TokensKnown, Epochs
    <2>. QED  BY <2>1, <2>2, <2>3 DEF SessionTypes
  <1>5. CASE BumpSessionEpoch(k)
    <2>1. PICK after : after = [call[k] EXCEPT !.op = "forget"]
      OBVIOUS
    <2>2. /\ call[k].op = "bump" /\ epoch' = epoch + 1 /\ UNCHANGED <<secret, issued, scope, failures>>
          /\ call' = [call EXCEPT ![k] = after]
      BY <1>5, <2>1 DEF BumpSessionEpoch
    <2>3. after \in CallRow
      BY <1>1, <2>1 DEF CallRow
    <2>4. call' \in [Calls -> CallRow] /\ CallsWait'
      BY <1>1, <2>2, <2>3, CallMoves DEF Waiting
    <2>5. 0..epoch \subseteq 0..(epoch + 1)
      BY <1>1
    <2>6. TokensKnown'
      BY <1>1, <2>2, <2>5, KnownStays DEF SessionTypes, TokensKnown
    <2>. QED  BY <2>2, <2>4, <2>6 DEF SessionTypes
  <1>6. CASE InvalidateSessionScopeCache(k)
    <2>1. PICK nothing : nothing = Nothing
      OBVIOUS
    <2>2. /\ call[k].op = "forget" /\ scope' = [scope EXCEPT ![call[k].at] = nothing]
          /\ call' = [call EXCEPT ![k] = Idle] /\ UNCHANGED <<epoch, secret, issued, failures>>
      BY <1>6, <2>1 DEF InvalidateSessionScopeCache
    <2>3. nothing.epoch = Unread
      BY <2>1 DEF Nothing
    <2>4. call' \in [Calls -> CallRow] /\ CallsWait'
      BY <1>1, <2>2, CallMoves DEF Waiting
    <2>5. \A q \in Processes : scope'[q] = scope[q] \/ scope'[q] = nothing
      BY <1>1, <2>2
    <2>6. TokensKnown'
      BY <1>1, <2>2, <2>3, <2>5 DEF SessionTypes, TokensKnown, Epochs
    <2>. QED  BY <2>2, <2>4, <2>6 DEF SessionTypes
  <1>. QED  BY <1>2, <1>3, <1>4, <1>5, <1>6

LEMMA SessionTypesNext ==
  ASSUME SessionInv, SessionTypes, [SessionNext]_sessionVars
  PROVE  SessionTypes'
  <1>1. CASE LookupStep
    BY <1>1, TypesLookup DEF LookupStep
  <1>2. CASE SessionTick
    <2>1. tick < MaxTick /\ tick' = tick + 1
          /\ UNCHANGED <<epoch, secret, issued, scope, queue, flight, call, failures>>
      BY <1>2 DEF SessionTick
    <2>. QED  BY <2>1, SessionsAssumption DEF SessionTypes, TokensKnown, CallsWait, Epochs
  <1>3. ASSUME NEW k \in Calls, CallStep(k)
        PROVE  SessionTypes'
    <2>1. ASSUME NEW p \in Processes, NEW op \in Waiting, NEW token \in issued,
                 Authenticate(k, p, op, token)
          PROVE  SessionTypes'
      BY <2>1, TypesAuthenticate
    <2>2. ASSUME NEW p \in Processes, (\E word : Login(k, p, word)) \/ SetNewPassword(k, p)
          PROVE  SessionTypes'
      BY <2>2, TypesCall
    <2>3. ASSUME IssueToken(k) \/ BumpSessionEpoch(k) \/ InvalidateSessionScopeCache(k)
          PROVE  SessionTypes'
      BY <2>3, TypesCall
    <2>. QED  BY <1>3, <2>1, <2>2, <2>3 DEF CallStep, Waiting
  <1>4. CASE UNCHANGED sessionVars
    BY <1>4 DEF sessionVars, SessionTypes, TokensKnown, CallsWait, Epochs
  <1>. QED  BY <1>1, <1>2, <1>3, <1>4 DEF SessionNext

-----------------------------------------------------------------------------
(* Trails and their weeks: types *)

-----------------------------------------------------------------------------
(* Trails: types.  What is posted or paid is a price of the catalog. *)

CatalogPrices == {Unset} \cup Prices \cup {SettingPrice[tier] : tier \in Tiers}

TrailTypes ==
  /\ catalog.price \in CatalogPrices /\ points \in [Guests -> Nat] /\ week \in 1..MaxWeek
  /\ \A d \in Drafts : owned[d].price \in {0, GenerationPrice}

LEMMA TrailTypesInit ==
  ASSUME TrailInit
  PROVE  TrailTypes
  <1>1. PICK posted, made1 : posted = [status |-> "draft", tier |-> "starter", price |-> Unset, dates |-> "none"]
                          /\ made1 = NotMade
    OBVIOUS
  <1>2. posted.price = Unset /\ made1.price = 0
    BY <1>1 DEF NotMade
  <1>3. catalog = posted /\ points = [u \in Guests |-> Opening] /\ week = 1
        /\ owned = [d \in Drafts |-> made1]
    BY <1>1 DEF TrailInit
  <1>. QED  BY <1>2, <1>3, TrailsAssumption DEF TrailTypes, CatalogPrices

LEMMA TrailTypesNext ==
  ASSUME TrailInv, TrailTypes, [TrailNext]_trailVars
  PROVE  TrailTypes'
  <1>1. ASSUME NEW u \in Guests, NEW k, Unlock(u, k)
        PROVE  TrailTypes'
    <2>1. PICK price : price = UnlockPrice
      OBVIOUS
    <2>2. /\ UNCHANGED <<catalog, owned, week>>
          /\ \/ UNCHANGED points
             \/ price <= points[u] /\ points' = [points EXCEPT ![u] = points[u] - price]
      BY <1>1, <2>1 DEF Unlock
    <2>3. price \in Nat
      BY <2>1, PricesAreNat DEF TrailInv, TrailRows
    <2>. QED  BY <2>2, <2>3 DEF TrailTypes, CatalogPrices
  <1>2. ASSUME NEW u \in Guests, NEW t \in TrailIds, NEW s, CheckIn(u, t, s)
        PROVE  TrailTypes'
    <2>1. PICK gain : gain = Rewarded(t)
      OBVIOUS
    <2>2. /\ UNCHANGED <<catalog, owned, week>>
          /\ (UNCHANGED points \/ points' = [points EXCEPT ![u] = points[u] + gain])
      BY <1>2, <2>1 DEF CheckIn
    <2>3. gain \in Nat
      BY <2>1, PricesAreNat DEF TrailInv, TrailRows
    <2>. QED  BY <2>2, <2>3 DEF TrailTypes, CatalogPrices
  <1>3. ASSUME NEW d \in Drafts, GenerateTrail(d)
        PROVE  TrailTypes'
    <2>1. PICK price : price = IF IsFree(draft[d].by) THEN 0 ELSE GenerationPrice
      OBVIOUS
    <2>2. PICK new : new = [by |-> draft[d].by, began |-> draft[d].began, made |-> week, price |-> price]
      OBVIOUS
    <2>3. /\ UNCHANGED <<catalog, week>>
          /\ \/ UNCHANGED <<owned, points>>
             \/ /\ ~(price > points[draft[d].by]) /\ owned' = [owned EXCEPT ![d] = new]
                /\ points' = [points EXCEPT ![draft[d].by] = points[draft[d].by] - price]
      BY <1>3, <2>1, <2>2 DEF GenerateTrail
    <2>4. price \in Nat /\ price \in {0, GenerationPrice} /\ new.price = price
      BY <2>1, <2>2, TrailsAssumption
    <2>5. draft[d].by \in Guests
      BY <1>3 DEF GenerateTrail, TrailInv, DraftsHold
    <2>6. \A e \in Drafts : owned'[e].price \in {0, GenerationPrice}
      BY <2>3, <2>4 DEF TrailTypes, TrailInv, TrailRows, OwnedRows
    <2>7. points' \in [Guests -> Nat]
      BY <2>3, <2>4, <2>5 DEF TrailTypes
    <2>. QED  BY <2>3, <2>6, <2>7 DEF TrailTypes, CatalogPrices
  <1>4. ASSUME NEW d \in Drafts, DraftStep(d), ~GenerateTrail(d)
        PROVE  TrailTypes'
    <2>1. UNCHANGED <<catalog, owned, points, week>>
      BY <1>4 DEF DraftStep, Prepare, BeginGeneration, AbandonDraft
    <2>. QED  BY <2>1 DEF TrailTypes, CatalogPrices
  <1>5. CASE TrailAdmin
    <2>1. PICK old : old = catalog /\ old \in CatalogRow /\ old.price \in CatalogPrices
      BY DEF TrailInv, TrailRows, TrailTypes
    <2>2. UNCHANGED <<owned, points, week>>
      BY <1>5 DEF TrailAdmin, UpdateTrailStatus, PatchTier, PatchDates, EditCatalog
    <2>3. ASSUME NEW status, UpdateTrailStatus(status) PROVE catalog'.price \in CatalogPrices
      <3>1. PICK new : new = [old EXCEPT !.status = status]
        OBVIOUS
      <3>2. new.price = old.price /\ catalog' = new
        BY <2>1, <2>3, <3>1 DEF UpdateTrailStatus, EditCatalog, CatalogRow
      <3>. QED  BY <2>1, <3>2
    <2>4. ASSUME NEW tier \in Tiers, NEW price \in Prices \cup {Unset}, PatchTier(tier, price)
          PROVE  catalog'.price \in CatalogPrices
      <3>1. PICK posted : posted = IF ~Points(tier) THEN Unset
                                   ELSE IF price # Unset THEN price
                                   ELSE IF tier = old.tier /\ old.price # Unset THEN old.price
                                   ELSE SettingPrice[tier]
        OBVIOUS
      <3>2. PICK new : new = [old EXCEPT !.tier = tier, !.price = posted]
        OBVIOUS
      <3>3. new.price = posted
        BY <2>1, <3>2 DEF CatalogRow
      <3>4. catalog' = new
        BY <2>1, <2>4, <3>1, <3>2 DEF PatchTier, EditCatalog
      <3>5. posted \in CatalogPrices
        BY <2>1, <3>1 DEF CatalogPrices
      <3>. QED  BY <3>3, <3>4, <3>5
    <2>5. ASSUME NEW dates, PatchDates(dates) PROVE catalog'.price \in CatalogPrices
      <3>1. PICK new : new = [old EXCEPT !.dates = dates]
        OBVIOUS
      <3>2. new.price = old.price /\ catalog' = new
        BY <2>1, <2>5, <3>1 DEF PatchDates, EditCatalog, CatalogRow
      <3>. QED  BY <2>1, <3>2
    <2>6. catalog'.price \in CatalogPrices
      BY <1>5, <2>3, <2>4, <2>5 DEF TrailAdmin
    <2>. QED  BY <2>2, <2>6 DEF TrailTypes, CatalogPrices
  <1>6. ASSUME (\E u \in Guests : ReachLevel(u)) \/ UNCHANGED trailVars
        PROVE  TrailTypes'
    BY <1>6 DEF ReachLevel, trailVars, TrailTypes, CatalogPrices
  <1>7. ASSUME NEW reigning, NextTrailWeek(reigning)
        PROVE  TrailTypes'
    BY <1>7, TrailsAssumption DEF NextTrailWeek, TrailTypes, CatalogPrices
  <1>. QED  BY <1>1, <1>2, <1>3, <1>4, <1>5, <1>6, <1>7 DEF TrailNext, TravelerOnTrail, DraftStep

-----------------------------------------------------------------------------
(* The weekly batch: types *)

TrendTypes ==
  /\ monday \in 0..LastMonday /\ stops \in 0..MaxStops
  /\ \A g \in made : g.row[1] \in 0..LastMonday
  /\ \A p \in Tickers : ticker[p].week \in 0..LastMonday /\ ticker[p].area \in 0..Len(Areas)

LEMMA TrendTypesInit ==
  ASSUME TrendInit
  PROVE  TrendTypes
  <1>1. PICK none : none = NoTick
    OBVIOUS
  <1>2. none.week = 0 /\ none.area = 0
    BY <1>1 DEF NoTick
  <1>3. /\ monday = 0 /\ made = {} /\ stops = 0 /\ ticker = [p \in Tickers |-> none]
    BY <1>1 DEF TrendInit
  <1>. QED  BY <1>2, <1>3, TrendsAssumption DEF TrendTypes

\* A step of one tick.
LEMMA TickTypes ==
  ASSUME TrendInv, TrendTypes, NEW p \in Tickers, NEW new,
         new.week \in 0..LastMonday, new.area \in 0..Len(Areas),
         ticker' = [ticker EXCEPT ![p] = new], monday' = monday, stops' \in 0..MaxStops,
         \A g \in made' : g \in made \/ g.row[1] \in 0..LastMonday
  PROVE  TrendTypes'
  <1>1. \A q \in Tickers : ticker'[q] = IF q = p THEN new ELSE ticker[q]
    BY DEF TrendInv, TickersHold
  <1>. QED  BY <1>1 DEF TrendTypes

LEMMA TrendTypesNext ==
  ASSUME TrendInv, TrendTypes, [TrendClock \/ \E p \in Tickers : TrendStep(p)]_trendVars
  PROVE  TrendTypes'
  <1>1. CASE UNCHANGED trendVars
    BY <1>1 DEF trendVars, TrendTypes
  <1>2. CASE TrendClock
    BY <1>2, TrendsAssumption DEF TrendClock, TrendTypes
  <1>3. ASSUME NEW p \in Tickers, TrendStep(p)
        PROVE  TrendTypes'
    <2>1. PICK old, none : old = ticker[p] /\ none = NoTick
      OBVIOUS
    <2>2. /\ old \in TickType /\ old.week \in 0..LastMonday /\ old.area \in 0..Len(Areas)
          /\ none.week = 0 /\ none.area = 0 /\ none.week \in 0..LastMonday /\ none.area \in 0..Len(Areas)
      BY <2>1, TrendsAssumption DEF NoTick, TrendInv, TickersHold, TrendTypes
    <2>3. ASSUME NEW n \in 0..Len(Areas), AreaAfter(p, n)
          PROVE  \E new : /\ new.week \in 0..LastMonday /\ new.area \in 0..Len(Areas)
                          /\ ticker' = [ticker EXCEPT ![p] = new]
      <3>1. PICK next : next = [old EXCEPT !.step = "area", !.area = n + 1, !.todo = <<>>]
        OBVIOUS
      <3>2. next.week = old.week /\ next.area = n + 1
        BY <2>2, <3>1 DEF TickType
      <3>3. ticker' = [ticker EXCEPT ![p] = IF n < Len(Areas) THEN next ELSE none]
        BY <2>1, <2>3, <3>1 DEF AreaAfter
      <3>4. next.week \in 0..LastMonday /\ (n < Len(Areas) => next.area \in 0..Len(Areas))
        BY <2>2, <2>3, <3>2, TrendsAssumption
      <3>5. CASE n < Len(Areas)
        BY <3>3, <3>4, <3>5
      <3>6. CASE ~(n < Len(Areas))
        BY <2>2, <3>3, <3>6
      <3>. QED  BY <3>5, <3>6
    <2>4. /\ monday' = monday
          /\ \/ stops' = stops
             \/ stops < MaxStops /\ stops' = stops + 1
      BY <1>3 DEF TrendStep, BeginTrends, OpenArea, LookUp, Generate, MarkArea, StopTrends
    <2>5. stops' \in 0..MaxStops
      BY <2>4, TrendsAssumption DEF TrendTypes
    <2>6. CASE BeginTrends(p)
      <3>1. PICK themes \in Digests :
              ticker' = [ticker EXCEPT ![p] =
                [step |-> "area", week |-> monday, themes |-> themes, area |-> 1, todo |-> <<>>]]
        BY <2>6 DEF BeginTrends
      <3>2. PICK new : new = [step |-> "area", week |-> monday, themes |-> themes, area |-> 1, todo |-> <<>>]
        OBVIOUS
      <3>3. new.week = monday /\ new.area = 1
        BY <3>2
      <3>4. made' = made
        BY <2>6 DEF BeginTrends
      <3>5. monday \in 0..LastMonday /\ 1 \in 0..Len(Areas)
        BY TrendsAssumption DEF TrendTypes
      <3>. QED  BY <2>4, <2>5, <3>1, <3>2, <3>3, <3>4, <3>5, TickTypes
    <2>7. CASE OpenArea(p)
      <3>1. made' = made
        BY <2>7 DEF OpenArea
      <3>2. PICK new : new = [old EXCEPT !.step = "candidate", !.todo = Candidates(old.themes)]
        OBVIOUS
      <3>3. new.week = old.week /\ new.area = old.area
        BY <2>2, <3>2 DEF TickType
      <3>4. AreaAfter(p, old.area) \/ ticker' = [ticker EXCEPT ![p] = new]
        BY <2>1, <2>7, <3>2 DEF OpenArea
      <3>. QED  BY <2>2, <2>3, <2>4, <2>5, <3>1, <3>3, <3>4, TickTypes
    <2>8. ASSUME NextCandidate(p)
          PROVE  \E new : /\ new.week = old.week /\ new.area = old.area
                          /\ ticker' = [ticker EXCEPT ![p] = new]
      <3>1. PICK new : new = [old EXCEPT !.step = "candidate", !.todo = Tail(old.todo)]
        OBVIOUS
      <3>2. new.week = old.week /\ new.area = old.area
        BY <2>2, <3>1 DEF TickType
      <3>3. ticker' = [ticker EXCEPT ![p] = new]
        BY <2>1, <2>8, <3>1 DEF NextCandidate
      <3>. QED  BY <3>2, <3>3
    <2>9. CASE LookUp(p)
      <3>1. made' = made
        BY <2>9 DEF LookUp
      <3>2. PICK new : new = [old EXCEPT !.step = "generate"]
        OBVIOUS
      <3>3. new.week = old.week /\ new.area = old.area
        BY <2>2, <3>2 DEF TickType
      <3>4. NextCandidate(p) \/ ticker' = [ticker EXCEPT ![p] = new]
        BY <2>1, <2>9, <3>2 DEF LookUp
      <3>. QED  BY <2>2, <2>4, <2>5, <2>8, <3>1, <3>3, <3>4, TickTypes
    <2>10. CASE Generate(p)
      <3>1. PICK g : g = [row |-> Row(p), key |-> Head(ticker[p].todo), nth |-> Cardinality(made)]
        OBVIOUS
      <3>2. g.row = Row(p)
        BY <3>1
      <3>3. g.row[1] = old.week
        BY <2>1, <3>2 DEF Row
      <3>4. made' = made \cup {g} \/ made' = made
        BY <2>10, <3>1 DEF Generate
      <3>5. NextCandidate(p)
        BY <2>10 DEF Generate
      <3>. QED  BY <2>2, <2>4, <2>5, <2>8, <3>3, <3>4, <3>5, TickTypes
    <2>11. CASE MarkArea(p)
      <3>1. made' = made /\ AreaAfter(p, old.area)
        BY <2>1, <2>11 DEF MarkArea
      <3>. QED  BY <2>2, <2>3, <2>4, <2>5, <3>1, TickTypes
    <2>12. CASE StopTrends(p)
      <3>1. made' = made /\ ticker' = [ticker EXCEPT ![p] = none]
        BY <2>1, <2>12 DEF StopTrends
      <3>. QED  BY <2>2, <2>4, <2>5, <3>1, TickTypes
    <2>. QED  BY <1>3, <2>6, <2>7, <2>9, <2>10, <2>11, <2>12 DEF TrendStep
  <1>. QED  BY <1>1, <1>2, <1>3

-----------------------------------------------------------------------------
(* Every part has its types *)

\* Epochs, caches, waiting calls and failures have their types (middleware/auth.ts).
THEOREM SessionsTyped == SessionSpec => []SessionTypeOK
  <1>1. SessionInit => SessionInv /\ SessionTypes
    BY SessionInvInit, SessionTypesInit
  <1>2. SessionInv /\ SessionTypes /\ [SessionNext]_sessionVars => (SessionInv /\ SessionTypes)'
    <2>1. ASSUME SessionInv, SessionTypes, [SessionNext]_sessionVars
          PROVE  SessionInv' /\ SessionTypes'
      BY <2>1, SessionInvNext, SessionTypesNext
    <2>. QED  BY <2>1
  <1>3. SessionInv /\ SessionTypes => SessionTypeOK
    <2>. SUFFICES ASSUME SessionInv, SessionTypes PROVE SessionTypeOK
      OBVIOUS
    <2>1. \A p \in Processes : queue[p] \cap flight[p].callers = {}
      BY DEF SessionInv, SessionClock, Flights, SessionTypes, CallsWait
    <2>2. \A p \in Processes : failures[p].count <= MaxFailures
      BY SessionsAssumption DEF SessionTypes, FailureRow
    <2>. QED  BY <2>1, <2>2 DEF SessionTypeOK, SessionTypes, TokensKnown, SessionInv, SessionClock
  <1>. QED  BY <1>1, <1>2, <1>3, PTL DEF SessionSpec

\* Prices, points and what was paid have their types (trails/progress.ts, trails/personal.ts).
THEOREM TrailsTyped == TrailWalkSpec => []TrailTypeOK
  <1>1. TrailInit => TrailInv /\ TrailTypes
    BY TrailsStart, TrailTypesInit
  <1>2. TrailInv /\ TrailTypes /\ [TrailNext]_trailVars => (TrailInv /\ TrailTypes)'
    <2>1. ASSUME TrailInv, TrailTypes, [TrailNext]_trailVars
          PROVE  TrailInv' /\ TrailTypes'
      BY <2>1, TrailInvStays, TrailTypesNext
    <2>. QED  BY <2>1
  <1>3. TrailInv /\ TrailTypes => TrailTypeOK
    BY DEF TrailInv, TrailRows, CatalogRow, TrailTypes, CatalogPrices, TrailTypeOK
  <1>. QED  BY <1>1, <1>2, <1>3, PTL DEF TrailWalkSpec

\* Mondays, stops, trails made and ticks have their types (trails/jobs/weeklyTrends.ts).
THEOREM TrendsTyped == TrendSpec => []TrendTypeOK
  <1>1. TrendInit => TrendInv /\ TrendTypes
    BY TrendInvHolds, TrendTypesInit
  <1>2. TrendInv /\ TrendTypes /\ [TrendClock \/ \E p \in Tickers : TrendStep(p)]_trendVars
          => (TrendInv /\ TrendTypes)'
    <2>1. ASSUME TrendInv, TrendTypes, [TrendClock \/ \E p \in Tickers : TrendStep(p)]_trendVars
          PROVE  TrendInv' /\ TrendTypes'
      BY <2>1, TrendInvHolds, TrendTypesNext
    <2>. QED  BY <2>1
  <1>3. TrendInv /\ TrendTypes => TrendTypeOK
    BY DEF TrendTypes, TrendTypeOK
  <1>. QED  BY <1>1, <1>2, <1>3, PTL DEF TrendSpec

\* The whole travelers' side keeps its types: every part does, for every value of the
\* constants (what TravelersTypeOK lists, part by part, is at its own code).
THEOREM TravelersTyped == TravelersSpec => []TravelersTypeOK
  BY OwnersCorrect, StoresBalance, SpotsTyped, AffiliatesTyped, MigrationsTyped, SessionsTyped,
     LimitsCorrect, TrailsTyped, TrendsTyped, ListsAreWalked, SearchFinds, PTL
     DEF TravelersSpec, MemorySpec, GateSpec, TrailSpec, TravelersTypeOK

=============================================================================
