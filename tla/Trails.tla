------------------------------- MODULE Trails -------------------------------
(***************************************************************************)
(* A trail of the catalog and the personal trails of a traveler             *)
(* (trails/progress.ts, trails/personal.ts, the admin routes of             *)
(* routes/trails.ts): unlocking, checking in, rewards, generating against a *)
(* weekly free quota, and an admin who edits, publishes and retires.        *)
(* Every movement of points locks the governance snapshot, so the           *)
(* transaction of a command is one action; what is read before it is not.   *)
(***************************************************************************)
EXTENDS Integers, FiniteSets, FiniteSetsExt

CONSTANTS Guests,
          Stops,            \* positions of a trail
          Keys,             \* idempotency keys
          Drafts,           \* requests for a personal trail, each makes one
          Tiers,            \* of the catalog trail
          SettingPrice,     \* price in the settings, by tier, 0 if not paid
          Reward,           \* completion reward in the settings, by tier
          Prices,           \* prices an admin may set
          GenerationPrice,
          FreePerWeek,
          Discount,         \* percent off while a corridor perk reigns
          Bonus,            \* percent on a completion while its perk reigns
          Opening,          \* points each traveler has at first
          MaxWeek

ASSUME TrailsAssumption ==
  /\ {"starter", "explorer"} \subseteq Tiers /\ "catalog" \notin Drafts
  /\ SettingPrice \in [Tiers -> Nat] /\ Reward \in [Tiers \cup {"personal"} -> Nat]
  /\ Prices \subseteq Nat \ {0} /\ Discount \in 0..90 /\ Bonus \in Nat
  /\ GenerationPrice \in Nat /\ FreePerWeek \in Nat /\ Opening \in Nat /\ MaxWeek \in Nat \ {0}
  /\ IsFiniteSet(Drafts) /\ Stops # {} /\ "nobody" \notin Guests

TrailIds == {"catalog"} \cup Drafts
Unset == -1

VARIABLES catalog,   \* the engine trail: status, tier, its own price, dates
          unlock,    \* price paid for the catalog trail, or Unset
          checkin,   \* stops checked in, by trail and traveler
          reward,    \* trail_completions: points paid, or Unset
          owned,     \* by draft: the personal trail it became
          draft,     \* requests for a personal trail
          command,   \* keys used: for a trail unlock, and for a generation
          points,
          qualified, \* travelers who reached the level
          perks,     \* reigning perks
          week

trailVars == <<catalog, unlock, checkin, reward, owned, draft, command, points, qualified,
               perks, week>>

NotMade == [by |-> "nobody", began |-> 0, made |-> 0, price |-> 0]
NoDraft == [step |-> "new", by |-> "nobody", key |-> "none", week |-> 0, began |-> 0]

-----------------------------------------------------------------------------
(* Unlocking *)

Points(tier) == tier \in {"signature", "legendary"}
Priced(price) == IF "discount" \in perks /\ price > 0
                 THEN Max({1, (price * (100 - Discount) + 50) \div 100})
                 ELSE price
UnlockPrice == IF Points(catalog.tier)
               THEN Priced(IF catalog.price = Unset THEN SettingPrice[catalog.tier]
                           ELSE catalog.price)
               ELSE 0

\* Published, within its dates, and a legendary trail needs dates.
Available == /\ catalog.status = "published" /\ catalog.dates # "past"
             /\ catalog.tier = "legendary" => catalog.dates = "open"

\* fundingCommand "trail_unlock": a used key, or a trail unlocked before,
\* answers with what was stored.
Unlock(u, k) ==
  /\ <<u, k, "unlock">> \notin command
  /\ LET price == UnlockPrice IN
     IF unlock[u] # Unset THEN UNCHANGED <<unlock, points>>
     ELSE /\ Available /\ (catalog.tier = "explorer" => u \in qualified)
          /\ price <= points[u]
          /\ unlock' = [unlock EXCEPT ![u] = price]
          /\ points' = [points EXCEPT ![u] = @ - price]
  /\ command' = command \cup {<<u, k, "unlock">>}
  /\ UNCHANGED <<catalog, checkin, reward, owned, draft, qualified, perks, week>>

-----------------------------------------------------------------------------
(* Checking in *)

Mine(u, t) == t \in Drafts /\ owned[t].by = u
MayCheckIn(u, t) ==
  \/ Mine(u, t)
  \/ t = "catalog" /\ catalog.status = "published" /\ unlock[u] # Unset
TierOf(t) == IF t = "catalog" THEN catalog.tier ELSE "personal"
Rewarded(t) == LET base == Reward[TierOf(t)] IN
               IF "bonus" \in perks THEN (base * (100 + Bonus) + 50) \div 100 ELSE base

\* The completion row is inserted once.
\* Mutant for TrailBooksBalance: every check-in on a finished trail completes it.
Completes_Again(u, t, done) == done = Stops
Completes(u, t, done) == reward[t][u] = Unset /\ done = Stops

\* checkinTrailStop: the check-in, and with the last stop the completion and
\* its reward, in one transaction.
CheckIn(u, t, s) ==
  /\ MayCheckIn(u, t)
  /\ LET done == checkin[t][u] \cup {s} IN
     /\ checkin' = [checkin EXCEPT ![t][u] = done]
     /\ IF Completes(u, t, done)
        THEN /\ reward' = [reward EXCEPT ![t][u] = Rewarded(t)]
             /\ points' = [points EXCEPT ![u] = @ + Rewarded(t)]
        ELSE UNCHANGED <<reward, points>>
  /\ UNCHANGED <<catalog, unlock, owned, draft, command, qualified, perks, week>>

-----------------------------------------------------------------------------
(* Personal trails *)

\* createPersonalTrail: the key is looked up and the trail is prepared, with
\* calls to the router in between; the request's week is fixed here.
Prepare(d, u, k) ==
  /\ draft[d] = NoDraft /\ \A w \in 1..MaxWeek : <<u, k, w>> \notin command
  /\ draft' = [draft EXCEPT ![d] =
                 [step |-> "prepared", by |-> u, key |-> k, week |-> week, began |-> 0]]
  /\ UNCHANGED <<catalog, unlock, checkin, reward, owned, command, points, qualified,
                 perks, week>>

\* BEGIN fixes the time its rows will carry; then it waits for its turn.
BeginGeneration(d) ==
  /\ draft[d].step = "prepared"
  /\ draft' = [draft EXCEPT ![d].step = "begun", ![d].began = week]
  /\ UNCHANGED <<catalog, unlock, checkin, reward, owned, command, points, qualified,
                 perks, week>>

UsedThisWeek(u) == Cardinality({d \in Drafts : owned[d].by = u /\ owned[d].began = week})
IsFree(u) == UsedThisWeek(u) < FreePerWeek

EndDraft(d) == draft' = [draft EXCEPT ![d].step = "over"]

\* The command: a key used in the same week replays, in another it conflicts;
\* the quota is counted, the charge and the trail are stored together.
GenerateTrail(d) ==
  /\ draft[d].step = "begun"
  /\ LET u == draft[d].by
         price == IF IsFree(u) THEN 0 ELSE GenerationPrice IN
     IF (\E w \in 1..MaxWeek : <<u, draft[d].key, w>> \in command) \/ price > points[u]
     THEN UNCHANGED <<owned, command, points>>
     ELSE /\ owned' = [owned EXCEPT ![d] =
                         [by |-> u, began |-> draft[d].began, made |-> week,
                          price |-> price]]
          /\ points' = [points EXCEPT ![u] = @ - price]
          /\ command' = command \cup {<<u, draft[d].key, draft[d].week>>}
  /\ EndDraft(d)
  /\ UNCHANGED <<catalog, unlock, checkin, reward, qualified, perks, week>>

\* The router finds no route, the process stops or the transaction fails.
AbandonDraft(d) ==
  /\ draft[d].step \in {"prepared", "begun"} /\ EndDraft(d)
  /\ UNCHANGED <<catalog, unlock, checkin, reward, owned, command, points, qualified,
                 perks, week>>

-----------------------------------------------------------------------------
(* Administration *)

EditCatalog(row) ==
  /\ catalog' = row
  /\ UNCHANGED <<unlock, checkin, reward, owned, draft, command, points, qualified, perks,
                 week>>

\* One statement; only a trail in review is published.
UpdateTrailStatus(status) ==
  /\ status \in {"pending_review", "published", "rejected", "retired"}
  /\ status = "published" => catalog.status = "pending_review"
  /\ EditCatalog([catalog EXCEPT !.status = status])

\* PATCH: a price needs a paid tier; another tier drops the old price.
PatchTier(tier, price) ==
  /\ price # Unset => Points(tier)
  /\ EditCatalog([catalog EXCEPT !.tier = tier,
       !.price = IF ~Points(tier) THEN Unset
                 ELSE IF price # Unset THEN price
                 ELSE IF tier = catalog.tier /\ @ # Unset THEN @ ELSE SettingPrice[tier]])

PatchDates(dates) ==
  /\ dates \in {"none", "open", "past"} /\ EditCatalog([catalog EXCEPT !.dates = dates])

ReachLevel(u) ==
  /\ u \notin qualified /\ qualified' = qualified \cup {u}
  /\ UNCHANGED <<catalog, unlock, checkin, reward, owned, draft, command, points, perks,
                 week>>

\* Monday: another Minister reigns.
NextTrailWeek(reigning) ==
  /\ week < MaxWeek /\ week' = week + 1 /\ perks' = reigning
  /\ UNCHANGED <<catalog, unlock, checkin, reward, owned, draft, command, points,
                 qualified>>

-----------------------------------------------------------------------------

TrailInit ==
  /\ catalog = [status |-> "draft", tier |-> "starter", price |-> Unset, dates |-> "none"]
  /\ unlock = [u \in Guests |-> Unset]
  /\ checkin = [t \in TrailIds |-> [u \in Guests |-> {}]]
  /\ reward = [t \in TrailIds |-> [u \in Guests |-> Unset]]
  /\ owned = [d \in Drafts |-> NotMade] /\ draft = [d \in Drafts |-> NoDraft]
  /\ command = {} /\ points = [u \in Guests |-> Opening]
  /\ qualified = {} /\ perks \in SUBSET {"discount", "bonus"} /\ week = 1

TravelerOnTrail(u) ==
  \/ \E k \in Keys : Unlock(u, k)
  \/ \E t \in TrailIds, s \in Stops : CheckIn(u, t, s)

DraftStep(d) ==
  \/ \E u \in Guests, k \in Keys : Prepare(d, u, k)
  \/ BeginGeneration(d) \/ GenerateTrail(d) \/ AbandonDraft(d)

TrailAdmin ==
  \/ \E status \in {"pending_review", "published", "rejected", "retired"} :
       UpdateTrailStatus(status)
  \/ \E tier \in Tiers, price \in Prices \cup {Unset} : PatchTier(tier, price)
  \/ \E dates \in {"none", "open", "past"} : PatchDates(dates)

TrailNext ==
  \/ \E u \in Guests : TravelerOnTrail(u) \/ ReachLevel(u)
  \/ \E d \in Drafts : DraftStep(d)
  \/ \E reigning \in SUBSET {"discount", "bonus"} : NextTrailWeek(reigning)
  \/ TrailAdmin

TrailWalkSpec == TrailInit /\ [][TrailNext]_trailVars

-----------------------------------------------------------------------------
(* Properties *)

TrailTypeOK ==
  /\ catalog.tier \in Tiers
  /\ catalog.price \in {Unset} \cup Prices \cup {SettingPrice[tier] : tier \in Tiers}
  /\ \A u \in Guests : points[u] \in Nat /\ unlock[u] \in {Unset} \cup Nat
  /\ \A d \in Drafts : owned[d].price \in {0, GenerationPrice}
  /\ week \in 1..MaxWeek

\* What the rows say a traveler paid and earned.
Paid(u) == (IF unlock[u] = Unset THEN 0 ELSE unlock[u])
           + MapThenSumSet(LAMBDA d : owned[d].price, {d \in Drafts : owned[d].by = u})
Earned(u) == MapThenSumSet(LAMBDA t : reward[t][u],
                           {t \in TrailIds : reward[t][u] # Unset})

\* Through retries, edits and perks that change between two stops: the rows
\* explain every point, a reward was earned stop by stop on a trail that was
\* paid for or owned, a key gives one trail, and no week has more free trails
\* begun and made in it than the quota.  (One that is begun in a week and made
\* in the next is counted in neither by the code, and not here.)
TrailBooksBalance ==
  \A u \in Guests :
    /\ points[u] = Opening - Paid(u) + Earned(u)
    /\ \A t \in TrailIds :
         /\ reward[t][u] # Unset <=> checkin[t][u] = Stops
         /\ checkin[t][u] # {} => Mine(u, t) \/ (t = "catalog" /\ unlock[u] # Unset)
    /\ GenerationPrice > 0 => \A w \in 1..MaxWeek :
         Cardinality({d \in Drafts : /\ owned[d].by = u /\ owned[d].price = 0
                                     /\ owned[d].began = w /\ owned[d].made = w})
           <= FreePerWeek
=============================================================================
