----------------------------- MODULE PassportStamps -----------------------------
(***************************************************************************)
(* The stamps of one eligible traveler: the daily claim and its streak,    *)
(* missions and the weekly chest, shields that forgive a missed day, and   *)
(* the question of the day.                                                *)
(*                                                                         *)
(* Every request computes its date before its transaction begins, so a     *)
(* request may work with yesterday's date.  Every award holds the lock of  *)
(* the traveler's stamp_balances row and is one action.                    *)
(***************************************************************************)
EXTENDS Integers, FiniteSets, FiniteSetsExt

CONSTANTS
  AtHome, OnSite,    \* ids of daily_missions that are not, or are, on_site
  Answering,         \* the mission whose kind is "qotd"
  MissionRank,       \* the order hashKey puts the missions in
  MissionStamps,     \* daily_missions.stamps
  SpendKeys,         \* idempotency keys of purchases
  ClaimStamps, Day7Stamps, Cycle,       \* Cycle is 7
  WeeklyCap, ChestRequired, ChestStamps, ShieldPrice, ShieldsMax,
  PerkBonuses,       \* bonuses a daily_stamp_bonus perk may give, 0 for none
  WeekDays, MonthDays,
  LastDay            \* bound: days

ASSUME StampAmounts ==
  /\ {ClaimStamps, Day7Stamps, WeeklyCap, ChestRequired, ChestStamps, ShieldPrice, ShieldsMax,
      LastDay} \subseteq Nat
  /\ PerkBonuses \subseteq Nat
  /\ {Cycle, WeekDays, MonthDays} \subseteq Nat \ {0}
ASSUME MissionAmounts ==
  /\ IsFiniteSet(AtHome) /\ IsFiniteSet(OnSite)
  /\ MissionStamps \in [AtHome \cup OnSite -> Nat]

VARIABLES
  stamps,            \* stamp_balances.balance
  stampLedger,       \* stamp_ledger
  streak,            \* user_streaks
  shieldEvents,      \* streak_shield_events
  claims,            \* daily_claims: the cycle day of each claimed date
  assigned,          \* user_daily_missions, as pairs of date and mission
  completed,         \* those with a completed_at
  answered,          \* dates with a row in qotd_answers
  catalogue,         \* the active daily_missions
  today              \* the date in Manila

stampVars == <<stamps, stampLedger, streak, shieldEvents, claims, assigned,
               completed, answered, catalogue, today>>

Missions == AtHome \cup OnSite
Dates == 0..LastDay
Week(date) == date \div WeekDays
Month(date) == date \div MonthDays

\* The dates a request that runs now may have computed.
RequestDates == {today, today - 1} \cap Dates

Claimed == {date \in Dates : claims[date] # 0}

-----------------------------------------------------------------------------
(* Awards *)

\* weekStampsUsed
WeekStamps(rows, week) ==
  MapThenSumSet(LAMBDA row : row.delta,
                {row \in rows : row.week = week /\ row.delta > 0})

HasRow(rows, source, key) == \E row \in rows : row.source = source /\ row.key = key

\* Mutant: the cap stops awards once it is reached, and does not cut them.
AwardWithin_Whole(used, amount) == IF used < WeeklyCap THEN amount ELSE 0

\* What the weekly cap leaves of an award.
AwardWithin(used, amount) == Min({amount, Max({0, WeeklyCap - used})})

\* The rows after awardStampsWithLock: a source and key award once, and an
\* award cut to nothing leaves its row as well.
Awarded(rows, source, key, amount, date) ==
  IF HasRow(rows, source, key) THEN rows
  ELSE rows \cup {[source |-> source, key |-> key, week |-> Week(date),
                   delta |-> AwardWithin(WeekStamps(rows, Week(date)), amount)]}

\* The balance follows the rows that were inserted.
SetStamps(rows) ==
  /\ stampLedger' = rows
  /\ stamps' = stamps + MapThenSumSet(LAMBDA row : row.delta, rows \ stampLedger)

-----------------------------------------------------------------------------
(* Shields *)

HasShieldEvent(kind, key) == \E e \in shieldEvents : e.kind = kind /\ e.key = key

\* ensureMonthlyShield: the event of the month and the shields held after it.
MonthlyGrant(date) ==
  IF HasShieldEvent("grant", <<Month(date), "">>) THEN {}
  ELSE {[kind |-> "grant", key |-> <<Month(date), "">>,
         delta |-> IF streak.shields < ShieldsMax THEN 1 ELSE 0]}

ShieldSum(events) == MapThenSumSet(LAMBDA e : e.delta, events)

\* The two best ranked active missions at home and the best one on site.
Best(missions, n) ==
  {m \in missions : Cardinality({k \in missions : MissionRank[k] < MissionRank[m]}) < n}

MissionsOn(date, pairs) == {m \in Missions : <<date, m>> \in pairs}

\* ensureDailyAssignments; missions activated later in the day fill up a day
\* that had fewer than three, and may then exceed three.
WithAssignments(date) ==
  IF Cardinality(MissionsOn(date, assigned)) >= 3 THEN assigned
  ELSE assigned \cup
    ({date} \X (Best(AtHome \cap catalogue, 2) \cup Best(OnSite \cap catalogue, 1)))

-----------------------------------------------------------------------------
(* Requests *)

\* The streak that claiming the date makes, and the shields it takes.
\* Claiming a date before the last one keeps the streak and moves the date of
\* the last claim back.
Streak(date, shields) ==
  LET gap == date - streak.last
      missed == gap - 1
  IN
  IF streak.last = -1 THEN [current |-> 1, consumed |-> 0]
  ELSE IF gap = 1 THEN [current |-> streak.current + 1, consumed |-> 0]
  ELSE IF gap > 1 /\ shields >= missed
    THEN [current |-> streak.current + 1, consumed |-> missed]
  ELSE IF gap > 1 THEN [current |-> 1, consumed |-> 0]
  ELSE [current |-> Max({1, streak.current}), consumed |-> 0]

\* Mutant: the cycle never begins again.
CycleDay_Endless(date) ==
  LET before == {d \in Claimed : d < date} IN
  IF before = {} THEN 1 ELSE claims[Max(before)] + 1

\* Days of the cycle run on from the last date claimed before this one.
CycleDay(date) ==
  LET before == {d \in Claimed : d < date} IN
  IF before = {} \/ claims[Max(before)] >= Cycle THEN 1 ELSE claims[Max(before)] + 1

\* claimDaily, for a date that has not been claimed.
ClaimDaily(date, bonus) ==
  LET grant == MonthlyGrant(date)
      next == Streak(date, streak.shields + ShieldSum(grant))
      consume == IF next.consumed = 0 THEN {}
                 ELSE {[kind |-> "consume", key |-> <<date, "miss">>,
                        delta |-> -next.consumed]}
      amount == IF CycleDay(date) = Cycle THEN Day7Stamps ELSE ClaimStamps
      daily == Awarded(stampLedger, "daily_claim", <<date, "">>, amount, date)
  IN
  /\ date \notin Claimed
  /\ shieldEvents' = shieldEvents \cup grant \cup consume
  /\ streak' = [current |-> next.current, best |-> Max({streak.best, next.current}),
                last |-> date,
                shields |-> Max({0, streak.shields + ShieldSum(grant) - next.consumed})]
  /\ claims' = [claims EXCEPT ![date] = CycleDay(date)]
  /\ SetStamps(IF bonus = 0 THEN daily
               ELSE Awarded(daily, "juanchoice_perk", <<date, "">>, bonus, date))
  /\ UNCHANGED <<assigned, completed, answered, catalogue, today>>

\* getDailyState: opening the page grants the month's shield and the missions.
GetDailyState(date) ==
  /\ shieldEvents' = shieldEvents \cup MonthlyGrant(date)
  /\ streak' = [streak EXCEPT !.shields = @ + ShieldSum(MonthlyGrant(date))]
  /\ assigned' = WithAssignments(date)
  /\ UNCHANGED <<stamps, stampLedger, claims, completed, answered, catalogue, today>>

\* The week's chest, once enough missions of the week are done.
ChestEarned(pairs, week) ==
  Cardinality({p \in pairs : Week(p[1]) = week}) >= ChestRequired

\* recordMissionEvent; an event for a day that has its missions, and not this
\* one, is dropped by the first read.
RecordMission(date, m) ==
  LET pairs == WithAssignments(date) IN
  /\ MissionsOn(date, assigned) # {} => <<date, m>> \in assigned \ completed
  /\ assigned' = pairs
  /\ IF <<date, m>> \in pairs \ completed
     THEN LET done == completed \cup {<<date, m>>}
              rows == Awarded(stampLedger, "mission", <<date, m>>,
                              MissionStamps[m], date)
          IN
          /\ completed' = done
          /\ SetStamps(IF ChestEarned(done, Week(date))
                       THEN Awarded(rows, "weekly_chest", <<Week(date), "">>,
                                    ChestStamps, date)
                       ELSE rows)
     ELSE UNCHANGED <<completed, stamps, stampLedger>>
  /\ UNCHANGED <<streak, shieldEvents, claims, answered, catalogue, today>>

\* spendStamps: a shield for stamps, once per key.
SpendStamps(date, key) ==
  LET row == [source |-> "spend:streak_shield", key |-> <<0, key>>,
              week |-> Week(date), delta |-> -ShieldPrice] IN
  /\ ~HasRow(stampLedger, "spend:streak_shield", <<0, key>>)
  /\ streak.shields < ShieldsMax
  /\ stamps >= ShieldPrice
  /\ SetStamps(stampLedger \cup {row})
  /\ streak' = [streak EXCEPT !.shields = @ + 1]
  /\ shieldEvents' = shieldEvents \cup
       {[kind |-> "purchase", key |-> <<0, key>>, delta |-> 1]}
  /\ UNCHANGED <<claims, assigned, completed, answered, catalogue, today>>

\* answerQuestionOfTheDay; its mission event is a transaction of its own.
AnswerQuestion(date) ==
  /\ date \notin answered
  /\ answered' = answered \cup {date}
  /\ UNCHANGED <<stamps, stampLedger, streak, shieldEvents, claims, assigned,
                 completed, catalogue, today>>

\* The hook of an answer, the others come from quests, spots and posts.
RecordActivity(date, m) ==
  /\ m = Answering => date \in answered
  /\ RecordMission(date, m)

\* upsertDailyMission and setDailyMissionActive
SetMissionActive(m) ==
  /\ catalogue' = (catalogue \ {m}) \cup ({m} \ catalogue)
  /\ UNCHANGED <<stamps, stampLedger, streak, shieldEvents, claims, assigned,
                 completed, answered, today>>

Midnight ==
  /\ today < LastDay
  /\ today' = today + 1
  /\ UNCHANGED <<stamps, stampLedger, streak, shieldEvents, claims, assigned,
                 completed, answered, catalogue>>

-----------------------------------------------------------------------------

StampInit ==
  /\ stamps = 0 /\ stampLedger = {}
  /\ streak = [current |-> 0, best |-> 0, last |-> -1, shields |-> 0]
  /\ shieldEvents = {}
  /\ claims = [date \in Dates |-> 0]
  /\ assigned = {} /\ completed = {} /\ answered = {}
  /\ catalogue = Missions
  /\ today = 0

StampNext ==
  \/ \E date \in RequestDates :
       \/ \E bonus \in PerkBonuses : ClaimDaily(date, bonus)
       \/ GetDailyState(date)
       \/ \E m \in Missions : RecordActivity(date, m)
       \/ \E key \in SpendKeys : SpendStamps(date, key)
       \/ AnswerQuestion(date)
  \/ \E m \in Missions : SetMissionActive(m)
  \/ Midnight

StampSpec == StampInit /\ [][StampNext]_stampVars

-----------------------------------------------------------------------------
(* Properties *)

StampTypeOK ==
  /\ stamps \in Nat
  /\ stampLedger \subseteq
       [source : {"daily_claim", "juanchoice_perk", "mission", "weekly_chest",
                  "spend:streak_shield"},
        key : Dates \X ({""} \cup Missions \cup SpendKeys), week : Nat, delta : Int]
  /\ streak \in [current : Nat, best : Nat, last : {-1} \cup Dates, shields : Nat]
  /\ shieldEvents \subseteq
       [kind : {"grant", "consume", "purchase"},
        key : Dates \X ({"", "miss"} \cup SpendKeys), delta : Int]
  /\ claims \in [Dates -> 0..Cycle]
  /\ completed \subseteq assigned /\ assigned \subseteq Dates \X Missions
  /\ answered \subseteq Dates /\ catalogue \subseteq Missions

\* Whatever claims, missions, chests and purchases were made, at midnight or
\* not: the balance is the sum of the ledger, no week earns more than its cap,
\* a chest was earned by completed missions, the shields held are those the
\* events gave, within their maximum, and a streak is no longer than the days
\* that were claimed and ends on one of them.
StampBooksBalance ==
  /\ stamps = MapThenSumSet(LAMBDA row : row.delta, stampLedger)
  /\ \A week \in {row.week : row \in stampLedger} : WeekStamps(stampLedger, week) <= WeeklyCap
  /\ \A row \in stampLedger : row.source = "weekly_chest" =>
       Cardinality({p \in completed : Week(p[1]) = row.week}) >= ChestRequired
  /\ streak.shields = ShieldSum(shieldEvents)
  /\ streak.shields \in 0..ShieldsMax
  /\ streak.current <= Cardinality(Claimed)
  /\ streak.last # -1 => streak.last \in Claimed
=============================================================================
