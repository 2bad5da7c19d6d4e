-------------------------- MODULE JuanchoiceElections --------------------------
(***************************************************************************)
(* The elections of one region (juanchoice/service.ts, monthly-service.ts):*)
(* a weekly schedule prepares its rounds, an admin publishes drafts of     *)
(* their own, travelers vote and buy weight for their ballot with points,  *)
(* workers finalize the rounds that closed.                                *)
(*                                                                         *)
(* Publishing and reconciling hold the lock of the region, ballots share   *)
(* and all others take the lock of the campaign's row, so each is one      *)
(* action; the scheduler read its clock before it waited for its locks.    *)
(* The round of a week has the week's number.                              *)
(***************************************************************************)
EXTENDS Integers, FiniteSets, FiniteSetsExt

CONSTANTS
  Spots, Voters,
  NoSpot,            \* SQL NULL in candidate_id
  Drafts,            \* campaigns an admin creates
  Windows,           \* the opens_at and closes_at a draft may have
  WeekTicks, DayTicks,         \* ticks of a week and of its last day
  Lead,              \* preparation_lead_days
  Minimum, Target,   \* candidates of a round
  BoostCost,         \* BOOST_COST_BY_WEIGHT
  FirstBallotXp, TierXp,
  WinnerRest, MinisterRest,   \* the cooldowns, in ticks
  Purse,             \* the points a voter starts with
  MaxWeek            \* bound: weeks

ASSUME WeekHasDays == WeekTicks \in Nat /\ DayTicks \in 1..WeekTicks /\ MaxWeek \in Nat
ASSUME ElectionNumbers ==
  /\ IsFiniteSet(Spots) /\ IsFiniteSet(Voters) /\ IsFiniteSet(Drafts)
  /\ Windows \subseteq Nat \X Nat /\ MinisterRest \in Nat
  /\ {FirstBallotXp, TierXp, Purse} \subseteq Nat
\* The first weight is free, and no heavier one is cheaper.
ASSUME HeavierCostsMore ==
  /\ DOMAIN BoostCost \subseteq Nat \ {0} /\ 1 \in DOMAIN BoostCost /\ BoostCost[1] = 0
  /\ \A w \in DOMAIN BoostCost :
       BoostCost[w] \in Nat /\ \A v \in DOMAIN BoostCost : v <= w => BoostCost[v] <= BoostCost[w]

VARIABLES
  campaign,          \* juanchoice_campaigns
  candidate,         \* juanchoice_candidates by campaign and spot
  ballot,            \* juanchoice_ballots by campaign and voter
  purse,             \* users.demo_points
  sink,              \* points_accounts: juanchoice_sink
  civicXp,           \* progression_totals.civic_xp
  result,            \* juanchoice_results
  state,             \* juanchoice_spot_election_state
  period,            \* juanchoice_schedule_periods: the status of each week
  published,         \* spots that are published and not suppressed
  now

electionVars == <<campaign, candidate, ballot, purse, sink, civicXp, result,
                  state, period, published, now>>

Weeks == 1..MaxWeek
Campaigns == Weeks \cup Drafts
ASSUME DraftsAreNoWeeks == Drafts \cap Weeks = {}
Weekly(c) == c \in Weeks

\* weeklyWindow
Opens(w) == (w - 1) * WeekTicks
Closes(w) == w * WeekTicks

\* localWeek
WeekOf(t) == (t \div WeekTicks) + 1

CampaignRow == [status : {"none", "draft", "scheduled", "voting", "finalized", "cancelled"},
                opens : Nat, closes : Nat]

NoBallot == [spot |-> NoSpot, weight |-> 0, spent |-> 0]
NoResult == [done |-> FALSE, winners |-> {}, minister |-> NoSpot, votes |-> 0]

Voted(c) == {v \in Voters : ballot[c][v].weight > 0}

purses == <<purse, sink, civicXp>>

\* Mutant: a round that was finalized early in its window leaves room.
Overlapping_Running(rows, opens, closes) ==
  \E c \in Campaigns :
    /\ rows[c].status \in {"scheduled", "voting"}
    /\ rows[c].opens < closes /\ rows[c].closes > opens

\* The overlap query of publishCampaign and reconcileSchedule; "closed", which
\* it names as well, is assigned nowhere.
Overlapping(rows, opens, closes) ==
  \E c \in Campaigns :
    /\ rows[c].status \in {"scheduled", "voting", "finalized"}
    /\ rows[c].opens < closes /\ rows[c].closes > opens

-----------------------------------------------------------------------------
(* Ballots *)

Votable(c, s) == candidate[c][s] = "eligible" /\ s \in published

InWindow(c) ==
  /\ campaign[c].status \in {"scheduled", "voting"}
  /\ campaign[c].opens <= now /\ now < campaign[c].closes

\* castBallot: a first ballot weighs 1, a switch keeps its weight.
CastBallot(c, v, s) ==
  LET first == v \notin Voted(c) IN
  /\ InWindow(c) /\ Votable(c, s)
  /\ ballot' = [ballot EXCEPT ![c][v].spot = s,
                              ![c][v].weight = IF first THEN 1 ELSE @]
  /\ civicXp' = [civicXp EXCEPT ![v] = @ + IF first THEN FirstBallotXp ELSE 0]
  /\ UNCHANGED <<campaign, candidate, purse, sink, result, state, period,
                 published, now>>

\* The weight whose price was paid: a first ballot starts at the free one.
PaidWeight(c, v) == Max({1, ballot[c][v].weight})

\* castBoostedBallot
CastBoostedBallot(c, v, s, weight) ==
  LET points == BoostCost[weight] - BoostCost[Max({1, ballot[c][v].weight})]
      tiers == weight - PaidWeight(c, v)
      first == v \notin Voted(c)
  IN
  /\ Weekly(c) /\ InWindow(c) /\ Votable(c, s)
  /\ weight > ballot[c][v].weight
  /\ purse[v] >= points
  /\ purse' = [purse EXCEPT ![v] = @ - points]
  /\ sink' = sink + points
  /\ ballot' = [ballot EXCEPT ![c][v] = [spot |-> s, weight |-> weight,
                                         spent |-> @.spent + points]]
  /\ civicXp' = [civicXp EXCEPT ![v] = @ + tiers * TierXp
                                        + IF first THEN FirstBallotXp ELSE 0]
  /\ UNCHANGED <<campaign, candidate, result, state, period, published, now>>

-----------------------------------------------------------------------------
(* The admin *)

\* POST /juanchoice/admin/campaigns and addCandidate, while it is a draft.
CreateDraft(c, window) ==
  /\ campaign[c].status = "none"
  /\ campaign' = [campaign EXCEPT ![c] =
       [status |-> "draft", opens |-> window[1], closes |-> window[2]]]
  /\ UNCHANGED <<candidate, ballot, purses, result, state, period, published, now>>

AddCandidate(c, s) ==
  /\ campaign[c].status = "draft"
  /\ candidate[c][s] = "none" /\ s \in published
  /\ candidate' = [candidate EXCEPT ![c][s] = "eligible"]
  /\ UNCHANGED <<campaign, ballot, purses, result, state, period, published, now>>

\* publishCampaign
PublishCampaign(c) ==
  LET row == campaign[c] IN
  /\ row.status = "draft"
  /\ ~Overlapping(campaign, row.opens, row.closes)
  /\ \E s \in Spots : Votable(c, s)
  /\ now < row.closes
  /\ campaign' = [campaign EXCEPT ![c].status =
       IF now >= row.opens THEN "voting" ELSE "scheduled"]
  /\ UNCHANGED <<candidate, ballot, purses, result, state, period, published, now>>

\* moderateCandidate
ModerateCandidate(c, s) ==
  /\ campaign[c].status \in {"draft", "scheduled", "voting"}
  /\ candidate[c][s] # "none"
  /\ candidate' = [candidate EXCEPT ![c][s] =
       IF @ = "eligible" THEN "suspended" ELSE "eligible"]
  /\ UNCHANGED <<campaign, ballot, purses, result, state, period, published, now>>

\* cancelCampaign; what the ballots cost is not given back.
CancelCampaign(c) ==
  /\ campaign[c].status \in {"draft", "scheduled", "voting"}
  /\ campaign' = [campaign EXCEPT ![c].status = "cancelled"]
  /\ UNCHANGED <<candidate, ballot, purses, result, state, period, published, now>>

\* A destination is withdrawn from recommendation, or returns.
WithdrawSpot(s) ==
  /\ published' = (published \ {s}) \cup ({s} \ published)
  /\ UNCHANGED <<campaign, candidate, ballot, purses, result, state, period, now>>

-----------------------------------------------------------------------------
(* Finalization *)

Tally(c, s) ==
  MapThenSumSet(LAMBDA v : ballot[c][v].weight, {v \in Voted(c) : ballot[c][v].spot = s})

\* The spots of the set with the most votes, if any has one.
Leading(c, spots) ==
  {s \in spots : Tally(c, s) > 0 /\ \A r \in spots : Tally(c, r) <= Tally(c, s)}

\* The sole runner-up of a sole champion of a week.
MinisterOf(c, standing, winners) ==
  LET second == Leading(c, standing \ winners) IN
  IF Weekly(c) /\ Cardinality(winners) = 1 /\ Cardinality(second) = 1
  THEN CHOOSE s \in second : TRUE ELSE NoSpot

\* finalizeCampaign; which perks the champion's manifesto brings is left out.
FinalizeCampaign(c) ==
  LET standing == {s \in Spots : Votable(c, s)}
      winners == Leading(c, standing)
      minister == MinisterOf(c, standing, winners)
  IN
  /\ ~result[c].done
  /\ campaign[c].closes <= now
  /\ campaign[c].status \in {"scheduled", "voting"}
  /\ campaign' = [campaign EXCEPT ![c].status = "finalized"]
  /\ result' = [result EXCEPT ![c] =
       [done |-> TRUE, winners |-> winners, minister |-> minister,
        votes |-> MapThenSumSet(LAMBDA s : Tally(c, s), standing)]]
  /\ state' = [s \in Spots |->
       IF ~Weekly(c) \/ s \notin standing THEN state[s]
       ELSE IF s \in winners \cup {minister}
       THEN [losses |-> 0,
             minister |-> IF s = minister THEN campaign[c].closes ELSE state[s].minister]
       ELSE [state[s] EXCEPT !.losses = Min({@ + 1, 10})]]
  /\ UNCHANGED <<candidate, ballot, purses, period, published, now>>

-----------------------------------------------------------------------------
(* The scheduler *)

\* The cooldowns of eligibleCandidates and passesWeeklyCooldown for a round
\* that opens then.
Rested(s, opens) ==
  /\ \A c \in Campaigns :
       campaign[c].status # "cancelled" /\ s \in result[c].winners
         => campaign[c].closes < opens - WinnerRest
  /\ state[s].minister <= opens - MinisterRest

\* What a reconciliation changes, as one record.
Rows == [period |-> period, campaign |-> campaign, candidate |-> candidate]

SetPeriod(db, w, status) == [db EXCEPT !.period[w] = status]

\* ensurePeriod
Ensured(db, w, t) ==
  IF db.period[w] # "none" THEN db
  ELSE SetPeriod(db, w, IF t >= Closes(w) - DayTicks THEN "missed" ELSE "planned")

\* The roster selectMonthlyCandidates may choose; its theme, the towns of the
\* spots and how busy they are may leave any of them out.
Rosters(w) ==
  LET able == {s \in published : Rested(s, Opens(w))} IN
  {spots \in SUBSET able : Cardinality(spots) \in Minimum..Target}

\* A planned week: missed, too early, postponed or prepared.
Prepared(db, w, t) ==
  IF t >= Opens(w) /\ t >= Closes(w) - DayTicks THEN {SetPeriod(db, w, "missed")}
  ELSE IF t < Opens(w) - Lead THEN {db}
  ELSE {SetPeriod(db, w, "postponed")} \cup
    IF Overlapping(db.campaign, Opens(w), Closes(w)) THEN {}
    ELSE {[SetPeriod(db, w, "prepared") EXCEPT
             !.campaign[w] = [status |-> "scheduled", opens |-> Opens(w),
                              closes |-> Closes(w)],
             !.candidate[w] = [s \in Spots |-> IF s \in spots THEN "eligible" ELSE "none"]]
            : spots \in Rosters(w)}

\* Mutant: the ballots are not looked at.
MayRecheck_Voted(db, w, t) ==
  t < Opens(w) /\ db.campaign[w].status \in {"scheduled", "voting"}

\* A prepared round is rechecked until it opens, and until the first ballot.
MayRecheck(db, w, t) ==
  /\ t < Opens(w)
  /\ db.campaign[w].status \in {"scheduled", "voting"}
  /\ Voted(w) = {}

\* recheckPreparedPeriod when the spots in `busy` are too busy: candidates who
\* no longer qualify are suspended and replaced, or the round is cancelled.
Rechecked(db, w, busy) ==
  LET standing == {s \in Spots : db.candidate[w][s] = "eligible"}
      able == {s \in published \ busy : Rested(s, Opens(w))}
      live == standing \cap able
      others == {s \in able : db.candidate[w][s] = "none"}
      suspended == [s \in Spots |-> IF s \in standing \ live THEN "suspended"
                                    ELSE db.candidate[w][s]]
  IN
  IF standing = live /\ Cardinality(live) >= Minimum THEN {db}
  ELSE {IF Cardinality(live \cup added) < Minimum
        THEN [SetPeriod(db, w, "cancelled") EXCEPT
                !.campaign[w].status = "cancelled", !.candidate[w] = suspended]
        ELSE [db EXCEPT !.candidate[w] =
                [s \in Spots |-> IF s \in added THEN "eligible" ELSE suspended[s]]]
        : added \in {a \in SUBSET others :
                       a = {} \/ Cardinality(live \cup a) <= Target}}

\* What the reconciliation may make of one week.
Reconciled(db, w, t) ==
  LET row == Ensured(db, w, t) IN
  IF w \notin Weeks THEN {db}
  ELSE IF row.period[w] = "planned" THEN Prepared(row, w, t)
  ELSE IF row.period[w] = "prepared" /\ MayRecheck(row, w, t)
  THEN UNION {Rechecked(row, w, busy) : busy \in SUBSET Spots}
  ELSE {row}

\* reconcileSchedule, this week and the next one in one transaction, with the
\* clock reconcileMonthlySchedules read before.
ReconcileSchedule(t) ==
  \E first \in Reconciled(Rows, WeekOf(t), t) :
    \E db \in Reconciled(first, WeekOf(t) + 1, t) :
      /\ period' = db.period
      /\ campaign' = db.campaign
      /\ candidate' = db.candidate
      /\ UNCHANGED <<ballot, purses, result, state, published, now>>

MaxTime == MaxWeek * WeekTicks

ElectionClock ==
  /\ now < MaxTime
  /\ now' = now + 1
  /\ UNCHANGED <<campaign, candidate, ballot, purses, result, state, period, published>>

-----------------------------------------------------------------------------

ElectionInit ==
  /\ campaign = [c \in Campaigns |-> [status |-> "none", opens |-> 0, closes |-> 0]]
  /\ candidate = [c \in Campaigns |-> [s \in Spots |-> "none"]]
  /\ ballot = [c \in Campaigns |-> [v \in Voters |-> NoBallot]]
  /\ purse = [v \in Voters |-> Purse]
  /\ sink = 0
  /\ civicXp = [v \in Voters |-> 0]
  /\ result = [c \in Campaigns |-> NoResult]
  /\ state = [s \in Spots |-> [losses |-> 0, minister |-> -MinisterRest]]
  /\ period = [w \in Weeks |-> "none"]
  /\ published = Spots
  /\ now = 0

Vote(c, v, s) ==
  \/ CastBallot(c, v, s)
  \/ \E weight \in DOMAIN BoostCost : CastBoostedBallot(c, v, s, weight)

DraftStep(c) ==
  \/ \E window \in Windows : CreateDraft(c, window)
  \/ \E s \in Spots : AddCandidate(c, s)
  \/ PublishCampaign(c)

ElectionNext ==
  \/ \E c \in Campaigns, v \in Voters, s \in Spots : Vote(c, v, s)
  \/ \E c \in Campaigns :
       \/ \E s \in Spots : ModerateCandidate(c, s)
       \/ CancelCampaign(c)
       \/ FinalizeCampaign(c)
  \/ \E c \in Drafts : DraftStep(c)
  \/ \E s \in Spots : WithdrawSpot(s)
  \/ \E t \in {now, now - 1} \cap Nat : ReconcileSchedule(t)
  \/ ElectionClock

ElectionSpec == ElectionInit /\ [][ElectionNext]_electionVars

-----------------------------------------------------------------------------
(* Properties *)

ElectionTypeOK ==
  /\ campaign \in [Campaigns -> CampaignRow]
  /\ candidate \in [Campaigns -> [Spots -> {"none", "eligible", "suspended"}]]
  /\ ballot \in [Campaigns -> [Voters ->
       [spot : Spots \cup {NoSpot}, weight : {0} \cup DOMAIN BoostCost, spent : Nat]]]
  /\ purse \in [Voters -> Nat] /\ sink \in Nat /\ civicXp \in [Voters -> Nat]
  /\ result \in [Campaigns -> [done : BOOLEAN, winners : SUBSET Spots,
                               minister : Spots \cup {NoSpot}, votes : Nat]]
  /\ state \in [Spots -> [losses : 0..10, minister : Int]]
  /\ period \in [Weeks ->
       {"none", "planned", "missed", "postponed", "prepared", "cancelled"}]
  /\ published \subseteq Spots /\ now \in 0..MaxTime

\* Through any switches, boosts, suspensions and cancelled rounds: a ballot
\* cost what its weight costs, the points voters lost are in the sink, and
\* civic XP was given once for the first ballot and once for each tier.
BallotsPaidFor ==
  /\ \A c \in Campaigns, v \in Voters :
       ballot[c][v].spent = IF v \in Voted(c) THEN BoostCost[ballot[c][v].weight] ELSE 0
  /\ \A v \in Voters :
       /\ purse[v] + MapThenSumSet(LAMBDA c : ballot[c][v].spent, Campaigns) = Purse
       /\ civicXp[v] = MapThenSumSet(
            LAMBDA c : FirstBallotXp + (ballot[c][v].weight - 1) * TierXp,
            {c \in Campaigns : v \in Voted(c)})
  /\ sink = MapThenSumSet(LAMBDA v : Purse - purse[v], Voters)

\* Two rounds of the region never run at the same time, whoever made them: a
\* draft published while the scheduler prepares the week included.
RoundsDisjoint ==
  \A c, d \in Campaigns :
    c # d /\ {campaign[c].status, campaign[d].status}
               \subseteq {"scheduled", "voting", "finalized"}
      => campaign[c].closes <= campaign[d].opens \/ campaign[d].closes <= campaign[c].opens

\* A week has one election, and what it cost and gave its voters adds up.
ElectionsAddUp == BallotsPaidFor /\ RoundsDisjoint

\* The scheduler's recheck, which may work with a clock that has moved on,
\* never cancels a round someone voted in, and no result changes later: the
\* votes it counted are still those of its winners' ballots.
RoundWithBallotsRuns ==
  [][/\ \A w \in Weeks : period'[w] = "cancelled" /\ period[w] # "cancelled" => Voted(w) = {}
     /\ \A c \in Campaigns : result[c].done =>
          /\ result'[c] = result[c] /\ ballot'[c] = ballot[c]
          /\ campaign'[c] = campaign[c] /\ candidate'[c] = candidate[c]
    ]_electionVars

\* A champion sits out the weeks of its cooldown: it is not on the ballot of a
\* round that opens in them.
ChampionSitsOut ==
  \A w, u \in Weeks :
    /\ result[w].done /\ campaign[u].status \in {"scheduled", "voting"}
    /\ now >= Opens(u) /\ Opens(u) < Closes(w) + WinnerRest /\ w < u
    => \A s \in result[w].winners : candidate[u][s] # "eligible"
=============================================================================
