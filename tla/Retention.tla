------------------------------- MODULE Retention -------------------------------
(***************************************************************************)
(* What finalizing the official rounds brings their voters                 *)
(* (progression/retention.ts): badges for rounds in a row and for finding  *)
(* a winner early, and the goals the whole community unlocks.              *)
(*                                                                         *)
(* A finalization is a transaction that holds its own round and no other,  *)
(* and counts each voter's rounds in a statement of its own: it sees what  *)
(* others committed, and never what they are about to.                     *)
(***************************************************************************)
EXTENDS Integers, FiniteSets, FiniteSetsExt, SequencesExt

CONSTANTS
  Official,          \* campaigns with counts_for_streak
  RoundNo,           \* their round_number; a cancelled one's is used again
  Fans,
  Streaks,           \* the thresholds of streakAwards
  Milestones,        \* the streaks the feed tells of
  Goals, Target,     \* community goals and how many voters each wants
  MaxRound           \* bound: round numbers

ASSUME RoundsAreNumbered == RoundNo \in [Official -> 1..MaxRound]
ASSUME GoalsWantSomebody == Target \in [Goals -> Nat \ {0}]
ASSUME StreaksAreCounted ==
  /\ IsFiniteSet(Official) /\ IsFiniteSet(Fans) /\ MaxRound \in Nat
  /\ Streaks \subseteq Nat \ {0} /\ Milestones \subseteq Nat \ {0}

VARIABLES
  round,             \* juanchoice_campaigns.status; "over" when it has closed
  part,              \* juanchoice_participations of each round
  early,             \* who has a visit to its winner from before it opened
  txn,               \* the finalization of each round
  streakBadges,      \* achievement_awards for streaks
  discoverers,       \* holders of early_discoverer
  told,              \* activities streak_milestone
  unlocked,          \* community_goal_unlocks.observed_count, 0 for none
  orderly            \* history: the rounds ended one by one, by their numbers

retentionVars == <<round, part, early, txn, streakBadges, discoverers, told,
                   unlocked, orderly>>

earned == <<streakBadges, discoverers, told>>

NoTxn == [on |-> FALSE, left |-> {}, badges |-> {}, told |-> {}]

Ended == {c \in Official : round[c] \in {"finalized", "cancelled"}}

\* What orderly becomes when c ends.
StaysOrderly(c) ==
  /\ orderly
  /\ \A d \in Official \ {c} : ~txn[d].on
  /\ {RoundNo[d] : d \in Ended} = 1..(RoundNo[c] - 1)

-----------------------------------------------------------------------------
(* Rounds *)

\* uq_juanchoice_official_series_round: a number is taken until its round is
\* cancelled.
OpenRound(c) ==
  /\ round[c] = "none"
  /\ \A d \in Official : RoundNo[d] = RoundNo[c] => round[d] \in {"none", "cancelled"}
  /\ round' = [round EXCEPT ![c] = "voting"]
  /\ UNCHANGED <<part, early, txn, earned, unlocked, orderly>>

\* The first ballot, in castBallot and castBoostedBallot.
TakePart(f, c) ==
  /\ round[c] = "voting"
  /\ part' = [part EXCEPT ![c] = @ \cup {f}]
  /\ UNCHANGED <<round, early, txn, earned, unlocked, orderly>>

CloseRound(c) ==
  /\ round[c] = "voting"
  /\ round' = [round EXCEPT ![c] = "over"]
  /\ UNCHANGED <<part, early, txn, earned, unlocked, orderly>>

\* cancelCampaign waits for a finalization that holds the round.
CancelRound(c) ==
  /\ round[c] \in {"voting", "over"} /\ ~txn[c].on
  /\ round' = [round EXCEPT ![c] = "cancelled"]
  /\ orderly' = StaysOrderly(c)
  /\ UNCHANGED <<part, early, txn, earned, unlocked>>

\* The outbox delivers a visit from before the round, sooner or later.
RecordEarlyVisit(f, c) ==
  /\ round[c] # "none"
  /\ early' = [early EXCEPT ![c] = @ \cup {f}]
  /\ UNCHANGED <<round, part, txn, earned, unlocked, orderly>>

-----------------------------------------------------------------------------
(* Finalization *)

\* finalizeCampaign takes the round, up to its participants' streaks.
BeginFinalize(c) ==
  /\ round[c] = "over" /\ ~txn[c].on
  /\ txn' = [txn EXCEPT ![c] = [NoTxn EXCEPT !.on = TRUE, !.left = part[c]]]
  /\ orderly' = StaysOrderly(c)
  /\ UNCHANGED <<round, part, early, earned, unlocked>>

\* ORDER BY round_number; a number used twice comes in either order.
InOrder(rounds) ==
  {rows \in SetToSeqs(rounds) :
     \A i, j \in DOMAIN rows : i < j => RoundNo[rows[i]] <= RoundNo[rows[j]]}

\* What a row with this number continues.
Carried(acc, n) == IF acc.number \in {0, n - 1} THEN acc.running ELSE 0

NoStreak == [number |-> 0, running |-> 0, current |-> 0]

\* One row of computeOfficialStreak: a cancelled round neither adds nor breaks.
StreakRow(f, acc, c) ==
  LET carried == Carried(acc, RoundNo[c])
      running == IF round[c] = "cancelled" THEN carried
                 ELSE IF f \in part[c] THEN carried + 1 ELSE 0
  IN [number |-> RoundNo[c], running |-> running,
      current |-> IF round[c] = "cancelled" THEN acc.current ELSE running]

\* computeOfficialStreak
OfficialStreak(f, rows) ==
  FoldLeft(LAMBDA acc, c : StreakRow(f, acc, c), NoStreak, rows).current

\* One participant of evaluateFinalizedCampaignRetention, which sees its own
\* round as finalized. A failure to tell the feed undoes the telling alone.
EvaluateFan(c, f) ==
  /\ txn[c].on /\ f \in txn[c].left
  /\ \E rows \in InOrder(Ended \cup {c}), telling \in BOOLEAN :
       LET streak == OfficialStreak(f, rows) IN
       txn' = [txn EXCEPT
         ![c].left = @ \ {f},
         ![c].badges = @ \cup ({f} \X {t \in Streaks : t <= streak}),
         ![c].told = @ \cup IF telling THEN {f} \X ({streak} \cap Milestones) ELSE {}]
  /\ UNCHANGED <<round, part, early, earned, unlocked, orderly>>

\* The early discoverers, and the commit. A badge is awarded once.
CommitFinalize(c) ==
  /\ txn[c].on /\ txn[c].left = {}
  /\ round' = [round EXCEPT ![c] = "finalized"]
  /\ streakBadges' = streakBadges \cup txn[c].badges
  /\ told' = told \cup txn[c].told
  /\ discoverers' = discoverers \cup early[c]
  /\ txn' = [txn EXCEPT ![c] = NoTxn]
  /\ UNCHANGED <<part, early, unlocked, orderly>>

\* An error, or a deadlock over two voters' badges, rolls all of it back; the
\* next finalizeDueCampaigns starts again.
AbortFinalize(c) ==
  /\ txn[c].on
  /\ txn' = [txn EXCEPT ![c] = NoTxn]
  /\ UNCHANGED <<round, part, early, earned, unlocked, orderly>>

-----------------------------------------------------------------------------
(* Goals *)

\* goalCount for finalized_participants, all in the window of the goals.
FinalizedVoters == UNION {part[c] : c \in {d \in Official : round[d] = "finalized"}}

\* evaluateCommunityGoals: of the goals no other evaluation has locked, those
\* that are met and not unlocked.
EvaluateGoals(free) ==
  LET count == Cardinality(FinalizedVoters)
      met == {g \in free : unlocked[g] = 0 /\ count >= Target[g]}
  IN
  /\ met # {}
  /\ unlocked' = [g \in Goals |-> IF g \in met THEN count ELSE unlocked[g]]
  /\ UNCHANGED <<round, part, early, txn, earned, orderly>>

-----------------------------------------------------------------------------

RetentionInit ==
  /\ round = [c \in Official |-> "none"]
  /\ part = [c \in Official |-> {}] /\ early = [c \in Official |-> {}]
  /\ txn = [c \in Official |-> NoTxn]
  /\ streakBadges = {} /\ discoverers = {} /\ told = {}
  /\ unlocked = [g \in Goals |-> 0]
  /\ orderly = TRUE

RoundStep(c) ==
  \/ OpenRound(c) \/ CloseRound(c) \/ CancelRound(c)
  \/ \E f \in Fans : TakePart(f, c) \/ RecordEarlyVisit(f, c)

FinalizeStep(c) ==
  \/ BeginFinalize(c) \/ CommitFinalize(c) \/ AbortFinalize(c)
  \/ \E f \in Fans : EvaluateFan(c, f)

RetentionNext ==
  \/ \E c \in Official : RoundStep(c) \/ FinalizeStep(c)
  \/ \E free \in SUBSET Goals : EvaluateGoals(free)

RetentionSpec == RetentionInit /\ [][RetentionNext]_retentionVars

-----------------------------------------------------------------------------
(* Properties *)

RetentionTypeOK ==
  /\ round \in [Official -> {"none", "voting", "over", "finalized", "cancelled"}]
  /\ part \in [Official -> SUBSET Fans] /\ early \in [Official -> SUBSET Fans]
  /\ txn \in [Official -> [on : BOOLEAN, left : SUBSET Fans,
                           badges : SUBSET (Fans \X Streaks),
                           told : SUBSET (Fans \X Milestones)]]
  /\ streakBadges \subseteq Fans \X Streaks /\ discoverers \subseteq Fans
  /\ told \subseteq Fans \X Milestones
  /\ unlocked \in [Goals -> Nat] /\ orderly \in BOOLEAN

VotedIn(f, n) ==
  \E c \in Official : RoundNo[c] = n /\ round[c] = "finalized" /\ f \in part[c]

\* Rounds a..b in a row, none of them missed.
InARow(f, a, b) ==
  \A n \in a..b :
    \/ VotedIn(f, n)
    \/ \E c \in Official : RoundNo[c] = n /\ round[c] = "cancelled"

HasStreak(f, t) ==
  \E a, b \in 1..MaxRound :
    /\ InARow(f, a, b)
    /\ Cardinality({n \in a..b : VotedIn(f, n)}) >= t

\* Whatever order finalizations run in, at once or over again: a badge or a
\* milestone was earned by that many rounds in a row. Where the rounds ended
\* one by one and in order, whoever earned a badge has it. A goal was unlocked
\* by voters who are still counted.
StreaksAreEarned ==
  /\ \A f \in Fans, t \in Streaks : <<f, t>> \in streakBadges => HasStreak(f, t)
  /\ \A f \in Fans, t \in Milestones : <<f, t>> \in told => HasStreak(f, t)
  /\ orderly /\ (\A c \in Official : ~txn[c].on) =>
       \A f \in Fans, t \in Streaks : HasStreak(f, t) => <<f, t>> \in streakBadges
  /\ \A g \in Goals : unlocked[g] # 0 =>
       unlocked[g] \in Target[g]..Cardinality(FinalizedVoters)
=============================================================================
