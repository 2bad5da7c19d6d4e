------------------------------ MODULE MCCommunity ------------------------------
(***************************************************************************)
(* The features with tables of their own: governance and merchant points,  *)
(* passport stamps, quizzes, Juanchoice elections, the tasks of a quest    *)
(* and the Plaza.  A behaviour has a focus, one part of one of them, and   *)
(* the others do not move.                                                 *)
(***************************************************************************)
EXTENDS CommunitySide, TLC

CONSTANT Far  \* a request to the process "there"; the others are for "here"

VARIABLE focus

mcVars == <<focus, ledgerVars, stampVars, quizVars, electionVars, stepVars, plazaVars>>

-----------------------------------------------------------------------------
(* Constants *)

MCOpening == [u \in Users |-> IF u = "ana" THEN 27 ELSE 12]
\* Shares that do not divide what is paid out.
MCShareSets == {[u \in Users |-> IF u = "ana" THEN 6667 ELSE 3333]}

MCRank == [m \in Missions |-> CASE m = "qotd" -> 1 [] m = "cheer" -> 2 [] OTHER -> 3]
MCMissionStamps == [m \in Missions |-> 5]

MCBoostCost == [w \in 1..3 |-> CASE w = 1 -> 0 [] w = 2 -> 25 [] OTHER -> 100]
MCWindows == {<<1, 3>>}

MCSnapshots == {<<"photo", "ar">>, <<"action", "photo">>, <<"host", "open">>}
MCTerms == {[order |-> "sequential", checkpoint |-> <<"photo", "ar">>, funded |-> TRUE],
            [order |-> "sequential", checkpoint |-> <<"host", "open">>, funded |-> FALSE],
            [order |-> "any", checkpoint |-> <<"action", "photo">>, funded |-> TRUE],
            [order |-> "any", checkpoint |-> <<"action", "photo">>, funded |-> FALSE]}
MCServed == [r \in Requests |-> IF r = Far THEN "there" ELSE "here"]
SameRequests == Permutations(Requests \ {Far})

MCAuthor == [c \in Comments |-> "ben"]

-----------------------------------------------------------------------------

MCInit ==
  /\ focus \in {"merchant", "governance", "claims", "missions", "quiz", "rounds", "drafts",
               "steps", "copies", "cheers", "reports", "board", "pages"}
  /\ LedgerInit /\ StampInit /\ QuizInit /\ ElectionInit /\ StepInit /\ PlazaInit
  /\ terms \in MCTerms
  /\ focus = "steps" <=> terms.order = "sequential"
  /\ focus # "copies" => ~terms.funded \/ focus = "steps"

InFocus(name, others) == focus = name /\ UNCHANGED <<focus, others>>

restOfLedger == <<stampVars, quizVars, electionVars, stepVars, plazaVars>>
restOfStamps == <<ledgerVars, quizVars, electionVars, stepVars, plazaVars>>
restOfQuiz == <<ledgerVars, stampVars, electionVars, stepVars, plazaVars>>
restOfElection == <<ledgerVars, stampVars, quizVars, stepVars, plazaVars>>
restOfSteps == <<ledgerVars, stampVars, quizVars, electionVars, plazaVars>>
restOfPlaza == <<ledgerVars, stampVars, quizVars, electionVars, stepVars>>

LedgerFocus ==
  \/ InFocus("merchant", restOfLedger) /\ MerchantStep
  \/ /\ InFocus("governance", restOfLedger)
     /\ \/ \E p \in Proposals : ProposalStep(p)
        \/ \E u \in Users, q \in Quests \cup Proposals : RewardQuest(u, q)
  \/ /\ focus \in {"merchant", "governance"} /\ UNCHANGED <<focus, restOfLedger>>
     /\ \E switches \in ControlSets : UpdateControls(switches)

\* "claims" has no missions, "missions" claims with a bonus from the second
\* day on; the catalogue changes on the first.
StampFocus ==
  \/ /\ InFocus("claims", restOfStamps)
     /\ \/ \E date \in RequestDates :
             \/ \E bonus \in PerkBonuses : ClaimDaily(date, bonus)
             \/ \E key \in SpendKeys : SpendStamps(date, key)
        \/ Midnight
  \/ /\ InFocus("missions", restOfStamps)
     /\ \/ \E date \in RequestDates :
             \/ today > 1 /\ \E bonus \in PerkBonuses \ {0} : ClaimDaily(date, bonus)
             \/ GetDailyState(date)
             \/ today = 1 /\ AnswerQuestion(date)
             \/ \E m \in Missions : RecordActivity(date, m)
        \/ today = 1 /\ SetMissionActive("visit")
        \/ today < 2 /\ Midnight

QuizFocus ==
  /\ InFocus("quiz", restOfQuiz)
  /\ \/ \E q \in Quizzes : QuizAdmin(q)
     \/ \E a \in QuizAttempts :
          \/ \E q \in Quizzes : StartQuiz(a, q)
          \/ UseLifeline(a, "skip") \/ BeginSubmit(a) \/ ViewQuiz(a)
     \/ \E score \in Scores, skipped \in BOOLEAN, bonus \in XpBonuses :
          Grade(score, skipped, bonus)
     \/ AbortSubmit \/ MarkExpired \/ QuizClock

\* "rounds" are the weeks alone; in "drafts" an admin's campaign competes
\* with them and nobody boosts.
ElectionFocus ==
  \/ /\ InFocus("rounds", restOfElection)
     /\ \/ \E w \in Weeks :
             \/ \E v \in Voters, s \in Spots : Vote(w, v, s)
             \/ \E s \in Spots : ModerateCandidate(w, s)
             \/ CancelCampaign(w) \/ FinalizeCampaign(w)
        \/ \E s \in Spots : WithdrawSpot(s)
        \/ \E t \in {now, now - 1} \cap Nat : ReconcileSchedule(t)
        \/ ElectionClock
  \/ /\ InFocus("drafts", restOfElection)
     /\ \/ \E c \in Campaigns :
             \/ \E v \in Voters, s \in Spots : CastBallot(c, v, s)
             \/ CancelCampaign(c) \/ FinalizeCampaign(c)
        \/ \E c \in Drafts : DraftStep(c)
        \/ \E t \in {now, now - 1} \cap Nat : ReconcileSchedule(t)
        \/ ElectionClock

\* The steps that follow a commit at the process that made it.
Follows == due # {} \/ \E r \in Requests : request[r].phase = "mirror"
Following == (\E u \in due : Tell(u)) \/ \E r \in Requests : MirrorTask(r)

Near == Requests \ {Far}
Fails(r) == request[r].phase = "idle" /\ request'[r].phase = "mirror"

\* In "steps" two requests race at a process that did not start the attempt,
\* and its memory follows the table at once, without faults.
RaceOfRequests ==
  \/ Following
  \/ /\ ~Follows /\ faults' = 0
     /\ \/ StartAttempt("there") \/ ResumeFunded("there")
        \/ \E p \in Passes, s \in Tasks : IssueArChallenge("here", p, s) \/ IssueQrPass("here", p, s)
        \/ \E r \in Near : Evidence(r) /\ ~Fails(r)
        \/ \E allowInstant \in BOOLEAN : ReadTasks("here", allowInstant)
        \/ \E d \in reading : SubmitAttempt(d) \/ CompleteAttempt(d)
        \/ AbandonRequest
        \/ Review /\ \A u \in due' : u.at = "there"

\* In "copies" the attempt is started and reviewed "here", its evidence comes
\* "there", and either process submits it, from the table or from a memory
\* that one update has not reached.  Single tasks are not sent back.
StaleCopies ==
  IF request[Far].phase \in {"unlock", "count", "attempt"} THEN Evidence(Far)
  ELSE /\ \/ StartAttempt("here") \/ ResumeFunded("here") \/ \E w \in Processes : Restart(w)
          \/ \E u \in due : Tell(u)
          \/ /\ Evidence(Far)
             /\ Fails(Far) => terms.funded /\ mirror[ServedBy[Far]].attempt # "none"
          \/ \E w \in Processes : ReadTasks(w, TRUE)
          \/ \E d \in reading : SubmitAttempt(d) \/ CompleteAttempt(d)
          \/ \E s \in Tasks : ApproveTask(s)
          \/ ApproveAttempt("here") \/ RequestAllChanges("here") \/ RejectAttempt("here")
       /\ Cardinality(due') <= 1 /\ \A u \in due' \ due : u.at = "here"

StepFocus ==
  \/ InFocus("steps", restOfSteps) /\ RaceOfRequests
  \/ InFocus("copies", restOfSteps) /\ StaleCopies

\* Points are earned in the first week, in amounts that let one user pass
\* another; the second ends it.
PlazaFocus ==
  \/ /\ InFocus("cheers", restOfPlaza)
     /\ \/ \E a \in Asks :
             \/ FeedStep(a)
             \/ \E v \in Viewers, op \in {"cheer", "uncheer"}, c \in Comments : Ask(a, op, v, c)
        \/ HideActivity \/ \E action \in {"hide", "restore"} : ModerateActivity(action)
  \/ /\ InFocus("reports", restOfPlaza)
     /\ \E a \in Asks :
          \/ FeedStep(a)
          \/ \E v \in Viewers, op \in {"comment", "delete", "report"}, c \in Comments :
               Ask(a, op, v, c)
          \/ \E c \in Comments :
               Ask(a, IF comment[c].hidden = "no" THEN "hide" ELSE "restore", Owner, c)
  \/ /\ InFocus("board", restOfPlaza)
     /\ \/ WeekStep
        \/ \E u \in Climbers, amount \in 1..2 :
             /\ week = 1 /\ (u = "ana" => amount = 2) /\ (u \in Testers => earned[1][u] = 0)
             /\ u # "dan" /\ Earn(u, amount)
  \/ InFocus("pages", restOfPlaza) /\ \E u \in Climbers : Earn(u, 1)

MCNext == LedgerFocus \/ StampFocus \/ QuizFocus \/ ElectionFocus \/ StepFocus
          \/ PlazaFocus

MCSpec == MCInit /\ [][MCNext]_mcVars

\* The weeks alone, for what a champion may expect, and the copies of an
\* attempt alone, for what its completion rests on.
RoundsSpec == MCInit /\ focus = "rounds" /\ [][MCNext]_mcVars
CopiesSpec == MCInit /\ focus = "copies" /\ [][MCNext]_mcVars
=============================================================================
