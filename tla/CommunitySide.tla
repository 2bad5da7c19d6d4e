----------------------------- MODULE CommunitySide -----------------------------
(***************************************************************************)
(* What travelers do together and step by step: the points and proposals,  *)
(* the passport (the stamps of the daily page and the cultural quizzes     *)
(* behind it), the weekly elections, the tasks of an attempt and the       *)
(* Plaza.  Each keeps tables of its own; a property here reads several of  *)
(* them, and a specification takes the steps of each.                      *)
(***************************************************************************)
EXTENDS PointsLedger, PassportStamps, CulturalQuizzes, JuanchoiceElections, QuestSteps, Plaza

PassportSpec == StampSpec /\ QuizSpec

\* The whole side.
CommunitySpec == LedgerSpec /\ PassportSpec /\ ElectionSpec /\ StepSpec /\ PlazaSpec

-----------------------------------------------------------------------------
(* Properties *)

\* Every table has its type.
CommunityTypeOK ==
  /\ LedgerTypeOK /\ StampTypeOK /\ QuizTypeOK /\ ElectionTypeOK /\ StepTypeOK /\ PlazaTypeOK

\* The stamps and their ledger, the shields and the streak agree with what was
\* claimed and completed (stamps/service.ts), and a traveler's quiz is rewarded
\* at most once, with the XP its row records (db/cultural-quiz.ts), however
\* claims, purchases, answers, expiries and retries come in between.
PassportHolds == StampBooksBalance /\ XpOncePerQuiz
=============================================================================
