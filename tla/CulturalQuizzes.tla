---------------------------- MODULE CulturalQuizzes ----------------------------
(***************************************************************************)
(* The cultural quizzes one traveler may take at their destinations: five  *)
(* questions against the clock, three lifelines, XP for the first time     *)
(* four are right, a cooldown after a failure; and the admin who drafts,   *)
(* publishes, pauses and revokes them.                                     *)
(*                                                                         *)
(* Starting and submitting hold the lock of the traveler's row.  Reading a *)
(* quiz holds none: it marks an attempt expired that it read before.       *)
(***************************************************************************)
EXTENDS Integers, FiniteSets, FiniteSetsExt

CONSTANTS
  Quizzes,
  QuizAttempts,      \* row ids of cultural_quiz_attempts
  NoAttempt,
  Scores,            \* right answers, of five
  XpReward,
  XpBonuses,         \* what a quiz_arcade_xp_boost perk may add, 0 for none
  TimeLimit, Cooldown,
  MaxContent,        \* bound: revisions of a draft
  MaxClock           \* bound: time

ASSUME ScoresInRange == Scores \subseteq 0..5
ASSUME QuizzesAreFinite == IsFiniteSet(Quizzes) /\ IsFiniteSet(QuizAttempts)
ASSUME NoAttemptIsNone == NoAttempt \notin QuizAttempts
\* CHECK (xp_reward > 0)
ASSUME QuizzesReward == XpReward \in Nat \ {0} /\ XpBonuses \subseteq Nat
ASSUME QuizLimits == Quizzes # {} /\ {TimeLimit, Cooldown, MaxContent, MaxClock} \subseteq Nat

VARIABLES
  quiz,              \* cultural_quizzes with its version
  attempt,           \* cultural_quiz_attempts
  quizEvent,         \* XP of the progression event of each quiz, 0 for none
  completions,       \* quizzes with a cultural_quiz_completions row
  quizXp,            \* the quizzes' part of the traveler's explorer XP
  submitting,        \* the attempt whose submission is in its transaction
  viewing,           \* the attempt a reader of the quiz found expired
  clock

quizVars == <<quiz, attempt, quizEvent, completions, quizXp, submitting, viewing, clock>>

Lifelines == {"fifty_fifty", "ask_local", "skip"}

QuizRow == [status : {"none", "draft", "published", "paused", "archived"},
            published : BOOLEAN, content : 0..MaxContent]

NoRow == [quiz |-> CHOOSE q \in Quizzes : TRUE, status |-> "none", expires |-> 0,
          completed |-> 0, xp |-> 0, lifelines |-> {}, content |-> 0]

AttemptsAt(q) == {a \in QuizAttempts : attempt[a].quiz = q /\ attempt[a].status # "none"}
Active(q) == {a \in AttemptsAt(q) : attempt[a].status = "in_progress"}
OverTime(a) == attempt[a].expires < clock

Rename(rows, status) ==
  [a \in QuizAttempts |-> IF a \in rows THEN [attempt[a] EXCEPT !.status = status]
                          ELSE attempt[a]]

grading == <<quizEvent, completions, quizXp>>
requests == <<submitting, viewing, clock>>

-----------------------------------------------------------------------------
(* The admin *)

\* createQuizDraft
CreateQuizDraft(q) ==
  /\ quiz[q].status = "none"
  /\ quiz' = [quiz EXCEPT ![q].status = "draft"]
  /\ UNCHANGED <<attempt, grading, requests>>

\* updateQuizDraft
UpdateQuizDraft(q) ==
  /\ quiz[q].status = "draft" /\ ~quiz[q].published
  /\ quiz[q].content < MaxContent
  /\ quiz' = [quiz EXCEPT ![q].content = @ + 1]
  /\ UNCHANGED <<attempt, grading, requests>>

\* publishQuiz, of a quiz in whatever status.
PublishQuiz(q) ==
  /\ quiz[q].status # "none"
  /\ quiz' = [quiz EXCEPT ![q].status = "published", ![q].published = TRUE]
  /\ UNCHANGED <<attempt, grading, requests>>

\* setQuizStatus
SetQuizStatus(q, status) ==
  /\ quiz[q].status # "none"
  /\ quiz' = [quiz EXCEPT ![q].status = status]
  /\ UNCHANGED <<attempt, grading, requests>>

\* revokeQuiz; it waits for a submission that holds an attempt.
RevokeQuiz(q) ==
  /\ quiz[q].status # "none"
  /\ submitting \notin Active(q)
  /\ quiz' = [quiz EXCEPT ![q].status = "archived"]
  /\ attempt' = Rename(Active(q), "abandoned")
  /\ UNCHANGED <<grading, requests>>

-----------------------------------------------------------------------------
(* The traveler *)

\* findLastFailedAttempt and the cooldown after it.
CoolingDown(q) ==
  \E a \in AttemptsAt(q) :
    attempt[a].status = "failed" /\ attempt[a].completed + Cooldown > clock

\* startAttempt; with an attempt already running it is returned, not started.
StartQuiz(a, q) ==
  LET running == {b \in Active(q) : ~OverTime(b)}
      swept == Rename({b \in Active(q) : OverTime(b)}, "expired")
  IN
  /\ submitting = NoAttempt
  /\ quiz[q].status = "published"
  /\ running = {} /\ ~CoolingDown(q)
  /\ attempt[a].status = "none"
  /\ attempt' = [swept EXCEPT ![a] =
       [NoRow EXCEPT !.quiz = q, !.status = "in_progress",
                     !.expires = clock + TimeLimit, !.content = quiz[q].content]]
  /\ UNCHANGED <<quiz, grading, requests>>

\* useLifeline, each once.
UseLifeline(a, lifeline) ==
  /\ submitting # a
  /\ attempt[a].status = "in_progress" /\ ~OverTime(a)
  /\ lifeline \notin attempt[a].lifelines
  /\ attempt' = [attempt EXCEPT ![a].lifelines = @ \cup {lifeline}]
  /\ UNCHANGED <<quiz, grading, requests>>

\* submitAttempt takes its locks and looks at the clock.
BeginSubmit(a) ==
  /\ submitting = NoAttempt
  /\ attempt[a].status = "in_progress"
  /\ IF OverTime(a)
     THEN attempt' = Rename({a}, "expired") /\ UNCHANGED submitting
     ELSE submitting' = a /\ UNCHANGED attempt
  /\ UNCHANGED <<quiz, grading, viewing, clock>>

\* hasCompletedRewardScope, and recordProgressionEvent's unique source.
FirstCompletion(q) == q \notin completions /\ quizEvent[q] = 0

\* submitAttempt grades: one skip at most, and only with its lifeline.
Grade(score, skipped, bonus) ==
  LET a == submitting
      q == attempt[a].quiz
      passed == score >= 4
      xp == IF passed /\ FirstCompletion(q) THEN XpReward + bonus ELSE 0
  IN
  /\ submitting # NoAttempt
  /\ skipped => "skip" \in attempt[a].lifelines /\ score < 5
  /\ attempt' = [attempt EXCEPT
       ![a].status = IF passed THEN "passed" ELSE "failed",
       ![a].xp = xp, ![a].completed = clock]
  /\ IF xp > 0
     THEN /\ quizEvent' = [quizEvent EXCEPT ![q] = xp]
          /\ completions' = completions \cup {q}
          /\ quizXp' = quizXp + xp
     ELSE UNCHANGED grading
  /\ submitting' = NoAttempt
  /\ UNCHANGED <<quiz, viewing, clock>>

\* The submission fails before its commit.
AbortSubmit ==
  /\ submitting # NoAttempt
  /\ submitting' = NoAttempt
  /\ UNCHANGED <<quiz, attempt, grading, viewing, clock>>

\* getQuizDetail reads the active attempt and finds it over time.
ViewQuiz(a) ==
  /\ viewing = NoAttempt
  /\ attempt[a].status = "in_progress" /\ OverTime(a)
  /\ viewing' = a
  /\ UNCHANGED <<quiz, attempt, grading, submitting, clock>>

\* Its update names the attempt only: a grade given meanwhile is overwritten.
MarkExpired ==
  /\ viewing # NoAttempt /\ viewing # submitting
  /\ attempt' = Rename({viewing}, "expired")
  /\ viewing' = NoAttempt
  /\ UNCHANGED <<quiz, grading, submitting, clock>>

QuizClock ==
  /\ clock < MaxClock
  /\ clock' = clock + 1
  /\ UNCHANGED <<quiz, attempt, grading, submitting, viewing>>

-----------------------------------------------------------------------------

QuizInit ==
  /\ quiz = [q \in Quizzes |-> [status |-> "none", published |-> FALSE, content |-> 0]]
  /\ attempt = [a \in QuizAttempts |-> NoRow]
  /\ quizEvent = [q \in Quizzes |-> 0] /\ completions = {} /\ quizXp = 0
  /\ submitting = NoAttempt /\ viewing = NoAttempt /\ clock = 0

QuizAdmin(q) ==
  \/ CreateQuizDraft(q) \/ UpdateQuizDraft(q) \/ PublishQuiz(q) \/ RevokeQuiz(q)
  \/ \E status \in {"paused", "archived"} : SetQuizStatus(q, status)

QuizTraveler(a) ==
  \/ \E q \in Quizzes : StartQuiz(a, q)
  \/ \E lifeline \in Lifelines : UseLifeline(a, lifeline)
  \/ BeginSubmit(a)
  \/ ViewQuiz(a)

QuizNext ==
  \/ \E q \in Quizzes : QuizAdmin(q)
  \/ \E a \in QuizAttempts : QuizTraveler(a)
  \/ \E score \in Scores, skipped \in BOOLEAN, bonus \in XpBonuses :
       Grade(score, skipped, bonus)
  \/ AbortSubmit \/ MarkExpired \/ QuizClock

QuizSpec == QuizInit /\ [][QuizNext]_quizVars

-----------------------------------------------------------------------------
(* Properties *)

QuizTypeOK ==
  /\ quiz \in [Quizzes -> QuizRow]
  /\ attempt \in [QuizAttempts ->
       [quiz : Quizzes, expires : Nat, completed : Nat, xp : Nat,
        status : {"none", "in_progress", "expired", "abandoned", "passed", "failed"},
        lifelines : SUBSET Lifelines, content : 0..MaxContent]]
  /\ quizEvent \in [Quizzes -> Nat] /\ completions \subseteq Quizzes /\ quizXp \in Nat
  /\ {submitting, viewing} \subseteq QuizAttempts \cup {NoAttempt}
  /\ clock \in 0..MaxClock

\* A quiz gives its XP once, however many attempts pass and whatever a reader
\* overwrites: a completion, its progression event and the XP of the quiz's
\* attempts say the same, the traveler's total is their sum, and an attempt
\* that passed completed the quiz with the questions it was started with.
XpOncePerQuiz ==
  /\ \A q \in Quizzes :
       /\ q \in completions <=> quizEvent[q] > 0
       /\ MapThenSumSet(LAMBDA a : attempt[a].xp, AttemptsAt(q)) = quizEvent[q]
       /\ \A a \in AttemptsAt(q) :
            /\ attempt[a].status = "passed" => q \in completions
            /\ attempt[a].content = quiz[q].content
  /\ quizXp = MapThenSumSet(LAMBDA q : quizEvent[q], Quizzes)
=============================================================================
