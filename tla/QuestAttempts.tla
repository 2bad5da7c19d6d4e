---------------------------- MODULE QuestAttempts ----------------------------
(***************************************************************************)
(* How one traveler completes one quest and is credited for it.            *)
(*                                                                         *)
(* Two review paths lead to the same completion reward: a proof            *)
(* (submissions) approved by a reviewer, and a progressive attempt         *)
(* (quest_attempts) approved by a reviewer or settled at once.  The tables *)
(* quest_attempts and submissions are functions from row ids to rows; a    *)
(* row whose status is "none" has not been inserted.                       *)
(*                                                                         *)
(* Every handler that takes the traveler's row lock is one action.  The    *)
(* two handlers that read without a lock and write later, posting a proof  *)
(* and submitting an attempt, are two actions each: posting[u] and         *)
(* reading[u] hold what the request read, and any other action may run     *)
(* between the two.                                                        *)
(*                                                                         *)
(* The quest is published, belongs to the traveler's scope and has no      *)
(* funding plan (quest_funding_plans).  Pausing it only disables actions.  *)
(* Evidence steps are abstracted: an attempt may be submitted, settled or  *)
(* approved whenever its status allows it.                                 *)
(***************************************************************************)
EXTENDS Naturals, FiniteSets

CONSTANTS
  Travelers,   \* users who attempt the quest
  Reviewers,   \* users with the admin role
  Author,      \* quests.author_id
  None,        \* SQL NULL
  Attempts,    \* row ids of quest_attempts
  Proofs,      \* row ids of submissions
  MaxVersion,  \* bound: revisions of the quest
  MaxPoints    \* bound: completion rewards one traveler is paid

ASSUME NoneIsNoRow ==
  None \notin Travelers \cup Reviewers \cup Attempts \cup Proofs
ASSUME RowsAreFinite == IsFiniteSet(Attempts) /\ IsFiniteSet(Proofs)
ASSUME RowsAreDisjoint == Attempts \cap Proofs = {}
ASSUME BoundsAreNat == MaxVersion \in Nat /\ MaxPoints \in Nat

VARIABLES
  version,     \* quests.version
  attempt,     \* quest_attempts
  proof,       \* submissions
  posting,     \* the paths of a traveler's proof requests past their checks,
               \* each for one request or more
  reading,     \* the attempt a submit or complete request read, unlocked
  demoPoints,  \* users.demo_points, in completion rewards
  ledger       \* reference ids of the quest_reward_credit entries

questVars == <<version, attempt, proof, posting, reading, demoPoints, ledger>>

AttemptRow == [status : {"none", "in_progress", "submitted", "completed",
                         "abandoned"},
               user : Travelers \cup {None},
               version : Nat]

ProofRow == [status : {"none", "pending", "approved", "rejected"},
             user : Travelers \cup {None},
             reviewer : Reviewers \cup {None},
             attempt : Attempts \cup {None}]

-----------------------------------------------------------------------------
(* Reading the tables *)

Uninserted(table, ids) == {i \in ids : table[i].status = "none"}

\* The id the next INSERT uses: ids are random, so which one does not matter.
NextId(table, ids) ==
  IF Uninserted(table, ids) = {} THEN {}
  ELSE {CHOOSE i \in Uninserted(table, ids) : TRUE}

AttemptsIn(u, statuses) ==
  {x \in Attempts : attempt[x].user = u /\ attempt[x].status \in statuses}

ProofsIn(u, statuses) ==
  {s \in Proofs : proof[s].user = u /\ proof[s].status \in statuses}

\* The canonical repeat-completion check of quest-completion.ts.
HasCompletedQuest(u) ==
  \/ ProofsIn(u, {"approved"}) # {}
  \/ AttemptsIn(u, {"completed"}) # {}

-----------------------------------------------------------------------------
(* Writing the tables *)

InsertAttempt(x, u) ==
  attempt' = [attempt EXCEPT ![x] =
    [status |-> "in_progress", user |-> u, version |-> version]]

SetAttempts(rows, status) ==
  attempt' = [x \in Attempts |->
    IF x \in rows THEN [attempt[x] EXCEPT !.status = status] ELSE attempt[x]]

\* INSERT INTO submissions; idx_submissions_unique_pending (migration 046)
\* refuses a second pending proof of the traveler.
InsertProof(u, fundedAttempt) ==
  /\ ProofsIn(u, {"pending"}) = {}
  /\ \E s \in NextId(proof, Proofs) :
       proof' = [proof EXCEPT ![s] =
         [status |-> "pending", user |-> u, reviewer |-> None,
          attempt |-> fundedAttempt]]

SetProof(s, status, a) ==
  proof' = [proof EXCEPT ![s].status = status, ![s].reviewer = a]

\* As SettleReward, forgetting the balance.
SettleReward_LedgerOnly(u, reference) ==
  /\ demoPoints' = demoPoints
  /\ ledger' = ledger \cup {reference}

\* settleReward of a quest without a funding plan: users.demo_points is
\* raised, then recordQuestRewardTx writes the ledger unless the reference
\* already has an entry.
SettleReward(u, reference) ==
  /\ demoPoints[u] < MaxPoints
  /\ demoPoints' = [demoPoints EXCEPT ![u] = @ + 1]
  /\ ledger' = ledger \cup {reference}

-----------------------------------------------------------------------------
(* The traveler's requests *)

\* POST /quests/:id/attempts without an active reward pool.
StartAttempt(u) ==
  /\ u # Author
  /\ ~HasCompletedQuest(u)
  /\ AttemptsIn(u, {"in_progress", "submitted"}) = {}
  /\ \E x \in NextId(attempt, Attempts) : InsertAttempt(x, u)
  /\ UNCHANGED <<version, proof, posting, reading, demoPoints, ledger>>

\* createSubmission up to the choice of its insert path: every check reads
\* without a lock.
CheckProof(u, path) ==
  /\ path \notin posting[u]
  /\ ~HasCompletedQuest(u)
  /\ ProofsIn(u, {"pending"}) = {}
  /\ posting' = [posting EXCEPT ![u] = @ \cup {path}]
  /\ UNCHANGED <<version, attempt, proof, reading, demoPoints, ledger>>

\* A request on the path is answered; others that passed the same checks may
\* still be on their way.
Answer(u, path) == posting' \in {posting, [posting EXCEPT ![u] = @ \ {path}]}

\* createSubmission, the unfunded INSERT.  Nothing read by CheckProof is
\* read again.
PostProof(u) ==
  /\ "unfunded" \in posting[u]
  /\ InsertProof(u, None)
  /\ Answer(u, "unfunded")
  /\ UNCHANGED <<version, attempt, reading, demoPoints, ledger>>

\* submit-for-review and complete: the attempt to submit is looked up before
\* the transaction opens.
ReadAttempt(u) ==
  /\ reading[u] = None
  /\ \E x \in AttemptsIn(u, {"in_progress"}) :
       reading' = [reading EXCEPT ![u] = x]
  /\ UNCHANGED <<version, attempt, proof, posting, demoPoints, ledger>>

\* submit-for-review: the UPDATE names the attempt read before, whatever
\* its status has become.
SubmitAttempt(u) ==
  /\ reading[u] # None
  /\ SetAttempts({reading[u]}, "submitted")
  /\ reading' = [reading EXCEPT ![u] = None]
  /\ UNCHANGED <<version, proof, posting, demoPoints, ledger>>

\* As CompleteAttempt, trusting the completion check of an earlier request.
CompleteAttempt_Unchecked(u) ==
  /\ reading[u] # None
  /\ u # Author
  /\ SettleReward(u, reading[u])
  /\ SetAttempts({reading[u]}, "completed")
  /\ reading' = [reading EXCEPT ![u] = None]
  /\ UNCHANGED <<version, proof, posting>>

\* complete, when instantRewardEligible: the completion check is repeated
\* under the traveler's lock, the attempt's status is not.
CompleteAttempt(u) ==
  /\ reading[u] # None
  /\ u # Author
  /\ ~HasCompletedQuest(u)
  /\ SettleReward(u, reading[u])
  /\ SetAttempts({reading[u]}, "completed")
  /\ reading' = [reading EXCEPT ![u] = None]
  /\ UNCHANGED <<version, proof, posting>>

\* Requests that are refused, rolled back or cut off after their reads.
DropRequest(u) ==
  /\ posting[u] # {} \/ reading[u] # None
  /\ posting' = [posting EXCEPT ![u] = {}]
  /\ reading' = [reading EXCEPT ![u] = None]
  /\ UNCHANGED <<version, attempt, proof, demoPoints, ledger>>

-----------------------------------------------------------------------------
(* The author's and the reviewers' requests *)

\* PATCH of a published quest bumps its version.
ReviseQuest ==
  /\ version < MaxVersion
  /\ version' = version + 1
  /\ UNCHANGED <<attempt, proof, posting, reading, demoPoints, ledger>>

\* The attempts an approved proof completes: its own when it is funded,
\* otherwise the one in progress.
CompletedBy(s) ==
  IF proof[s].attempt # None THEN {proof[s].attempt}
  ELSE AttemptsIn(proof[s].user, {"in_progress"})

\* reviewSubmission, approve, from status `from`.
ApproveProofFrom(from, s, a) ==
  LET u == proof[s].user IN
  /\ proof[s].status = from
  /\ u # a
  /\ ~HasCompletedQuest(u)
  /\ proof[s].attempt # None =>
       attempt[proof[s].attempt].status = "submitted"
  /\ SetProof(s, "approved", a)
  /\ SettleReward(u, s)
  /\ SetAttempts(CompletedBy(s), "completed")
  /\ UNCHANGED <<version, posting, reading>>

ApproveProof(s, a) == ApproveProofFrom("pending", s, a)

\* reviewSubmission, reject.
RejectProof(s, a) ==
  /\ proof[s].status = "pending"
  /\ proof[s].user # a
  /\ SetProof(s, "rejected", a)
  /\ UNCHANGED <<version, attempt, posting, reading, demoPoints, ledger>>

\* The checks every PATCH /admin/quest-attempts/:id makes.
MayReviewAttempt(x, a) ==
  /\ attempt[x].status # "none"
  /\ attempt[x].user # a
  /\ Author # a

\* approve: an attempt of any status, without a completion by the traveler.
ApproveAttempt(x, a) ==
  /\ MayReviewAttempt(x, a)
  /\ ~HasCompletedQuest(attempt[x].user)
  /\ SettleReward(attempt[x].user, x)
  /\ SetAttempts({x}, "completed")
  /\ UNCHANGED <<version, proof, posting, reading>>

\* As RequestChanges, writing the status of an evidence step.
RequestChanges_StepStatus(x, a) ==
  /\ MayReviewAttempt(x, a)
  /\ SetAttempts({x}, "needs_changes")
  /\ UNCHANGED <<version, proof, posting, reading, demoPoints, ledger>>

\* request_changes: any status becomes in_progress; idx_active_quest_attempt
\* (migration 026) refuses a second one in progress.
RequestChanges(x, a) ==
  /\ MayReviewAttempt(x, a)
  /\ AttemptsIn(attempt[x].user, {"in_progress"}) \subseteq {x}
  /\ SetAttempts({x}, "in_progress")
  /\ UNCHANGED <<version, proof, posting, reading, demoPoints, ledger>>

\* reject: any status becomes abandoned.
RejectAttempt(x, a) ==
  /\ MayReviewAttempt(x, a)
  /\ SetAttempts({x}, "abandoned")
  /\ UNCHANGED <<version, proof, posting, reading, demoPoints, ledger>>

-----------------------------------------------------------------------------

Init ==
  /\ version = 1
  /\ attempt = [x \in Attempts |->
                 [status |-> "none", user |-> None, version |-> 0]]
  /\ proof = [s \in Proofs |->
               [status |-> "none", user |-> None, reviewer |-> None,
                attempt |-> None]]
  /\ posting = [u \in Travelers |-> {}]
  /\ reading = [u \in Travelers |-> None]
  /\ demoPoints = [u \in Travelers |-> 0]
  /\ ledger = {}

\* The requests that touch no reward pool.
TravelerStep(u) ==
  \/ ReadAttempt(u)
  \/ SubmitAttempt(u)
  \/ CompleteAttempt(u)
  \/ DropRequest(u)
  \/ PostProof(u)

AttemptReview ==
  \E x \in Attempts, a \in Reviewers :
    \/ ApproveAttempt(x, a)
    \/ RequestChanges(x, a)
    \/ RejectAttempt(x, a)

Next ==
  \/ \E u \in Travelers :
       \/ StartAttempt(u)
       \/ CheckProof(u, "unfunded")
       \/ TravelerStep(u)
  \/ \E s \in Proofs, a \in Reviewers : ApproveProof(s, a) \/ RejectProof(s, a)
  \/ AttemptReview
  \/ ReviseQuest

Spec == Init /\ [][Next]_questVars

-----------------------------------------------------------------------------
(* Properties *)

\* Every row has the columns and values its table allows.
TypeOK ==
  /\ version \in Nat
  /\ attempt \in [Attempts -> AttemptRow]
  /\ proof \in [Proofs -> ProofRow]
  /\ posting \in [Travelers -> SUBSET {"unfunded", "funded"}]
  /\ reading \in [Travelers -> Attempts \cup {None}]
  /\ demoPoints \in [Travelers -> Nat]
  /\ ledger \subseteq Attempts \cup Proofs

\* A traveler never has two approved proofs of the quest, although a proof
\* may be posted by a request whose completion check is stale.
OneApprovedProof ==
  \A u \in Travelers : Cardinality(ProofsIn(u, {"approved"})) <= 1

\* No step pays a traveler who counts as having completed the quest,
\* whichever of the three paying handlers runs and whatever it read before.
NoRewardAfterCompletion ==
  [][\A u \in Travelers :
       HasCompletedQuest(u) => demoPoints'[u] = demoPoints[u]]_questVars

\* Every ledger credit names a proof that is approved or an attempt that was
\* inserted, and every approved proof has its credit.
CreditsHaveSource ==
  /\ ledger \cap Attempts \subseteq Attempts \ Uninserted(attempt, Attempts)
  /\ ledger \cap Proofs = {s \in Proofs : proof[s].status = "approved"}

References(u) ==
  {x \in ledger \cap Attempts : attempt[x].user = u}
    \cup {s \in ledger \cap Proofs : proof[s].user = u}

\* A traveler was paid at least once for every reference in the ledger.
PointsCoverLedger ==
  \A u \in Travelers : Cardinality(References(u)) <= demoPoints[u]

\* Migration 048: "A traveler may receive completion rewards only once per
\* quest, regardless of whether completion came through an approved
\* submission or reviewed attempt."
RewardedOncePerQuest == \A u \in Travelers : demoPoints[u] <= 1
=============================================================================
