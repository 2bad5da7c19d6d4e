----------------------- MODULE RewardReservationsProofs -----------------------
(***************************************************************************)
(* Theorems about QuestAttempts and RewardReservations, for any number of  *)
(* travelers, reviewers, rows and any pool policy.                         *)
(*                                                                         *)
(* Of QuestAttempts: its type invariant, that points cover the ledger, and *)
(* that no handler pays a traveler who has already completed the quest.    *)
(*                                                                         *)
(* Of RewardReservations: the type invariant, the balances of the pool,    *)
(* one claim for a traveler, the implementation of RewardEscrow, that a    *)
(* claim and its proof agree and a claim ends for a cause, and what holds  *)
(* of the credits when the funded handlers run beside the unfunded ones.   *)
(***************************************************************************)
EXTENDS RewardReservations, FiniteSetTheorems, TLAPS

-----------------------------------------------------------------------------
(* Attempts, proofs and the reward of a quest without a pool               *)


-----------------------------------------------------------------------------
(* The helpers the handlers are built from *)

\* An INSERT goes to a row of the table that was not there before.
LEMMA NextIdIsUninserted ==
  ASSUME NEW table, NEW ids, NEW i \in NextId(table, ids)
  PROVE  i \in ids /\ table[i].status = "none"
<1>1. NextId(table, ids) \subseteq Uninserted(table, ids)
  BY DEF NextId
<1>2. QED
  BY <1>1 DEF Uninserted

\* The two UPDATEs and the two INSERTs keep their table's columns.
LEMMA SetAttemptsType ==
  ASSUME TypeOK, NEW rows, NEW status \in {"in_progress", "submitted",
                                           "completed", "abandoned"},
         SetAttempts(rows, status)
  PROVE  attempt' \in [Attempts -> AttemptRow]
BY DEF TypeOK, SetAttempts, AttemptRow

LEMMA InsertAttemptType ==
  ASSUME TypeOK, NEW x \in Attempts, NEW u \in Travelers, InsertAttempt(x, u)
  PROVE  attempt' \in [Attempts -> AttemptRow]
BY DEF TypeOK, InsertAttempt, AttemptRow

LEMMA SetProofType ==
  ASSUME TypeOK, NEW s \in Proofs, NEW a \in Reviewers,
         NEW status \in {"approved", "rejected"}, SetProof(s, status, a)
  PROVE  proof' \in [Proofs -> ProofRow]
<1> DEFINE updated == [proof[s] EXCEPT !.status = status, !.reviewer = a]
<1>1. proof \in [Proofs -> ProofRow]
  BY DEF TypeOK
<1>2. updated \in ProofRow
  BY <1>1 DEF ProofRow
<1>3. proof' = [proof EXCEPT ![s] = updated]
  BY <1>1 DEF SetProof, ProofRow
<1>4. QED
  BY <1>1, <1>2, <1>3

LEMMA InsertProofType ==
  ASSUME TypeOK, NEW u \in Travelers, NEW x \in Attempts \cup {None},
         InsertProof(u, x)
  PROVE  proof' \in [Proofs -> ProofRow]
<1>1. PICK s \in NextId(proof, Proofs) :
        proof' = [proof EXCEPT ![s] =
          [status |-> "pending", user |-> u, reviewer |-> None, attempt |-> x]]
  BY DEF InsertProof
<1>2. s \in Proofs
  BY <1>1, NextIdIsUninserted
<1>3. [status |-> "pending", user |-> u, reviewer |-> None, attempt |-> x]
        \in ProofRow
  BY DEF ProofRow
<1>4. QED
  BY <1>1, <1>2, <1>3 DEF TypeOK

LEMMA SettleRewardType ==
  ASSUME TypeOK, NEW u, NEW reference \in Attempts \cup Proofs,
         SettleReward(u, reference)
  PROVE  demoPoints' \in [Travelers -> Nat] /\ ledger' \subseteq Attempts \cup Proofs
<1>1. demoPoints' \in [Travelers -> Nat]
  <2>1. demoPoints' = [demoPoints EXCEPT ![u] = demoPoints[u] + 1]
    BY DEF SettleReward
  <2>2. demoPoints \in [Travelers -> Nat]
    BY DEF TypeOK
  <2>3. \A t \in Travelers : demoPoints[t] + 1 \in Nat
    BY <2>2
  <2>4. QED
    BY <2>1, <2>2, <2>3
<1>2. ledger' \subseteq Attempts \cup Proofs
  BY DEF TypeOK, SettleReward
<1>3. QED
  BY <1>1, <1>2

-----------------------------------------------------------------------------
(* Type correctness *)

\* A proof request, whichever path it takes, keeps the types; RewardReservations
\* uses the lemmas of single actions for its own type invariant.
LEMMA CheckProofType ==
  ASSUME TypeOK, NEW u \in Travelers, NEW path \in {"unfunded", "funded"},
         CheckProof(u, path)
  PROVE  TypeOK'
BY DEF TypeOK, CheckProof

LEMMA StartAttemptType ==
  ASSUME TypeOK, NEW u \in Travelers, StartAttempt(u)
  PROVE  TypeOK'
<1>1. PICK x \in NextId(attempt, Attempts) : InsertAttempt(x, u)
  BY DEF StartAttempt
<1>2. x \in Attempts
  BY <1>1, NextIdIsUninserted
<1>3. attempt' \in [Attempts -> AttemptRow]
  BY <1>1, <1>2, InsertAttemptType
<1>4. QED
  BY <1>3 DEF TypeOK, StartAttempt

LEMMA TravelerStepType ==
  ASSUME TypeOK, NEW u \in Travelers, TravelerStep(u)
  PROVE  TypeOK'
<1>1. CASE ReadAttempt(u)
  BY <1>1 DEF TypeOK, ReadAttempt, AttemptsIn
<1>2. CASE SubmitAttempt(u)
  <2>1. attempt' \in [Attempts -> AttemptRow]
    BY <1>2, SetAttemptsType DEF SubmitAttempt
  <2>2. QED
    BY <1>2, <2>1 DEF TypeOK, SubmitAttempt
<1>3. CASE CompleteAttempt(u)
  <2>1. reading[u] \in Attempts
    BY <1>3 DEF TypeOK, CompleteAttempt
  <2>2. attempt' \in [Attempts -> AttemptRow]
    BY <1>3, SetAttemptsType DEF CompleteAttempt
  <2>3. demoPoints' \in [Travelers -> Nat] /\ ledger' \subseteq Attempts \cup Proofs
    BY <1>3, <2>1, SettleRewardType DEF CompleteAttempt
  <2>4. QED
    BY <1>3, <2>2, <2>3 DEF TypeOK, CompleteAttempt
<1>4. CASE DropRequest(u)
  BY <1>4 DEF TypeOK, DropRequest
<1>5. CASE PostProof(u)
  <2>1. proof' \in [Proofs -> ProofRow]
    BY <1>5, InsertProofType DEF PostProof
  <2>2. QED
    BY <1>5, <2>1 DEF TypeOK, PostProof, Answer
<1>6. QED
  BY <1>1, <1>2, <1>3, <1>4, <1>5 DEF TravelerStep

LEMMA ProofReviewType ==
  ASSUME TypeOK, NEW s \in Proofs, NEW a \in Reviewers,
         \/ \E from \in {"pending", "rejected"} : ApproveProofFrom(from, s, a)
         \/ RejectProof(s, a)
  PROVE  TypeOK'
<1>1. CASE \E from \in {"pending", "rejected"} : ApproveProofFrom(from, s, a)
  <2>1. proof' \in [Proofs -> ProofRow]
    BY <1>1, SetProofType DEF ApproveProofFrom
  <2>2. attempt' \in [Attempts -> AttemptRow]
    BY <1>1, SetAttemptsType DEF ApproveProofFrom
  <2>3. demoPoints' \in [Travelers -> Nat] /\ ledger' \subseteq Attempts \cup Proofs
    BY <1>1, SettleRewardType DEF ApproveProofFrom
  <2>4. QED
    BY <1>1, <2>1, <2>2, <2>3 DEF TypeOK, ApproveProofFrom
<1>2. CASE RejectProof(s, a)
  <2>1. proof' \in [Proofs -> ProofRow]
    BY <1>2, SetProofType DEF RejectProof
  <2>2. QED
    BY <1>2, <2>1 DEF TypeOK, RejectProof
<1>3. QED
  BY <1>1, <1>2

LEMMA AttemptReviewType ==
  ASSUME TypeOK, AttemptReview
  PROVE  TypeOK'
<1>1. PICK x \in Attempts, a \in Reviewers :
        ApproveAttempt(x, a) \/ RequestChanges(x, a) \/ RejectAttempt(x, a)
  BY DEF AttemptReview
<1>2. attempt' \in [Attempts -> AttemptRow]
  BY <1>1, SetAttemptsType DEF ApproveAttempt, RequestChanges, RejectAttempt
<1>3. CASE ApproveAttempt(x, a)
  <2>1. demoPoints' \in [Travelers -> Nat] /\ ledger' \subseteq Attempts \cup Proofs
    BY <1>3, SettleRewardType DEF ApproveAttempt
  <2>2. QED
    BY <1>2, <1>3, <2>1 DEF TypeOK, ApproveAttempt
<1>4. CASE RequestChanges(x, a) \/ RejectAttempt(x, a)
  BY <1>2, <1>4 DEF TypeOK, RequestChanges, RejectAttempt
<1>5. QED
  BY <1>1, <1>3, <1>4

LEMMA ReviseQuestType ==
  ASSUME TypeOK, ReviseQuest
  PROVE  TypeOK'
BY DEF TypeOK, ReviseQuest

LEMMA InitType == Init => TypeOK
BY DEF Init, TypeOK, AttemptRow, ProofRow

LEMMA NextType ==
  ASSUME TypeOK, [Next]_questVars
  PROVE  TypeOK'
<1>1. ASSUME NEW u \in Travelers,
             \/ StartAttempt(u)
             \/ CheckProof(u, "unfunded")
             \/ TravelerStep(u)
      PROVE  TypeOK'
  BY <1>1, StartAttemptType, CheckProofType, TravelerStepType
<1>2. ASSUME NEW s \in Proofs, NEW a \in Reviewers,
             ApproveProof(s, a) \/ RejectProof(s, a)
      PROVE  TypeOK'
  BY <1>2, ProofReviewType DEF ApproveProof
<1>3. CASE UNCHANGED questVars
  BY <1>3 DEF TypeOK, questVars
<1>4. QED
  BY <1>1, <1>2, <1>3, AttemptReviewType, ReviseQuestType DEF Next

\* The tables and the requests in flight keep the form their columns allow,
\* for every number of travelers, reviewers and rows.
THEOREM TypeCorrect == Spec => []TypeOK
<1>1. Init => TypeOK
  BY InitType
<1>2. TypeOK /\ [Next]_questVars => TypeOK'
  BY NextType
<1>3. QED
  BY <1>1, <1>2, PTL DEF Spec

-----------------------------------------------------------------------------
(* What every step does to the credits *)

ApprovedProofs == {s \in Proofs : proof[s].status = "approved"}

\* A row that was inserted stays, and stays its traveler's.
RowsKept ==
  /\ \A x \in Attempts : attempt[x].status # "none" =>
       attempt'[x].status # "none" /\ attempt'[x].user = attempt[x].user
  /\ \A s \in Proofs : proof[s].status # "none" =>
       proof'[s].status # "none" /\ proof'[s].user = proof[s].user

NoCredit ==
  /\ UNCHANGED <<demoPoints, ledger>>
  /\ ApprovedProofs' = ApprovedProofs

\* One payment, to a traveler who has not completed the quest, for a row of
\* the traveler: an attempt, or a proof that this step approves.
OneCredit ==
  \E u \in Travelers \cup {None}, reference \in Attempts \cup Proofs :
    /\ ~HasCompletedQuest(u)
    /\ SettleReward(u, reference)
    /\ \/ /\ reference \in Attempts
          /\ attempt[reference].status # "none"
          /\ attempt[reference].user = u
          /\ ApprovedProofs' = ApprovedProofs
       \/ /\ reference \in Proofs
          /\ proof[reference].status # "none"
          /\ proof[reference].user = u
          /\ ApprovedProofs' = ApprovedProofs \cup {reference}

CreditStep == RowsKept /\ (NoCredit \/ OneCredit)

\* The attempt a request in flight names is the traveler's own.
ReadingIsOwn ==
  \A u \in Travelers : reading[u] # None =>
    attempt[reading[u]].status # "none" /\ attempt[reading[u]].user = u

LEMMA SetAttemptsKeepsRows ==
  ASSUME TypeOK, NEW rows, NEW status, status # "none",
         SetAttempts(rows, status)
  PROVE  \A x \in Attempts : attempt[x].status # "none" =>
           attempt'[x].status # "none" /\ attempt'[x].user = attempt[x].user
BY DEF TypeOK, SetAttempts, AttemptRow

LEMMA InsertAttemptKeepsRows ==
  ASSUME TypeOK, NEW u, NEW x \in NextId(attempt, Attempts),
         InsertAttempt(x, u)
  PROVE  \A y \in Attempts : attempt[y].status # "none" =>
           attempt'[y].status # "none" /\ attempt'[y].user = attempt[y].user
<1>1. x \in Attempts /\ attempt[x].status = "none"
  BY NextIdIsUninserted
<1>2. QED
  BY <1>1 DEF TypeOK, InsertAttempt

LEMMA SetProofKeepsRows ==
  ASSUME TypeOK, NEW s \in Proofs, NEW status, status # "none", NEW a,
         SetProof(s, status, a)
  PROVE  /\ \A r \in Proofs : proof[r].status # "none" =>
              proof'[r].status # "none" /\ proof'[r].user = proof[r].user
         /\ status = "approved" => ApprovedProofs' = ApprovedProofs \cup {s}
         /\ status # "approved" /\ s \notin ApprovedProofs =>
              ApprovedProofs' = ApprovedProofs
<1>1. \A r \in Proofs : r # s => proof'[r] = proof[r]
  BY DEF TypeOK, SetProof
<1>2. proof'[s].status = status /\ proof'[s].user = proof[s].user
  BY DEF TypeOK, SetProof, ProofRow
<1>3. QED
  BY <1>1, <1>2 DEF ApprovedProofs

LEMMA InsertProofKeepsRows ==
  ASSUME TypeOK, NEW u, NEW x, InsertProof(u, x)
  PROVE  /\ \A r \in Proofs : proof[r].status # "none" =>
              proof'[r].status # "none" /\ proof'[r].user = proof[r].user
         /\ ApprovedProofs' = ApprovedProofs
<1>1. PICK s \in NextId(proof, Proofs) :
        proof' = [proof EXCEPT ![s] =
          [status |-> "pending", user |-> u, reviewer |-> None, attempt |-> x]]
  BY DEF InsertProof
<1>2. s \in Proofs /\ proof[s].status = "none"
  BY <1>1, NextIdIsUninserted
<1>3. QED
  BY <1>1, <1>2 DEF TypeOK, ApprovedProofs

LEMMA StartAttemptCredits ==
  ASSUME TypeOK, NEW u \in Travelers, StartAttempt(u)
  PROVE  CreditStep
<1>1. PICK x \in NextId(attempt, Attempts) : InsertAttempt(x, u)
  BY DEF StartAttempt
<1>2. \A y \in Attempts : attempt[y].status # "none" =>
        attempt'[y].status # "none" /\ attempt'[y].user = attempt[y].user
  BY <1>1, InsertAttemptKeepsRows
<1>3. QED
  BY <1>2 DEF StartAttempt, CreditStep, RowsKept, NoCredit, ApprovedProofs

LEMMA TravelerStepCredits ==
  ASSUME TypeOK, ReadingIsOwn, NEW u \in Travelers, TravelerStep(u)
  PROVE  CreditStep
<1>1. CASE ReadAttempt(u) \/ DropRequest(u)
  BY <1>1 DEF ReadAttempt, DropRequest, CreditStep, RowsKept, NoCredit,
              ApprovedProofs
<1>2. CASE SubmitAttempt(u)
  BY <1>2, SetAttemptsKeepsRows
     DEF SubmitAttempt, CreditStep, RowsKept, NoCredit, ApprovedProofs
<1>3. CASE CompleteAttempt(u)
  <2>1. RowsKept
    BY <1>3, SetAttemptsKeepsRows DEF CompleteAttempt, RowsKept
  <2>2. /\ reading[u] \in Attempts
        /\ attempt[reading[u]].status # "none"
        /\ attempt[reading[u]].user = u
    BY <1>3 DEF CompleteAttempt, ReadingIsOwn, TypeOK
  <2>3. /\ ~HasCompletedQuest(u)
        /\ SettleReward(u, reading[u])
        /\ ApprovedProofs' = ApprovedProofs
    BY <1>3 DEF CompleteAttempt, ApprovedProofs
  <2>4. OneCredit
    BY <2>2, <2>3 DEF OneCredit
  <2>5. QED
    BY <2>1, <2>4 DEF CreditStep
<1>4. CASE PostProof(u)
  BY <1>4, InsertProofKeepsRows
     DEF PostProof, CreditStep, RowsKept, NoCredit
<1>5. QED
  BY <1>1, <1>2, <1>3, <1>4 DEF TravelerStep

LEMMA ProofReviewCredits ==
  ASSUME TypeOK, NEW s \in Proofs, NEW a \in Reviewers,
         \/ \E from \in {"pending", "rejected"} : ApproveProofFrom(from, s, a)
         \/ RejectProof(s, a)
  PROVE  CreditStep
<1>1. CASE \E from \in {"pending", "rejected"} : ApproveProofFrom(from, s, a)
  <2>1. /\ SetProof(s, "approved", a)
        /\ SetAttempts(CompletedBy(s), "completed")
        /\ ~HasCompletedQuest(proof[s].user)
        /\ SettleReward(proof[s].user, s)
        /\ proof[s].status # "none"
    BY <1>1 DEF ApproveProofFrom
  <2>2. RowsKept
    BY <2>1, SetProofKeepsRows, SetAttemptsKeepsRows DEF RowsKept
  <2>3. ApprovedProofs' = ApprovedProofs \cup {s}
    BY <2>1, SetProofKeepsRows
  <2>4. proof[s].user \in Travelers \cup {None}
    BY DEF TypeOK, ProofRow
  <2>5. OneCredit
    BY <2>1, <2>3, <2>4 DEF OneCredit
  <2>6. QED
    BY <2>2, <2>5 DEF CreditStep
<1>2. CASE RejectProof(s, a)
  <2>1. SetProof(s, "rejected", a) /\ s \notin ApprovedProofs
    BY <1>2 DEF RejectProof, ApprovedProofs
  <2>2. QED
    BY <1>2, <2>1, SetProofKeepsRows
       DEF RejectProof, CreditStep, RowsKept, NoCredit
<1>3. QED
  BY <1>1, <1>2

LEMMA AttemptReviewCredits ==
  ASSUME TypeOK, AttemptReview
  PROVE  CreditStep
<1>1. PICK x \in Attempts, a \in Reviewers :
        ApproveAttempt(x, a) \/ RequestChanges(x, a) \/ RejectAttempt(x, a)
  BY DEF AttemptReview
<1>2. RowsKept
  BY <1>1, SetAttemptsKeepsRows
     DEF ApproveAttempt, RequestChanges, RejectAttempt, RowsKept
<1>3. CASE ApproveAttempt(x, a)
  <2>1. attempt[x].user \in Travelers \cup {None}
    BY DEF TypeOK, AttemptRow
  <2>2. /\ ~HasCompletedQuest(attempt[x].user)
        /\ SettleReward(attempt[x].user, x)
        /\ attempt[x].status # "none"
        /\ ApprovedProofs' = ApprovedProofs
    BY <1>3 DEF ApproveAttempt, MayReviewAttempt, ApprovedProofs
  <2>3. OneCredit
    BY <2>1, <2>2 DEF OneCredit
  <2>4. QED
    BY <1>2, <2>3 DEF CreditStep
<1>4. CASE RequestChanges(x, a) \/ RejectAttempt(x, a)
  BY <1>2, <1>4
     DEF RequestChanges, RejectAttempt, CreditStep, NoCredit, ApprovedProofs
<1>5. QED
  BY <1>1, <1>3, <1>4

\* Every step of the quest is at most one payment.
LEMMA NextCredits ==
  ASSUME TypeOK, ReadingIsOwn, [Next]_questVars
  PROVE  CreditStep
<1>1. ASSUME NEW u \in Travelers,
             \/ StartAttempt(u)
             \/ CheckProof(u, "unfunded")
             \/ TravelerStep(u)
      PROVE  CreditStep
  <2>1. CASE CheckProof(u, "unfunded")
    BY <2>1 DEF CheckProof, CreditStep, RowsKept, NoCredit, ApprovedProofs
  <2>2. QED
    BY <1>1, <2>1, StartAttemptCredits, TravelerStepCredits
<1>2. ASSUME NEW s \in Proofs, NEW a \in Reviewers,
             ApproveProof(s, a) \/ RejectProof(s, a)
      PROVE  CreditStep
  BY <1>2, ProofReviewCredits DEF ApproveProof
<1>3. CASE ReviseQuest \/ UNCHANGED questVars
  BY <1>3 DEF ReviseQuest, questVars, CreditStep, RowsKept, NoCredit,
              ApprovedProofs
<1>4. QED
  BY <1>1, <1>2, <1>3, AttemptReviewCredits DEF Next

-----------------------------------------------------------------------------
(* What the credit steps preserve *)

LEMMA ReadingStaysOwn ==
  ASSUME TypeOK, ReadingIsOwn, RowsKept,
         \A u \in Travelers : reading'[u] \in {reading[u], None}
  PROVE  ReadingIsOwn'
<1> SUFFICES ASSUME NEW u \in Travelers, reading'[u] # None
             PROVE  attempt'[reading'[u]].status # "none"
                      /\ attempt'[reading'[u]].user = u
  BY DEF ReadingIsOwn
<1>1. reading'[u] = reading[u] /\ reading[u] \in Attempts
  BY DEF TypeOK
<1>2. QED
  BY <1>1 DEF ReadingIsOwn, RowsKept

LEMMA ReadAttemptOwn ==
  ASSUME TypeOK, ReadingIsOwn, NEW u \in Travelers, ReadAttempt(u)
  PROVE  ReadingIsOwn'
<1>1. PICK x \in AttemptsIn(u, {"in_progress"}) :
        reading' = [reading EXCEPT ![u] = x]
  BY DEF ReadAttempt
<1>2. attempt[x].status # "none" /\ attempt[x].user = u
  BY <1>1 DEF AttemptsIn
<1>3. QED
  BY <1>1, <1>2 DEF ReadingIsOwn, ReadAttempt, TypeOK

LEMMA TravelerStepOwn ==
  ASSUME TypeOK, ReadingIsOwn, NEW u \in Travelers, TravelerStep(u)
  PROVE  ReadingIsOwn'
<1>1. CASE ReadAttempt(u)
  BY <1>1, ReadAttemptOwn
<1>2. CASE SubmitAttempt(u) \/ CompleteAttempt(u) \/ DropRequest(u) \/ PostProof(u)
  <2>1. RowsKept
    BY TravelerStepCredits DEF CreditStep
  <2>2. \A v \in Travelers : reading'[v] \in {reading[v], None}
    BY <1>2 DEF SubmitAttempt, CompleteAttempt, DropRequest, PostProof, TypeOK
  <2>3. QED
    BY <2>1, <2>2, ReadingStaysOwn
<1>3. QED
  BY <1>1, <1>2 DEF TravelerStep

\* A settlement adds one to the payee's points and one reference to the ledger.
LEMMA SettleRewardEffect ==
  ASSUME TypeOK, NEW u, NEW reference, SettleReward(u, reference)
  PROVE  /\ ledger' = ledger \cup {reference}
         /\ \A t \in Travelers :
              demoPoints'[t] = IF t = u THEN demoPoints[t] + 1 ELSE demoPoints[t]
BY DEF TypeOK, SettleReward

LEMMA SourcesKept ==
  ASSUME TypeOK, CreditsHaveSource, CreditStep
  PROVE  CreditsHaveSource'
<1>1. Attempts \ Uninserted(attempt, Attempts)
        \subseteq Attempts \ Uninserted(attempt', Attempts)
  BY DEF CreditStep, RowsKept, Uninserted
<1>2. CASE NoCredit
  BY <1>1, <1>2 DEF NoCredit, CreditsHaveSource, ApprovedProofs
<1>3. CASE OneCredit
  <2>1. PICK u \in Travelers \cup {None}, reference \in Attempts \cup Proofs :
          /\ SettleReward(u, reference)
          /\ \/ /\ reference \in Attempts
                /\ attempt[reference].status # "none"
                /\ ApprovedProofs' = ApprovedProofs
             \/ /\ reference \in Proofs
                /\ ApprovedProofs' = ApprovedProofs \cup {reference}
    BY <1>3 DEF OneCredit
  <2>2. ledger' = ledger \cup {reference}
    BY <2>1, SettleRewardEffect
  <2>3. ledger \cap Proofs = ApprovedProofs
    BY DEF CreditsHaveSource, ApprovedProofs
  <2>4. ledger' \cap Proofs = ApprovedProofs'
    BY <2>1, <2>2, <2>3, RowsAreDisjoint
  <2>5. ledger' \cap Attempts \subseteq Attempts \ Uninserted(attempt', Attempts)
    BY <1>1, <2>1, <2>2, RowsAreDisjoint DEF CreditsHaveSource, Uninserted
  <2>6. QED
    BY <2>4, <2>5 DEF CreditsHaveSource, ApprovedProofs
<1>4. QED
  BY <1>2, <1>3 DEF CreditStep

\* Two approved proofs of one traveler are the same proof.
OneApproved ==
  \A s, t \in ApprovedProofs : proof[s].user = proof[t].user => s = t

LEMMA OneApprovedKept ==
  ASSUME TypeOK, OneApproved, CreditStep
  PROVE  OneApproved'
<1>1. \A s \in ApprovedProofs : proof'[s].user = proof[s].user
  BY DEF CreditStep, RowsKept, ApprovedProofs
<1>2. CASE ApprovedProofs' = ApprovedProofs
  BY <1>1, <1>2 DEF OneApproved
<1>3. ASSUME NEW u \in Travelers \cup {None}, NEW r \in Proofs,
             ~HasCompletedQuest(u), proof[r].status # "none",
             proof[r].user = u, ApprovedProofs' = ApprovedProofs \cup {r}
      PROVE  OneApproved'
  <2>1. \A s \in ApprovedProofs : proof[s].user # u
    BY <1>3 DEF HasCompletedQuest, ProofsIn, ApprovedProofs
  <2>2. proof'[r].user = u
    BY <1>3 DEF CreditStep, RowsKept
  <2>3. QED
    BY <1>1, <1>3, <2>1, <2>2 DEF OneApproved
<1>4. QED
  BY <1>2, <1>3 DEF CreditStep, NoCredit, OneCredit

LEMMA OneApprovedCardinality == OneApproved => OneApprovedProof
<1> SUFFICES ASSUME OneApproved, NEW u \in Travelers
             PROVE  Cardinality(ProofsIn(u, {"approved"})) <= 1
  BY DEF OneApprovedProof
<1> DEFINE mine == ProofsIn(u, {"approved"})
<1>1. \A s, t \in mine : s = t
  BY DEF OneApproved, ApprovedProofs, ProofsIn
<1>2. CASE mine = {}
  BY <1>2, FS_EmptySet
<1>3. CASE mine # {}
  <2>1. PICK s : mine = {s}
    BY <1>1, <1>3
  <2>2. Cardinality({s}) = 1
    BY FS_Singleton
  <2>3. QED
    BY <2>1, <2>2
<1>4. QED
  BY <1>2, <1>3

LEMMA LedgerIsFinite ==
  ASSUME TypeOK, NEW u \in Travelers
  PROVE  IsFiniteSet(References(u)) /\ Cardinality(References(u)) \in Nat
<1>1. IsFiniteSet(Attempts \cup Proofs)
  BY RowsAreFinite, FS_Union
<1>2. References(u) \in SUBSET (Attempts \cup Proofs)
  BY DEF References
<1>3. IsFiniteSet(References(u))
  BY <1>1, <1>2, FS_Subset
<1>4. QED
  BY <1>3, FS_CardinalityType

LEMMA AddedElement ==
  ASSUME NEW S, NEW x, IsFiniteSet(S)
  PROVE  /\ IsFiniteSet(S \cup {x})
         /\ Cardinality(S \cup {x}) <= Cardinality(S) + 1
         /\ Cardinality(S \cup {x}) \in Nat
<1>1. Cardinality(S) \in Nat
  BY FS_CardinalityType
<1>2. IsFiniteSet(S \cup {x})
  BY FS_AddElement
<1>3. Cardinality(S \cup {x}) \in {Cardinality(S), Cardinality(S) + 1}
  BY FS_AddElement
<1>4. QED
  BY <1>1, <1>2, <1>3

LEMMA PointsCovered ==
  ASSUME TypeOK, CreditsHaveSource, PointsCoverLedger, CreditStep
  PROVE  PointsCoverLedger'
<1> SUFFICES ASSUME NEW t \in Travelers
             PROVE  Cardinality(References(t)') <= demoPoints'[t]
  BY DEF PointsCoverLedger
<1> DEFINE mine == References(t)
<1>1. IsFiniteSet(mine) /\ Cardinality(mine) \in Nat
  BY LedgerIsFinite
<1>2. Cardinality(mine) <= demoPoints[t] /\ demoPoints[t] \in Nat
  BY DEF PointsCoverLedger, TypeOK
<1>3. /\ \A x \in ledger \cap Attempts : attempt'[x].user = attempt[x].user
      /\ \A s \in ledger \cap Proofs : proof'[s].user = proof[s].user
  BY DEF CreditStep, RowsKept, CreditsHaveSource, Uninserted
<1>4. CASE NoCredit
  <2>1. ledger' = ledger /\ demoPoints'[t] = demoPoints[t]
    BY <1>4 DEF NoCredit
  <2>2. References(t)' = mine
    BY <1>3, <2>1 DEF References
  <2>3. QED
    BY <1>2, <2>1, <2>2
<1>5. CASE OneCredit
  <2>1. PICK u \in Travelers \cup {None}, reference \in Attempts \cup Proofs :
          /\ SettleReward(u, reference)
          /\ \/ /\ reference \in Attempts
                /\ attempt[reference].status # "none"
                /\ attempt[reference].user = u
             \/ /\ reference \in Proofs
                /\ proof[reference].status # "none"
                /\ proof[reference].user = u
    BY <1>5 DEF OneCredit
  <2>2. /\ ledger' = ledger \cup {reference}
        /\ demoPoints'[t] = IF t = u THEN demoPoints[t] + 1 ELSE demoPoints[t]
    BY <2>1, SettleRewardEffect
  <2>3. reference \in Attempts => attempt'[reference].user = u
    BY <2>1, RowsAreDisjoint DEF CreditStep, RowsKept
  <2>4. reference \in Proofs => proof'[reference].user = u
    BY <2>1, RowsAreDisjoint DEF CreditStep, RowsKept
  <2>5. CASE t = u
    <3>1. References(t)' \in SUBSET (mine \cup {reference})
      BY <1>3, <2>2 DEF References
    <3>2. /\ IsFiniteSet(mine \cup {reference})
          /\ Cardinality(mine \cup {reference}) <= Cardinality(mine) + 1
          /\ Cardinality(mine \cup {reference}) \in Nat
      BY <1>1, AddedElement
    <3>3. /\ Cardinality(References(t)') <= Cardinality(mine \cup {reference})
          /\ Cardinality(References(t)') \in Nat
      BY <3>1, <3>2, FS_Subset, FS_CardinalityType
    <3>4. QED
      BY <1>1, <1>2, <2>2, <2>5, <3>2, <3>3
  <2>6. CASE t # u
    <3>1. References(t)' = mine
      BY <1>3, <2>2, <2>3, <2>4, <2>6 DEF References
    <3>2. QED
      BY <1>2, <2>2, <2>6, <3>1
  <2>7. QED
    BY <2>5, <2>6
<1>6. QED
  BY <1>4, <1>5 DEF CreditStep

\* The inductive invariant.
CreditInv ==
  /\ TypeOK
  /\ ReadingIsOwn
  /\ OneApproved
  /\ CreditsHaveSource
  /\ PointsCoverLedger

LEMMA InitCredits == Init => CreditInv
<1> SUFFICES ASSUME Init PROVE CreditInv
  OBVIOUS
<1>1. TypeOK
  BY InitType
<1>2. ReadingIsOwn /\ OneApproved
  BY DEF Init, ReadingIsOwn, OneApproved, ApprovedProofs
<1>3. CreditsHaveSource
  BY DEF Init, CreditsHaveSource
<1>4. PointsCoverLedger
  <2>1. \A u \in Travelers : References(u) = {} /\ demoPoints[u] = 0
    BY DEF Init, References
  <2>2. QED
    BY <2>1, FS_EmptySet DEF PointsCoverLedger
<1>5. QED
  BY <1>1, <1>2, <1>3, <1>4 DEF CreditInv

LEMMA NextReadsOwn ==
  ASSUME TypeOK, ReadingIsOwn, [Next]_questVars
  PROVE  ReadingIsOwn'
<1>1. RowsKept
  BY NextCredits DEF CreditStep
<1>2. CASE \E u \in Travelers : TravelerStep(u)
  BY <1>2, TravelerStepOwn
<1>3. CASE UNCHANGED reading
  BY <1>1, <1>3, ReadingStaysOwn
<1>4. ASSUME NEW u \in Travelers, StartAttempt(u) \/ CheckProof(u, "unfunded")
      PROVE  UNCHANGED reading
  BY <1>4 DEF StartAttempt, CheckProof
<1>5. ASSUME NEW s \in Proofs, NEW a \in Reviewers,
             ApproveProof(s, a) \/ RejectProof(s, a)
      PROVE  UNCHANGED reading
  BY <1>5 DEF ApproveProof, ApproveProofFrom, RejectProof
<1>6. ASSUME AttemptReview \/ ReviseQuest \/ UNCHANGED questVars
      PROVE  UNCHANGED reading
  BY <1>6 DEF AttemptReview, ApproveAttempt, RequestChanges, RejectAttempt,
              ReviseQuest, questVars
<1>7. QED
  BY <1>2, <1>3, <1>4, <1>5, <1>6 DEF Next

LEMMA NextCreditInv ==
  ASSUME CreditInv, [Next]_questVars
  PROVE  CreditInv'
<1>1. TypeOK' /\ ReadingIsOwn' /\ CreditStep
  BY NextType, NextReadsOwn, NextCredits DEF CreditInv
<1>2. OneApproved' /\ CreditsHaveSource' /\ PointsCoverLedger'
  BY <1>1, OneApprovedKept, SourcesKept, PointsCovered DEF CreditInv
<1>3. QED
  BY <1>1, <1>2 DEF CreditInv

\* What the credits of the quest promise: one approved proof for a traveler,
\* a row behind every ledger entry and points for every entry, whatever the
\* requests in flight have read.
THEOREM CreditsCorrect ==
  Spec => [](OneApprovedProof /\ CreditsHaveSource /\ PointsCoverLedger)
<1>1. Init => CreditInv
  BY InitCredits
<1>2. CreditInv /\ [Next]_questVars => CreditInv'
  BY NextCreditInv
<1>3. CreditInv => OneApprovedProof /\ CreditsHaveSource /\ PointsCoverLedger
  BY OneApprovedCardinality DEF CreditInv
<1>4. QED
  BY <1>1, <1>2, <1>3, PTL DEF Spec

\* A credit step pays nobody who has completed the quest.
LEMMA CreditStepPaysTheUnpaid ==
  ASSUME TypeOK, CreditStep, NEW u \in Travelers, HasCompletedQuest(u)
  PROVE  demoPoints'[u] = demoPoints[u]
BY SettleRewardEffect DEF CreditStep, NoCredit, OneCredit

\* No step of any handler pays a traveler who counts as having completed the
\* quest.
THEOREM PaysOnlyTheUnpaid == Spec => NoRewardAfterCompletion
<1> DEFINE Unpaid == \A u \in Travelers :
                       HasCompletedQuest(u) => demoPoints'[u] = demoPoints[u]
<1>1. Init => CreditInv
  BY InitCredits
<1>2. CreditInv /\ [Next]_questVars => CreditInv'
  BY NextCreditInv
<1>3. CreditInv /\ [Next]_questVars => [Unpaid]_questVars
  BY NextCredits, CreditStepPaysTheUnpaid DEF CreditInv
<1>4. QED
  BY <1>1, <1>2, <1>3, PTL DEF Spec, NoRewardAfterCompletion

-----------------------------------------------------------------------------
(* Type correctness *)

\* The columns of the economy's tables, without those of QuestAttempts.
EconomyColumns ==
  /\ poolStatus \in {"draft", "active"}
  /\ available \in Int
  /\ reserved \in Int
  /\ paid \in Int
  /\ bound \subseteq Nat
  /\ rsv \in [Reservations -> ReservationRow]
  /\ timer \in [Reservations -> Int]
  /\ appeal \in [Reservations -> AppealRow]

LEMMA TypeParts == EconomyTypeOK <=> TypeOK /\ EconomyColumns
BY DEF EconomyTypeOK, EconomyColumns

\* Moving a reservation to another status keeps the columns of its row.
LEMMA RsvStatusType ==
  ASSUME EconomyColumns, NEW r \in Reservations,
         NEW status \in {"reserved", "submitted", "appeal", "paid", "released"},
         rsv' = [rsv EXCEPT ![r].status = status]
  PROVE  rsv' \in [Reservations -> ReservationRow]
<1>1. [rsv[r] EXCEPT !.status = status] \in ReservationRow
  BY DEF EconomyColumns, ReservationRow
<1>2. QED
  BY <1>1 DEF EconomyColumns

LEMMA RsvProofType ==
  ASSUME EconomyColumns, NEW r \in Reservations, NEW s \in Proofs,
         NEW status \in {"submitted", "appeal"},
         rsv' = [rsv EXCEPT ![r].status = status, ![r].proof = s]
  PROVE  rsv' \in [Reservations -> ReservationRow]
<1> DEFINE claimed == [rsv[r] EXCEPT !.status = status, !.proof = s]
<1>1. rsv \in [Reservations -> ReservationRow]
  BY DEF EconomyColumns
<1>2. claimed \in ReservationRow
  BY <1>1 DEF ReservationRow
<1>3. rsv' = [rsv EXCEPT ![r] = claimed]
  BY <1>1 DEF ReservationRow
<1>4. QED
  BY <1>1, <1>2, <1>3

LEMMA TimerType ==
  ASSUME EconomyColumns, NEW r \in Reservations, NEW ticks \in Int,
         timer' = [timer EXCEPT ![r] = ticks]
  PROVE  timer' \in [Reservations -> Int]
BY DEF EconomyColumns

LEMMA TimesAreInt == Past \in Int /\ ReservationTime \in Int /\ AppealTime \in Int
BY PoolPolicy DEF Past

LEMMA RewardIsInt == RewardMinor \in Int /\ AllocatedMinor \in Int
BY PoolPolicy

LEMMA PayReservationType ==
  ASSUME EconomyColumns, NEW r \in Reservations, PayReservation(r),
         UNCHANGED bound, appeal' \in [Reservations -> AppealRow]
  PROVE  EconomyColumns'
<1>1. rsv' \in [Reservations -> ReservationRow]
  BY RsvStatusType DEF PayReservation
<1>2. timer' \in [Reservations -> Int]
  BY TimerType, TimesAreInt DEF PayReservation
<1>3. QED
  BY <1>1, <1>2, RewardIsInt DEF PayReservation, EconomyColumns

LEMMA ReleaseReservationType ==
  ASSUME TypeOK, EconomyColumns, NEW r \in Reservations, ReleaseReservation(r),
         UNCHANGED <<version, proof, posting, reading, demoPoints, ledger, bound>>,
         appeal' \in [Reservations -> AppealRow]
  PROVE  TypeOK' /\ EconomyColumns'
<1>1. rsv' \in [Reservations -> ReservationRow]
  BY RsvStatusType DEF ReleaseReservation
<1>2. timer' \in [Reservations -> Int]
  BY TimerType, TimesAreInt DEF ReleaseReservation
<1>3. attempt' \in [Attempts -> AttemptRow]
  BY SetAttemptsType DEF ReleaseReservation
<1>4. TypeOK'
  BY <1>3 DEF TypeOK
<1>5. EconomyColumns'
  BY <1>1, <1>2, RewardIsInt DEF ReleaseReservation, EconomyColumns
<1>6. QED
  BY <1>4, <1>5

LEMMA SettleApprovedType ==
  ASSUME EconomyColumns, NEW s \in Proofs, SettleApproved(s),
         UNCHANGED bound, appeal' \in [Reservations -> AppealRow]
  PROVE  EconomyColumns'
<1>1. CASE UNCHANGED <<poolVars, rsv, timer>>
  BY <1>1 DEF EconomyColumns, poolVars
<1>2. CASE \E r \in Held(proof[s].user, ActiveStatuses) : PayReservation(r)
  <2>1. PICK r \in Reservations : PayReservation(r)
    BY <1>2 DEF Held, InStatus
  <2>2. QED
    BY <2>1, PayReservationType
<1>3. QED
  BY <1>1, <1>2 DEF SettleApproved

LEMMA DecideAppealType ==
  ASSUME EconomyColumns, NEW r \in Reservations, NEW a \in Reviewers,
         NEW status \in {"approved", "rejected"}, DecideAppeal(r, status, a)
  PROVE  appeal' \in [Reservations -> AppealRow]
<1> DEFINE decided == [appeal[r] EXCEPT !.status = status, !.decidedBy = a]
<1>1. appeal \in [Reservations -> AppealRow]
  BY DEF EconomyColumns
<1>2. decided \in AppealRow
  BY <1>1 DEF AppealRow
<1>3. appeal' = [appeal EXCEPT ![r] = decided]
  BY <1>1 DEF DecideAppeal, AppealRow
<1>4. QED
  BY <1>1, <1>2, <1>3

LEMMA ReserveType ==
  ASSUME TypeOK, EconomyColumns, NEW u \in Travelers, Reserve(u)
  PROVE  TypeOK' /\ EconomyColumns'
<1>1. PICK r \in NextId(rsv, Reservations), x \in Attempts :
        /\ AttemptToReserve(u, x)
        /\ rsv' = [rsv EXCEPT ![r] =
             [status |-> "reserved", user |-> u, attempt |-> x, proof |-> None,
              version |-> version]]
        /\ timer' = [timer EXCEPT ![r] = ReservationTime]
  BY DEF Reserve
<1>2. r \in Reservations
  BY <1>1, NextIdIsUninserted
<1>3. attempt' \in [Attempts -> AttemptRow]
  <2>1. UNCHANGED attempt \/ InsertAttempt(x, u)
    BY <1>1 DEF AttemptToReserve
  <2>2. QED
    BY <2>1, InsertAttemptType DEF TypeOK
<1>4. [status |-> "reserved", user |-> u, attempt |-> x, proof |-> None,
       version |-> version] \in ReservationRow
  BY DEF ReservationRow, TypeOK
<1>5. rsv' \in [Reservations -> ReservationRow]
  BY <1>1, <1>2, <1>4 DEF EconomyColumns
<1>6. timer' \in [Reservations -> Int]
  BY <1>1, <1>2, TimerType, TimesAreInt
<1>7. TypeOK'
  BY <1>3 DEF Reserve, TypeOK
<1>8. EconomyColumns'
  BY <1>5, <1>6, RewardIsInt DEF Reserve, EconomyColumns
<1>9. QED
  BY <1>7, <1>8

LEMMA PostFundedProofType ==
  ASSUME TypeOK, EconomyColumns, NEW u \in Travelers, PostFundedProof(u)
  PROVE  TypeOK' /\ EconomyColumns'
<1>1. PICK r \in Held(u, {"reserved"}) :
        /\ InsertProof(u, rsv[r].attempt)
        /\ \E s \in NextId(proof, Proofs) :
             rsv' = [rsv EXCEPT ![r].status = "submitted", ![r].proof = s]
        /\ SetAttempts({rsv[r].attempt}, "submitted")
        /\ timer' = [timer EXCEPT ![r] = Past]
  BY DEF PostFundedProof
<1>2. r \in Reservations
  BY <1>1 DEF Held, InStatus
<1>3. rsv[r].attempt \in Attempts \cup {None}
  BY <1>2 DEF EconomyColumns, ReservationRow
<1>4. proof' \in [Proofs -> ProofRow]
  BY <1>1, <1>3, InsertProofType
<1>5. attempt' \in [Attempts -> AttemptRow]
  BY <1>1, SetAttemptsType
<1>6. PICK s \in Proofs :
        rsv' = [rsv EXCEPT ![r].status = "submitted", ![r].proof = s]
  BY <1>1, NextIdIsUninserted
<1>7. rsv' \in [Reservations -> ReservationRow]
  BY <1>2, <1>6, RsvProofType
<1>8. timer' \in [Reservations -> Int]
  BY <1>1, <1>2, TimerType, TimesAreInt
<1>9. TypeOK'
  BY <1>4, <1>5 DEF PostFundedProof, Answer, TypeOK
<1>10. EconomyColumns'
  BY <1>7, <1>8 DEF PostFundedProof, EconomyColumns, poolVars
<1>11. QED
  BY <1>9, <1>10

LEMMA FundedReviewType ==
  ASSUME TypeOK, EconomyColumns, NEW s \in Proofs, NEW a \in Reviewers,
         ApproveFunded(s, a) \/ RejectFunded(s, a)
  PROVE  TypeOK' /\ EconomyColumns'
<1>1. CASE ApproveFunded(s, a)
  <2>1. TypeOK'
    BY <1>1, ProofReviewType DEF ApproveFunded, ApproveProof
  <2>2. EconomyColumns'
    BY <1>1, SettleApprovedType DEF ApproveFunded, EconomyColumns
  <2>3. QED
    BY <2>1, <2>2
<1>2. CASE RejectFunded(s, a)
  <2>1. TypeOK'
    BY <1>2, ProofReviewType DEF RejectFunded
  <2>2. CASE UNCHANGED <<rsv, timer>>
    BY <1>2, <2>1, <2>2 DEF RejectFunded, EconomyColumns, poolVars
  <2>3. CASE ~ UNCHANGED <<rsv, timer>>
    <3>1. PICK r \in Reservations :
            /\ rsv' = [rsv EXCEPT ![r].status = "appeal"]
            /\ timer' = [timer EXCEPT ![r] = AppealTime]
      BY <1>2, <2>3 DEF RejectFunded, HoldRejected, Held, InStatus
    <3>2. rsv' \in [Reservations -> ReservationRow]
      BY <3>1, RsvStatusType
    <3>3. timer' \in [Reservations -> Int]
      BY <3>1, TimerType, TimesAreInt
    <3>4. EconomyColumns'
      BY <1>2, <3>2, <3>3 DEF RejectFunded, EconomyColumns, poolVars
    <3>5. QED
      BY <2>1, <3>4
  <2>4. QED
    BY <2>1, <2>2, <2>3
<1>3. QED
  BY <1>1, <1>2

\* The CHECK of reward_reservations: a claim under review names its proof.
ClaimHasProof ==
  \A r \in InStatus({"submitted", "appeal"}) : rsv[r].proof \in Proofs

LEMMA SubmitAppealType ==
  ASSUME TypeOK, EconomyColumns, ClaimHasProof, NEW r \in Reservations,
         SubmitAppeal(r)
  PROVE  TypeOK' /\ EconomyColumns'
<1> DEFINE filed == [status |-> "submitted",
                     reviewer |-> proof[rsv[r].proof].reviewer,
                     decidedBy |-> None]
<1>1. rsv[r].proof \in Proofs
  BY DEF SubmitAppeal, ClaimHasProof, InStatus
<1>2. filed \in AppealRow
  BY <1>1 DEF TypeOK, ProofRow, AppealRow
<1>3. appeal' = [appeal EXCEPT ![r] = filed]
  BY DEF SubmitAppeal
<1>4. appeal' \in [Reservations -> AppealRow]
  BY <1>2, <1>3 DEF EconomyColumns
<1>5. EconomyColumns'
  BY <1>4 DEF SubmitAppeal, EconomyColumns, poolVars
<1>6. TypeOK'
  BY DEF SubmitAppeal, TypeOK, questVars
<1>7. QED
  BY <1>5, <1>6

LEMMA DenyAppealType ==
  ASSUME TypeOK, EconomyColumns, NEW r \in Reservations, NEW a \in Reviewers,
         DenyAppeal(r, a)
  PROVE  TypeOK' /\ EconomyColumns'
<1>1. appeal' \in [Reservations -> AppealRow]
  BY DecideAppealType DEF DenyAppeal
<1>2. QED
  BY <1>1, ReleaseReservationType DEF DenyAppeal

LEMMA ApproveAppealType ==
  ASSUME TypeOK, EconomyColumns, ClaimHasProof, NEW r \in Reservations,
         NEW a \in Reviewers, ApproveAppeal(r, a)
  PROVE  TypeOK' /\ EconomyColumns'
<1>1. appeal' \in [Reservations -> AppealRow]
  BY DecideAppealType DEF ApproveAppeal
<1>2. rsv[r].proof \in Proofs
  BY DEF ApproveAppeal, DecideAppeal, ClaimHasProof, InStatus
<1>3. TypeOK'
  BY <1>2, ProofReviewType DEF ApproveAppeal
<1>4. EconomyColumns'
  BY <1>1, <1>2, SettleApprovedType DEF ApproveAppeal
<1>5. QED
  BY <1>3, <1>4

LEMMA SweepType ==
  ASSUME TypeOK, EconomyColumns, NEW r \in Reservations, Sweep(r)
  PROVE  TypeOK' /\ EconomyColumns'
<1>1. CASE ReleaseReservation(r)
  BY <1>1, ReleaseReservationType DEF Sweep, EconomyColumns
<1>2. CASE ~ ReleaseReservation(r)
  <2>1. /\ UNCHANGED <<poolVars, attempt>>
        /\ \E s \in TimelyProofs(r) :
             LET rejected == proof[s].status = "rejected" IN
             /\ rsv' = [rsv EXCEPT
                  ![r].status = IF rejected THEN "appeal" ELSE "submitted",
                  ![r].proof = s]
             /\ timer' = [timer EXCEPT
                  ![r] = IF rejected THEN AppealTime ELSE Past]
    BY <1>2 DEF Sweep
  <2>2. PICK s \in Proofs, status \in {"submitted", "appeal"},
             ticks \in {AppealTime, Past} :
          /\ rsv' = [rsv EXCEPT ![r].status = status, ![r].proof = s]
          /\ timer' = [timer EXCEPT ![r] = ticks]
    BY <2>1 DEF TimelyProofs
  <2>3. rsv' \in [Reservations -> ReservationRow]
    BY <2>2, RsvProofType
  <2>4. timer' \in [Reservations -> Int]
    BY <2>2, TimerType, TimesAreInt
  <2>5. TypeOK'
    BY <2>1 DEF Sweep, TypeOK
  <2>6. EconomyColumns'
    BY <2>1, <2>3, <2>4 DEF Sweep, EconomyColumns, poolVars
  <2>7. QED
    BY <2>5, <2>6
<1>3. QED
  BY <1>1, <1>2

LEMMA TickType ==
  ASSUME TypeOK, EconomyColumns, Tick
  PROVE  TypeOK' /\ EconomyColumns'
<1>1. timer' \in [Reservations -> Int]
  BY DEF Tick, EconomyColumns
<1>2. EconomyColumns'
  BY <1>1 DEF Tick, EconomyColumns, poolVars
<1>3. TypeOK'
  BY DEF Tick, TypeOK, questVars
<1>4. QED
  BY <1>2, <1>3

LEMMA QuestStepType ==
  ASSUME TypeOK, EconomyColumns, QuestStep
  PROVE  TypeOK' /\ EconomyColumns'
<1>1. TypeOK'
  BY StartAttemptType, TravelerStepType, AttemptReviewType, ReviseQuestType
     DEF QuestStep
<1>2. EconomyColumns'
  BY DEF QuestStep, economyVars, EconomyColumns
<1>3. QED
  BY <1>1, <1>2

LEMMA PoolSetupType ==
  ASSUME TypeOK, EconomyColumns, BindRevision \/ ActivatePool
  PROVE  TypeOK' /\ EconomyColumns'
<1>1. TypeOK'
  BY DEF BindRevision, ActivatePool, questVars, TypeOK
<1>2. EconomyColumns'
  BY DEF BindRevision, ActivatePool, poolVars, EconomyColumns, TypeOK
<1>3. QED
  BY <1>1, <1>2

LEMMA CheckProofPathType ==
  ASSUME TypeOK, EconomyColumns, NEW u \in Travelers, CheckProofPath(u)
  PROVE  TypeOK' /\ EconomyColumns'
<1>1. TypeOK'
  <2>1. \E path \in {"unfunded", "funded"} : CheckProof(u, path)
    BY DEF CheckProofPath
  <2>2. QED
    BY <2>1, CheckProofType
<1>2. EconomyColumns'
  BY DEF CheckProofPath, economyVars, EconomyColumns
<1>3. QED
  BY <1>1, <1>2

LEMMA RNextType ==
  ASSUME TypeOK, EconomyColumns, ClaimHasProof, [RNext]_vars
  PROVE  TypeOK' /\ EconomyColumns'
<1>1. ASSUME NEW u \in Travelers,
             Reserve(u) \/ CheckProofPath(u) \/ PostFundedProof(u)
      PROVE  TypeOK' /\ EconomyColumns'
  BY <1>1, ReserveType, CheckProofPathType, PostFundedProofType
<1>2. ASSUME NEW r \in Reservations,
             \/ SubmitAppeal(r)
             \/ Sweep(r)
             \/ \E a \in Reviewers : DenyAppeal(r, a) \/ ApproveAppeal(r, a)
      PROVE  TypeOK' /\ EconomyColumns'
  BY <1>2, SubmitAppealType, SweepType, DenyAppealType, ApproveAppealType
<1>3. CASE UNCHANGED vars
  BY <1>3 DEF vars, TypeOK, EconomyColumns
<1>4. QED
  BY <1>1, <1>2, <1>3, QuestStepType, PoolSetupType, FundedReviewType, TickType
     DEF RNext

-----------------------------------------------------------------------------
(* What every step does to the claims and the pool's balances *)

ClaimStatuses == ActiveStatuses \cup {"paid"}

\* A new claim, for a traveler without one, of a revision that was reviewed.
Opens(r) ==
  /\ rsv[r].status = "none"
  /\ rsv'[r].status = "reserved"
  /\ rsv'[r].user \in Travelers
  /\ rsv'[r].version \in bound
  /\ Held(rsv'[r].user, ClaimStatuses) = {}
  /\ available >= RewardMinor
  /\ available' = available - RewardMinor
  /\ reserved' = reserved + RewardMinor
  /\ paid' = paid

\* An open claim keeps its traveler and terms and is open, paid or released
\* after the step.
Proceeds(r, statuses) ==
  /\ rsv[r].status \in ActiveStatuses
  /\ rsv'[r].status \in statuses
  /\ rsv'[r].user = rsv[r].user
  /\ rsv'[r].version = rsv[r].version

Moves(r) ==
  /\ Proceeds(r, {"submitted", "appeal"})
  /\ rsv'[r].proof \in Proofs
  /\ UNCHANGED <<available, reserved, paid>>

Pays(r) ==
  /\ Proceeds(r, {"paid"})
  /\ reserved' = reserved - RewardMinor
  /\ paid' = paid + RewardMinor
  /\ available' = available

Frees(r) ==
  /\ Proceeds(r, {"released"})
  /\ reserved' = reserved - RewardMinor
  /\ available' = available + RewardMinor
  /\ paid' = paid

NoClaim == UNCHANGED <<available, reserved, paid, rsv>>

OneClaim ==
  \E r \in Reservations :
    /\ \A q \in Reservations \ {r} : rsv'[q] = rsv[q]
    /\ Opens(r) \/ Moves(r) \/ Pays(r) \/ Frees(r)

ClaimStep == bound \subseteq bound' /\ (NoClaim \/ OneClaim)

LEMMA ReserveClaims ==
  ASSUME TypeOK, EconomyColumns, NEW u \in Travelers, Reserve(u)
  PROVE  ClaimStep
<1>1. PICK r \in NextId(rsv, Reservations), x \in Attempts :
        rsv' = [rsv EXCEPT ![r] =
             [status |-> "reserved", user |-> u, attempt |-> x, proof |-> None,
              version |-> version]]
  BY DEF Reserve
<1>2. r \in Reservations /\ rsv[r].status = "none"
  BY <1>1, NextIdIsUninserted
<1>3. \A q \in Reservations \ {r} : rsv'[q] = rsv[q]
  BY <1>1, <1>2 DEF EconomyColumns
<1>4. /\ rsv'[r].status = "reserved"
      /\ rsv'[r].user = u
      /\ rsv'[r].version = version
  BY <1>1, <1>2 DEF EconomyColumns
<1>5. Opens(r)
  BY <1>2, <1>4 DEF Reserve, MayReserve, Opens, ClaimStatuses
<1>6. QED
  BY <1>2, <1>3, <1>5 DEF Reserve, ClaimStep, OneClaim

LEMMA PostFundedProofClaims ==
  ASSUME TypeOK, EconomyColumns, NEW u \in Travelers, PostFundedProof(u)
  PROVE  ClaimStep
<1>1. PICK r \in Held(u, {"reserved"}) :
        \E s \in NextId(proof, Proofs) :
          rsv' = [rsv EXCEPT ![r].status = "submitted", ![r].proof = s]
  BY DEF PostFundedProof
<1>2. PICK s \in Proofs :
        rsv' = [rsv EXCEPT ![r].status = "submitted", ![r].proof = s]
  BY <1>1, NextIdIsUninserted
<1>3. r \in Reservations /\ rsv[r].status = "reserved"
  BY <1>1 DEF Held, InStatus
<1>4. \A q \in Reservations \ {r} : rsv'[q] = rsv[q]
  BY <1>2, <1>3 DEF EconomyColumns
<1>5. /\ rsv'[r].status = "submitted" /\ rsv'[r].proof = s
      /\ rsv'[r].user = rsv[r].user /\ rsv'[r].version = rsv[r].version
  BY <1>2, <1>3 DEF EconomyColumns, ReservationRow
<1>6. Moves(r)
  BY <1>3, <1>5 DEF PostFundedProof, poolVars, Moves, Proceeds, ActiveStatuses
<1>7. QED
  BY <1>3, <1>4, <1>6 DEF PostFundedProof, ClaimStep, OneClaim

LEMMA PayReservationClaims ==
  ASSUME EconomyColumns, NEW r \in InStatus(ActiveStatuses),
         PayReservation(r), UNCHANGED bound
  PROVE  ClaimStep
<1>1. r \in Reservations /\ rsv[r].status \in ActiveStatuses
  BY DEF InStatus
<1>2. \A q \in Reservations \ {r} : rsv'[q] = rsv[q]
  BY <1>1 DEF PayReservation, EconomyColumns
<1>3. /\ rsv'[r].status = "paid"
      /\ rsv'[r].user = rsv[r].user /\ rsv'[r].version = rsv[r].version
  BY <1>1 DEF PayReservation, EconomyColumns, ReservationRow
<1>4. Pays(r)
  BY <1>1, <1>3 DEF PayReservation, Pays, Proceeds
<1>5. QED
  BY <1>1, <1>2, <1>4 DEF ClaimStep, OneClaim

LEMMA ReleaseReservationClaims ==
  ASSUME EconomyColumns, NEW r \in InStatus(ActiveStatuses),
         ReleaseReservation(r), UNCHANGED bound
  PROVE  ClaimStep
<1>1. r \in Reservations /\ rsv[r].status \in ActiveStatuses
  BY DEF InStatus
<1>2. \A q \in Reservations \ {r} : rsv'[q] = rsv[q]
  BY <1>1 DEF ReleaseReservation, EconomyColumns
<1>3. /\ rsv'[r].status = "released"
      /\ rsv'[r].user = rsv[r].user /\ rsv'[r].version = rsv[r].version
  BY <1>1 DEF ReleaseReservation, EconomyColumns, ReservationRow
<1>4. Frees(r)
  BY <1>1, <1>3 DEF ReleaseReservation, Frees, Proceeds
<1>5. QED
  BY <1>1, <1>2, <1>4 DEF ClaimStep, OneClaim

LEMMA SettleApprovedClaims ==
  ASSUME EconomyColumns, NEW s \in Proofs, SettleApproved(s), UNCHANGED bound
  PROVE  ClaimStep
<1>1. CASE UNCHANGED <<poolVars, rsv, timer>>
  BY <1>1 DEF poolVars, ClaimStep, NoClaim
<1>2. CASE \E r \in Held(proof[s].user, ActiveStatuses) : PayReservation(r)
  BY <1>2, PayReservationClaims DEF Held
<1>3. QED
  BY <1>1, <1>2 DEF SettleApproved

LEMMA FundedReviewClaims ==
  ASSUME EconomyColumns, NEW s \in Proofs, NEW a \in Reviewers,
         ApproveFunded(s, a) \/ RejectFunded(s, a)
  PROVE  ClaimStep
<1>1. CASE ApproveFunded(s, a)
  BY <1>1, SettleApprovedClaims DEF ApproveFunded
<1>2. CASE RejectFunded(s, a)
  <2>1. UNCHANGED <<poolVars, bound>>
    BY <1>2 DEF RejectFunded
  <2>2. CASE UNCHANGED rsv
    BY <2>1, <2>2 DEF poolVars, ClaimStep, NoClaim
  <2>3. CASE ~ UNCHANGED rsv
    <3>1. PICK r \in Reservations :
            /\ rsv[r].status = "submitted"
            /\ rsv[r].proof = s
            /\ rsv' = [rsv EXCEPT ![r].status = "appeal"]
      BY <1>2, <2>3 DEF RejectFunded, HoldRejected, Held, InStatus
    <3>2. \A q \in Reservations \ {r} : rsv'[q] = rsv[q]
      BY <3>1 DEF EconomyColumns
    <3>3. /\ rsv'[r].status = "appeal" /\ rsv'[r].proof = s
          /\ rsv'[r].user = rsv[r].user /\ rsv'[r].version = rsv[r].version
      BY <3>1 DEF EconomyColumns, ReservationRow
    <3>4. Moves(r)
      BY <2>1, <3>1, <3>3 DEF poolVars, Moves, Proceeds, ActiveStatuses
    <3>5. QED
      BY <2>1, <3>2, <3>4 DEF ClaimStep, OneClaim
  <2>4. QED
    BY <2>2, <2>3
<1>3. QED
  BY <1>1, <1>2

LEMMA SweepClaims ==
  ASSUME EconomyColumns, NEW r \in Reservations, Sweep(r)
  PROVE  ClaimStep
<1>1. rsv[r].status \in {"reserved", "appeal"} /\ UNCHANGED bound
  BY DEF Sweep, Due
<1>2. CASE ReleaseReservation(r)
  BY <1>1, <1>2, ReleaseReservationClaims DEF InStatus, ActiveStatuses
<1>3. CASE ~ ReleaseReservation(r)
  <2>1. /\ UNCHANGED poolVars
        /\ \E s \in TimelyProofs(r) :
             rsv' = [rsv EXCEPT
               ![r].status = IF proof[s].status = "rejected" THEN "appeal"
                             ELSE "submitted",
               ![r].proof = s]
    BY <1>3 DEF Sweep
  <2>2. PICK s \in Proofs, status \in {"submitted", "appeal"} :
          rsv' = [rsv EXCEPT ![r].status = status, ![r].proof = s]
    BY <2>1 DEF TimelyProofs
  <2>3. \A q \in Reservations \ {r} : rsv'[q] = rsv[q]
    BY <2>2 DEF EconomyColumns
  <2>4. /\ rsv'[r].status = status /\ rsv'[r].proof = s
        /\ rsv'[r].user = rsv[r].user /\ rsv'[r].version = rsv[r].version
    BY <2>2 DEF EconomyColumns, ReservationRow
  <2>5. Moves(r)
    BY <1>1, <2>1, <2>4 DEF poolVars, Moves, Proceeds, ActiveStatuses
  <2>6. QED
    BY <1>1, <2>3, <2>5 DEF ClaimStep, OneClaim
<1>4. QED
  BY <1>2, <1>3

LEMMA AppealDecisionClaims ==
  ASSUME EconomyColumns, ClaimHasProof, NEW r \in Reservations,
         NEW a \in Reviewers, DenyAppeal(r, a) \/ ApproveAppeal(r, a)
  PROVE  ClaimStep
<1>1. r \in InStatus({"appeal"}) /\ UNCHANGED bound
  BY DEF DenyAppeal, ApproveAppeal, DecideAppeal, InStatus
<1>2. CASE DenyAppeal(r, a)
  BY <1>1, <1>2, ReleaseReservationClaims DEF DenyAppeal, InStatus, ActiveStatuses
<1>3. CASE ApproveAppeal(r, a)
  <2>1. rsv[r].proof \in Proofs
    BY <1>1 DEF ClaimHasProof, InStatus
  <2>2. QED
    BY <1>1, <1>3, <2>1, SettleApprovedClaims DEF ApproveAppeal
<1>4. QED
  BY <1>2, <1>3

\* Every step of the funded quest opens, moves, pays or frees at most one
\* claim, and moves exactly its amount.
LEMMA RNextClaims ==
  ASSUME TypeOK, EconomyColumns, ClaimHasProof, [RNext]_vars
  PROVE  ClaimStep
<1>1. CASE QuestStep \/ BindRevision \/ ActivatePool \/ Tick \/ UNCHANGED vars
  BY <1>1 DEF QuestStep, BindRevision, ActivatePool, Tick, vars, economyVars,
              poolVars, ClaimStep, NoClaim
<1>2. ASSUME NEW u \in Travelers,
             Reserve(u) \/ CheckProofPath(u) \/ PostFundedProof(u)
      PROVE  ClaimStep
  <2>1. CASE CheckProofPath(u)
    BY <2>1 DEF CheckProofPath, economyVars, ClaimStep, NoClaim
  <2>2. QED
    BY <1>2, <2>1, ReserveClaims, PostFundedProofClaims
<1>3. ASSUME NEW r \in Reservations,
             \/ SubmitAppeal(r)
             \/ Sweep(r)
             \/ \E a \in Reviewers : DenyAppeal(r, a) \/ ApproveAppeal(r, a)
      PROVE  ClaimStep
  <2>1. CASE SubmitAppeal(r)
    BY <2>1 DEF SubmitAppeal, poolVars, ClaimStep, NoClaim
  <2>2. QED
    BY <1>3, <2>1, SweepClaims, AppealDecisionClaims
<1>4. QED
  BY <1>1, <1>2, <1>3, FundedReviewClaims DEF RNext

-----------------------------------------------------------------------------
(* The claims a traveler has *)

\* Every claim is a traveler's, and a traveler has one at most.
ClaimsApart ==
  /\ \A r \in InStatus(ClaimStatuses) : rsv[r].user \in Travelers
  /\ \A q, r \in InStatus(ClaimStatuses) : rsv[q].user = rsv[r].user => q = r

LEMMA ClaimHasProofKept ==
  ASSUME ClaimHasProof, ClaimStep
  PROVE  ClaimHasProof'
BY DEF ClaimHasProof, ClaimStep, NoClaim, OneClaim, Opens, Moves, Pays, Frees,
       Proceeds, InStatus

LEMMA ClaimsApartKept ==
  ASSUME ClaimsApart, ClaimStep
  PROVE  ClaimsApart'
<1>1. CASE NoClaim
  BY <1>1 DEF NoClaim, ClaimsApart, InStatus
<1>2. CASE OneClaim
  <2>1. PICK r \in Reservations :
          /\ \A q \in Reservations \ {r} : rsv'[q] = rsv[q]
          /\ Opens(r) \/ Moves(r) \/ Pays(r) \/ Frees(r)
    BY <1>2 DEF OneClaim
  <2>2. CASE Opens(r)
    <3>1. \A q \in InStatus(ClaimStatuses) : rsv[q].user # rsv'[r].user
      BY <2>2 DEF Opens, Held
    <3>2. InStatus(ClaimStatuses)' \subseteq InStatus(ClaimStatuses) \cup {r}
      BY <2>1 DEF InStatus
    <3>3. r \notin InStatus(ClaimStatuses) /\ rsv'[r].user \in Travelers
      BY <2>2 DEF Opens, InStatus, ClaimStatuses, ActiveStatuses
    <3>4. \A q \in InStatus(ClaimStatuses) : rsv'[q] = rsv[q]
      BY <2>1, <3>3 DEF InStatus
    <3>5. QED
      BY <3>1, <3>2, <3>3, <3>4 DEF ClaimsApart
  <2>3. CASE Moves(r) \/ Pays(r) \/ Frees(r)
    <3>1. r \in InStatus(ClaimStatuses) /\ rsv'[r].user = rsv[r].user
      BY <2>3 DEF Moves, Pays, Frees, Proceeds, InStatus, ClaimStatuses
    <3>2. InStatus(ClaimStatuses)' \subseteq InStatus(ClaimStatuses)
      BY <2>1, <3>1 DEF InStatus
    <3>3. \A q \in InStatus(ClaimStatuses) : rsv'[q].user = rsv[q].user
      BY <2>1, <3>1 DEF InStatus
    <3>4. QED
      BY <3>2, <3>3 DEF ClaimsApart
  <2>4. QED
    BY <2>1, <2>2, <2>3
<1>3. QED
  BY <1>1, <1>2 DEF ClaimStep

\* A set with no two elements has at most one.
LEMMA AtMostOne ==
  ASSUME NEW S, \A x, y \in S : x = y
  PROVE  Cardinality(S) <= 1
<1>1. CASE S = {}
  BY <1>1, FS_EmptySet
<1>2. CASE S # {}
  <2>1. PICK x : S = {x}
    BY <1>2
  <2>2. Cardinality({x}) = 1
    BY FS_Singleton
  <2>3. QED
    BY <2>1, <2>2
<1>3. QED
  BY <1>1, <1>2

LEMMA OneClaimCardinality == ClaimsApart => OneClaimPerTraveler
<1> SUFFICES ASSUME ClaimsApart, NEW u \in Travelers
             PROVE  Cardinality(Held(u, ClaimStatuses)) <= 1
  BY DEF OneClaimPerTraveler, ClaimStatuses
<1>1. \A q, r \in Held(u, ClaimStatuses) : q = r
  BY DEF Held, ClaimsApart
<1>2. QED
  BY <1>1, AtMostOne

-----------------------------------------------------------------------------
(* The pool's balances *)

\* The claims of each kind before and after a step.
LEMMA ClaimSets ==
  ASSUME NEW r \in Reservations,
         \A q \in Reservations \ {r} : rsv'[q] = rsv[q]
  PROVE  LET open == InStatus(ActiveStatuses)
             done == InStatus({"paid"})
         IN
         /\ Opens(r) => r \notin open /\ open' = open \cup {r} /\ done' = done
         /\ Moves(r) => open' = open /\ done' = done
         /\ Pays(r) => /\ r \in open /\ open' = open \ {r}
                       /\ r \notin done /\ done' = done \cup {r}
         /\ Frees(r) => r \in open /\ open' = open \ {r} /\ done' = done
<1>1. /\ \A q \in Reservations \ {r} :
           q \in InStatus(ActiveStatuses)' <=> q \in InStatus(ActiveStatuses)
      /\ \A q \in Reservations \ {r} :
           q \in InStatus({"paid"})' <=> q \in InStatus({"paid"})
  BY DEF InStatus
<1>2. /\ InStatus(ActiveStatuses)' \subseteq Reservations
      /\ InStatus(ActiveStatuses) \subseteq Reservations
      /\ InStatus({"paid"})' \subseteq Reservations
      /\ InStatus({"paid"}) \subseteq Reservations
  BY DEF InStatus
<1>3. /\ r \in InStatus(ActiveStatuses) <=> rsv[r].status \in ActiveStatuses
      /\ r \in InStatus(ActiveStatuses)' <=> rsv'[r].status \in ActiveStatuses
      /\ r \in InStatus({"paid"}) <=> rsv[r].status = "paid"
      /\ r \in InStatus({"paid"})' <=> rsv'[r].status = "paid"
  BY DEF InStatus, ActiveStatuses
<1>4. Opens(r) => /\ r \notin InStatus(ActiveStatuses)
                  /\ r \in InStatus(ActiveStatuses)'
                  /\ r \notin InStatus({"paid"}) /\ r \notin InStatus({"paid"})'
  BY <1>3 DEF Opens, ActiveStatuses
<1>5. Moves(r) => /\ r \in InStatus(ActiveStatuses)
                  /\ r \in InStatus(ActiveStatuses)'
                  /\ r \notin InStatus({"paid"}) /\ r \notin InStatus({"paid"})'
  BY <1>3 DEF Moves, Proceeds, ActiveStatuses
<1>6. Pays(r) => /\ r \in InStatus(ActiveStatuses)
                 /\ r \notin InStatus(ActiveStatuses)'
                 /\ r \notin InStatus({"paid"}) /\ r \in InStatus({"paid"})'
  BY <1>3 DEF Pays, Proceeds, ActiveStatuses
<1>7. Frees(r) => /\ r \in InStatus(ActiveStatuses)
                  /\ r \notin InStatus(ActiveStatuses)'
                  /\ r \notin InStatus({"paid"}) /\ r \notin InStatus({"paid"})'
  BY <1>3 DEF Frees, Proceeds, ActiveStatuses
<1>8. QED
  BY <1>1, <1>2, <1>4, <1>5, <1>6, <1>7

LEMMA CountWithOneMore ==
  ASSUME NEW S, NEW r, IsFiniteSet(S), r \notin S
  PROVE  RewardMinor * Cardinality(S \cup {r})
           = RewardMinor * Cardinality(S) + RewardMinor
<1>1. Cardinality(S) \in Nat /\ Cardinality(S \cup {r}) = Cardinality(S) + 1
  BY FS_CardinalityType, FS_AddElement
<1>2. \A n \in Nat : RewardMinor * (n + 1) = RewardMinor * n + RewardMinor
  BY RewardIsInt
<1>3. QED
  BY <1>1, <1>2

LEMMA CountWithOneLess ==
  ASSUME NEW S, NEW r, IsFiniteSet(S), r \in S
  PROVE  RewardMinor * Cardinality(S \ {r})
           = RewardMinor * Cardinality(S) - RewardMinor
<1>1. Cardinality(S) \in Nat /\ Cardinality(S \ {r}) = Cardinality(S) - 1
  BY FS_CardinalityType, FS_RemoveElement
<1>2. \A n \in Nat : RewardMinor * (n - 1) = RewardMinor * n - RewardMinor
  BY RewardIsInt
<1>3. QED
  BY <1>1, <1>2

LEMMA PoolMatchesKept ==
  ASSUME EconomyColumns, PoolMatchesReservations, ClaimStep
  PROVE  PoolMatchesReservations'
<1> DEFINE open == InStatus(ActiveStatuses)
           done == InStatus({"paid"})
           Worth(S) == RewardMinor * Cardinality(S)
<1>1. IsFiniteSet(open) /\ IsFiniteSet(done)
  BY ReservationsAreFinite, FS_Subset DEF InStatus
<1>2. /\ reserved = Worth(open) /\ paid = Worth(done)
      /\ available + reserved + paid = AllocatedMinor /\ available >= 0
      /\ available \in Int /\ reserved \in Int /\ paid \in Int
  BY DEF PoolMatchesReservations, EconomyColumns
<1>3. RewardMinor \in Int /\ RewardMinor > 0 /\ AllocatedMinor \in Int
  BY PoolPolicy
<1>4. CASE NoClaim
  BY <1>2, <1>4 DEF NoClaim, PoolMatchesReservations, InStatus
<1>5. CASE OneClaim
  <2>1. PICK r \in Reservations :
          /\ \A q \in Reservations \ {r} : rsv'[q] = rsv[q]
          /\ Opens(r) \/ Moves(r) \/ Pays(r) \/ Frees(r)
    BY <1>5 DEF OneClaim
  <2>2. CASE Opens(r)
    <3>1. r \notin open /\ open' = open \cup {r} /\ done' = done
      BY <2>1, <2>2, ClaimSets
    <3>2. Worth(open') = Worth(open) + RewardMinor
      BY <1>1, <3>1, CountWithOneMore
    <3>3. /\ reserved' = Worth(open') /\ paid' = Worth(done')
          /\ available' + reserved' + paid' = AllocatedMinor /\ available' >= 0
      BY <1>2, <1>3, <2>2, <3>1, <3>2 DEF Opens
    <3>4. QED
      BY <3>3 DEF PoolMatchesReservations
  <2>3. CASE Moves(r)
    <3>1. open' = open /\ done' = done
      BY <2>1, <2>3, ClaimSets
    <3>2. QED
      BY <1>2, <2>3, <3>1 DEF Moves, PoolMatchesReservations
  <2>4. CASE Pays(r)
    <3>1. /\ r \in open /\ open' = open \ {r}
          /\ r \notin done /\ done' = done \cup {r}
      BY <2>1, <2>4, ClaimSets
    <3>2. Worth(open') = Worth(open) - RewardMinor
      BY <1>1, <3>1, CountWithOneLess
    <3>3. Worth(done') = Worth(done) + RewardMinor
      BY <1>1, <3>1, CountWithOneMore
    <3>4. /\ reserved' = Worth(open') /\ paid' = Worth(done')
          /\ available' + reserved' + paid' = AllocatedMinor /\ available' >= 0
      BY <1>2, <1>3, <2>4, <3>2, <3>3 DEF Pays
    <3>5. QED
      BY <3>4 DEF PoolMatchesReservations
  <2>5. CASE Frees(r)
    <3>1. r \in open /\ open' = open \ {r} /\ done' = done
      BY <2>1, <2>5, ClaimSets
    <3>2. Worth(open') = Worth(open) - RewardMinor
      BY <1>1, <3>1, CountWithOneLess
    <3>3. /\ reserved' = Worth(open') /\ paid' = Worth(done')
          /\ available' + reserved' + paid' = AllocatedMinor /\ available' >= 0
      BY <1>2, <1>3, <2>5, <3>1, <3>2 DEF Frees
    <3>4. QED
      BY <3>3 DEF PoolMatchesReservations
  <2>6. QED
    BY <2>1, <2>2, <2>3, <2>4, <2>5
<1>6. QED
  BY <1>4, <1>5 DEF ClaimStep

LEMMA ReviewedKept ==
  ASSUME ReservedRevisionReviewed, ClaimStep
  PROVE  ReservedRevisionReviewed'
BY DEF ReservedRevisionReviewed, ClaimStep, NoClaim, OneClaim, Opens, Moves,
       Pays, Frees, Proceeds, ActiveStatuses

\* The inductive invariant.
ClaimInv ==
  /\ TypeOK
  /\ EconomyColumns
  /\ ClaimHasProof
  /\ ClaimsApart
  /\ PoolMatchesReservations
  /\ ReservedRevisionReviewed

LEMMA InitClaims == RInit => ClaimInv
<1> SUFFICES ASSUME RInit PROVE ClaimInv
  OBVIOUS
<1>1. TypeOK
  BY InitType DEF RInit
<1>2. EconomyColumns
  BY RewardIsInt, TimesAreInt
     DEF RInit, EconomyInit, EconomyColumns, ReservationRow, AppealRow
<1>3. \A statuses : "none" \notin statuses => InStatus(statuses) = {}
  BY DEF RInit, EconomyInit, InStatus
<1>4. InStatus(ActiveStatuses) = {} /\ InStatus({"paid"}) = {}
  BY <1>3 DEF ActiveStatuses
<1>5. ClaimHasProof /\ ClaimsApart
  BY <1>3 DEF ClaimHasProof, ClaimsApart, ClaimStatuses, ActiveStatuses
<1>6. PoolMatchesReservations
  <2>1. RewardMinor * 0 = 0
    BY RewardIsInt
  <2>2. reserved = 0 /\ paid = 0 /\ available = AllocatedMinor
    BY DEF RInit, EconomyInit
  <2>3. AllocatedMinor \in Nat
    BY PoolPolicy
  <2>4. QED
    BY <1>4, <2>1, <2>2, <2>3, FS_EmptySet DEF PoolMatchesReservations
<1>7. ReservedRevisionReviewed
  BY DEF RInit, EconomyInit, ReservedRevisionReviewed
<1>8. QED
  BY <1>1, <1>2, <1>5, <1>6, <1>7 DEF ClaimInv

LEMMA RNextClaimInv ==
  ASSUME ClaimInv, [RNext]_vars
  PROVE  ClaimInv'
<1>1. TypeOK' /\ EconomyColumns' /\ ClaimStep
  BY RNextType, RNextClaims DEF ClaimInv
<1>2. QED
  BY <1>1, ClaimHasProofKept, ClaimsApartKept, PoolMatchesKept, ReviewedKept
     DEF ClaimInv

\* Every table of the economy keeps the form its columns allow, for every
\* number of travelers, reviewers and rows and every pool policy.
THEOREM EconomyTypeCorrect == RSpec => []EconomyTypeOK
<1>1. RInit => ClaimInv
  BY InitClaims
<1>2. ClaimInv /\ [RNext]_vars => ClaimInv'
  BY RNextClaimInv
<1>3. ClaimInv => EconomyTypeOK
  BY TypeParts DEF ClaimInv
<1>4. QED
  BY <1>1, <1>2, <1>3, PTL DEF RSpec

\* The pool's balances are the reservations they stand for and the pool is
\* never overdrawn, however many travelers compete for it; no traveler has two
\* claims; and every claim is of a revision that was reviewed.
THEOREM PoolCorrect ==
  RSpec => [](/\ PoolMatchesReservations
              /\ OneClaimPerTraveler
              /\ ReservedRevisionReviewed)
<1>1. RInit => ClaimInv
  BY InitClaims
<1>2. ClaimInv /\ [RNext]_vars => ClaimInv'
  BY RNextClaimInv
<1>3. ClaimInv => /\ PoolMatchesReservations
                  /\ OneClaimPerTraveler
                  /\ ReservedRevisionReviewed
  BY OneClaimCardinality DEF ClaimInv
<1>4. QED
  BY <1>1, <1>2, <1>3, PTL DEF RSpec

-----------------------------------------------------------------------------
(* The pool implements the escrow it promises *)

Holding == {rsv[r].user : r \in InStatus(ActiveStatuses)}

Settled == {rsv[r].user : r \in InStatus({"paid"})}

LEMMA EscrowInit == RInit => Escrow!Init
BY DEF RInit, EconomyInit, InStatus, ActiveStatuses, Escrow!Init

LEMMA OpensHolds ==
  ASSUME NEW r \in Reservations, Opens(r),
         \A q \in Reservations \ {r} : rsv'[q] = rsv[q]
  PROVE  Escrow!Next
<1> DEFINE c == rsv'[r].user
<1>1. /\ r \notin InStatus(ActiveStatuses)
      /\ InStatus(ActiveStatuses)' = InStatus(ActiveStatuses) \cup {r}
      /\ InStatus({"paid"})' = InStatus({"paid"})
  BY ClaimSets
<1>2. \A q \in InStatus(ActiveStatuses) \cup InStatus({"paid"}) :
        rsv'[q].user = rsv[q].user
  BY DEF InStatus, Opens, ActiveStatuses
<1>3. Holding' = Holding \cup {c} /\ Settled' = Settled
  BY <1>1, <1>2 DEF Holding, Settled
<1>4. c \in Travelers /\ c \notin Holding \cup Settled
  BY DEF Opens, Held, InStatus, ClaimStatuses, Holding, Settled
<1>5. Escrow!Hold(c)
  BY <1>3, <1>4 DEF Escrow!Hold, Opens, Holding, Settled
<1>6. QED
  BY <1>4, <1>5 DEF Escrow!Next, Escrow!Hold

LEMMA EndsSettles ==
  ASSUME ClaimsApart, NEW r \in Reservations, Pays(r) \/ Frees(r),
         \A q \in Reservations \ {r} : rsv'[q] = rsv[q]
  PROVE  Escrow!Next
<1> DEFINE c == rsv[r].user
<1>1. r \in InStatus(ActiveStatuses) /\ rsv'[r].user = c
  BY ClaimSets DEF Pays, Frees, Proceeds
<1>2. c \in Travelers /\ c \in Holding
  BY <1>1 DEF ClaimsApart, InStatus, ClaimStatuses, Holding
<1>3. \A q \in InStatus(ActiveStatuses) : rsv[q].user = c => q = r
  BY <1>1 DEF ClaimsApart, InStatus, ClaimStatuses
<1>4. InStatus(ActiveStatuses)' = InStatus(ActiveStatuses) \ {r}
  BY ClaimSets
<1>5. Holding' = Holding \ {c}
  <2>1. \A q \in InStatus(ActiveStatuses) \ {r} : rsv'[q].user = rsv[q].user
    BY DEF InStatus
  <2>2. Holding' = {rsv[q].user : q \in InStatus(ActiveStatuses) \ {r}}
    BY <1>4, <2>1 DEF Holding
  <2>3. QED
    BY <1>1, <1>3, <2>2 DEF Holding
<1>6. CASE Pays(r)
  <2>1. InStatus({"paid"})' = InStatus({"paid"}) \cup {r}
          /\ r \notin InStatus({"paid"})
    BY <1>6, ClaimSets
  <2>2. \A q \in InStatus({"paid"}) : rsv'[q].user = rsv[q].user
    BY <2>1 DEF InStatus
  <2>3. Settled' = Settled \cup {c}
    BY <1>1, <2>1, <2>2 DEF Settled
  <2>4. Escrow!Pay(c)
    BY <1>2, <1>5, <1>6, <2>3 DEF Escrow!Pay, Pays, Holding, Settled
  <2>5. QED
    BY <1>2, <2>4 DEF Escrow!Next, Escrow!Pay
<1>7. CASE Frees(r)
  <2>1. InStatus({"paid"})' = InStatus({"paid"})
    BY <1>7, ClaimSets
  <2>2. \A q \in InStatus({"paid"}) : rsv'[q].user = rsv[q].user
    BY <1>1 DEF InStatus, ActiveStatuses
  <2>3. Settled' = Settled
    BY <2>1, <2>2 DEF Settled
  <2>4. Escrow!Return(c)
    BY <1>2, <1>5, <1>7, <2>3 DEF Escrow!Return, Frees, Holding, Settled
  <2>5. QED
    BY <1>2, <2>4 DEF Escrow!Next, Escrow!Return
<1>8. QED
  BY <1>6, <1>7

LEMMA MovesStutters ==
  ASSUME NEW r \in Reservations, Moves(r),
         \A q \in Reservations \ {r} : rsv'[q] = rsv[q]
  PROVE  UNCHANGED Escrow!escrowVars
<1>1. /\ InStatus(ActiveStatuses)' = InStatus(ActiveStatuses)
      /\ InStatus({"paid"})' = InStatus({"paid"})
  BY ClaimSets
<1>2. \A q \in Reservations : rsv'[q].user = rsv[q].user
  BY DEF Moves, Proceeds
<1>3. InStatus(ActiveStatuses) \subseteq Reservations
        /\ InStatus({"paid"}) \subseteq Reservations
  BY DEF InStatus
<1>4. Holding' = Holding /\ Settled' = Settled
  BY <1>1, <1>2, <1>3 DEF Holding, Settled
<1>5. QED
  BY <1>4 DEF Moves, Holding, Settled, Escrow!escrowVars

\* Every step of the funded quest is a step of the escrow or leaves it alone.
LEMMA ClaimStepImplements ==
  ASSUME ClaimsApart, ClaimStep
  PROVE  [Escrow!Next]_Escrow!escrowVars
<1>1. CASE NoClaim
  BY <1>1 DEF NoClaim, Escrow!escrowVars, InStatus
<1>2. CASE OneClaim
  BY <1>2, OpensHolds, EndsSettles, MovesStutters DEF OneClaim
<1>3. QED
  BY <1>1, <1>2 DEF ClaimStep

\* The funded quest, with its attempts, proofs, appeals and deadlines, keeps
\* the promise of RewardEscrow: an amount set aside for a traveler is paid to
\* that traveler once or returned to the pool.
THEOREM ImplementsEscrow == RSpec => EscrowSpec
<1>1. RInit => Escrow!Init
  BY EscrowInit
<1>2. RInit => ClaimInv
  BY InitClaims
<1>3. ClaimInv /\ [RNext]_vars => ClaimInv'
  BY RNextClaimInv
<1>4. ClaimInv /\ [RNext]_vars => [Escrow!Next]_Escrow!escrowVars
  BY RNextClaims, ClaimStepImplements DEF ClaimInv
<1>5. QED
  BY <1>1, <1>2, <1>3, <1>4, PTL DEF RSpec, EscrowSpec, Escrow!Spec

-----------------------------------------------------------------------------
(* The credits, when the funded handlers run beside the unfunded ones *)

LEMMA ReserveCredits ==
  ASSUME TypeOK, NEW u \in Travelers, Reserve(u)
  PROVE  CreditStep
<1>1. PICK x \in Attempts : AttemptToReserve(u, x)
  BY DEF Reserve
<1>2. \A y \in Attempts : attempt[y].status # "none" =>
        attempt'[y].status # "none" /\ attempt'[y].user = attempt[y].user
  BY <1>1, InsertAttemptKeepsRows DEF AttemptToReserve
<1>3. QED
  BY <1>2 DEF Reserve, CreditStep, RowsKept, NoCredit, ApprovedProofs

LEMMA PostFundedProofCredits ==
  ASSUME TypeOK, NEW u \in Travelers, PostFundedProof(u)
  PROVE  CreditStep
<1>1. PICK x : InsertProof(u, x) /\ SetAttempts({x}, "submitted")
  BY DEF PostFundedProof
<1>2. RowsKept /\ ApprovedProofs' = ApprovedProofs
  BY <1>1, InsertProofKeepsRows, SetAttemptsKeepsRows DEF RowsKept
<1>3. QED
  BY <1>2 DEF PostFundedProof, CreditStep, NoCredit

LEMMA ReleaseReservationCredits ==
  ASSUME TypeOK, NEW r, ReleaseReservation(r),
         UNCHANGED <<proof, demoPoints, ledger>>
  PROVE  CreditStep
<1>1. \A y \in Attempts : attempt[y].status # "none" =>
        attempt'[y].status # "none" /\ attempt'[y].user = attempt[y].user
  BY SetAttemptsKeepsRows DEF ReleaseReservation
<1>2. QED
  BY <1>1 DEF CreditStep, RowsKept, NoCredit, ApprovedProofs

LEMMA UnchangedCredits ==
  ASSUME UNCHANGED <<attempt, proof, demoPoints, ledger>>
  PROVE  CreditStep
BY DEF CreditStep, RowsKept, NoCredit, ApprovedProofs

LEMMA AppealCredits ==
  ASSUME TypeOK, ClaimHasProof, NEW r \in Reservations,
         \/ SubmitAppeal(r)
         \/ Sweep(r)
         \/ \E a \in Reviewers : DenyAppeal(r, a) \/ ApproveAppeal(r, a)
  PROVE  CreditStep
<1>1. CASE SubmitAppeal(r)
  BY <1>1, UnchangedCredits DEF SubmitAppeal, questVars
<1>2. CASE Sweep(r)
  <2>1. UNCHANGED <<proof, demoPoints, ledger>>
    BY <1>2 DEF Sweep
  <2>2. CASE ReleaseReservation(r)
    BY <2>1, <2>2, ReleaseReservationCredits
  <2>3. CASE UNCHANGED attempt
    BY <2>1, <2>3, UnchangedCredits
  <2>4. QED
    BY <1>2, <2>2, <2>3 DEF Sweep
<1>3. ASSUME NEW a \in Reviewers, DenyAppeal(r, a) \/ ApproveAppeal(r, a)
      PROVE  CreditStep
  <2>1. CASE DenyAppeal(r, a)
    BY <2>1, ReleaseReservationCredits DEF DenyAppeal
  <2>2. CASE ApproveAppeal(r, a)
    <3>1. rsv[r].proof \in Proofs
      BY <2>2 DEF ApproveAppeal, DecideAppeal, ClaimHasProof, InStatus
    <3>2. QED
      BY <2>2, <3>1, ProofReviewCredits DEF ApproveAppeal
  <2>3. QED
    BY <1>3, <2>1, <2>2
<1>4. QED
  BY <1>1, <1>2, <1>3

LEMMA QuestStepCredits ==
  ASSUME TypeOK, ReadingIsOwn, QuestStep
  PROVE  CreditStep
<1>1. CASE ReviseQuest
  BY <1>1, UnchangedCredits DEF ReviseQuest
<1>2. QED
  BY <1>1, StartAttemptCredits, TravelerStepCredits, AttemptReviewCredits
     DEF QuestStep

\* Every step of the funded quest is at most one payment too.
LEMMA RNextCredits ==
  ASSUME TypeOK, ReadingIsOwn, ClaimHasProof, [RNext]_vars
  PROVE  CreditStep
<1>1. CASE BindRevision \/ ActivatePool \/ Tick \/ UNCHANGED vars
  BY <1>1, UnchangedCredits
     DEF BindRevision, ActivatePool, Tick, vars, questVars
<1>2. ASSUME NEW u \in Travelers,
             Reserve(u) \/ CheckProofPath(u) \/ PostFundedProof(u)
      PROVE  CreditStep
  <2>1. CASE CheckProofPath(u)
    BY <2>1, UnchangedCredits DEF CheckProofPath, CheckProof
  <2>2. QED
    BY <1>2, <2>1, ReserveCredits, PostFundedProofCredits
<1>3. ASSUME NEW s \in Proofs, NEW a \in Reviewers,
             ApproveFunded(s, a) \/ RejectFunded(s, a)
      PROVE  CreditStep
  BY <1>3, ProofReviewCredits DEF ApproveFunded, RejectFunded, ApproveProof
<1>4. QED
  BY <1>1, <1>2, <1>3, QuestStepCredits, AppealCredits DEF RNext

LEMMA RNextReadsOwn ==
  ASSUME TypeOK, ReadingIsOwn, ClaimHasProof, [RNext]_vars
  PROVE  ReadingIsOwn'
<1>1. RowsKept
  BY RNextCredits DEF CreditStep
<1>2. CASE \E u \in Travelers : TravelerStep(u)
  BY <1>2, TravelerStepOwn
<1>3. CASE UNCHANGED reading
  BY <1>1, <1>3, ReadingStaysOwn
<1>4. ASSUME QuestStep PROVE ReadingIsOwn'
  <2>1. UNCHANGED reading \/ \E u \in Travelers : TravelerStep(u)
    BY <1>4 DEF QuestStep, StartAttempt, AttemptReview, ApproveAttempt,
                RequestChanges, RejectAttempt, ReviseQuest
  <2>2. QED
    BY <1>2, <1>3, <2>1
<1>5. ASSUME NEW u \in Travelers,
             Reserve(u) \/ CheckProofPath(u) \/ PostFundedProof(u)
      PROVE  UNCHANGED reading
  BY <1>5 DEF Reserve, CheckProofPath, CheckProof, PostFundedProof
<1>6. ASSUME NEW s \in Proofs, NEW a \in Reviewers,
             ApproveFunded(s, a) \/ RejectFunded(s, a)
      PROVE  UNCHANGED reading
  BY <1>6 DEF ApproveFunded, ApproveProof, ApproveProofFrom, RejectFunded,
              RejectProof
<1>7. ASSUME NEW r \in Reservations,
             \/ SubmitAppeal(r)
             \/ Sweep(r)
             \/ \E a \in Reviewers : DenyAppeal(r, a) \/ ApproveAppeal(r, a)
      PROVE  UNCHANGED reading
  BY <1>7 DEF SubmitAppeal, Sweep, DenyAppeal, ApproveAppeal, ApproveProofFrom,
              questVars
<1>8. ASSUME BindRevision \/ ActivatePool \/ Tick \/ UNCHANGED vars
      PROVE  UNCHANGED reading
  BY <1>8 DEF BindRevision, ActivatePool, Tick, vars, questVars
<1>9. QED
  BY <1>3, <1>4, <1>5, <1>6, <1>7, <1>8 DEF RNext

LEMMA RNextCreditInv ==
  ASSUME ClaimInv, CreditInv, [RNext]_vars
  PROVE  CreditInv'
<1>1. TypeOK' /\ ReadingIsOwn' /\ CreditStep
  BY RNextType, RNextReadsOwn, RNextCredits DEF ClaimInv, CreditInv
<1>2. OneApproved' /\ CreditsHaveSource' /\ PointsCoverLedger'
  BY <1>1, OneApprovedKept, SourcesKept, PointsCovered DEF CreditInv
<1>3. QED
  BY <1>1, <1>2 DEF CreditInv

\* With a reward pool too, a traveler has one approved proof at most, and the
\* ledger and the points agree with the rows that were rewarded.
THEOREM FundedCreditsCorrect ==
  RSpec => [](OneApprovedProof /\ CreditsHaveSource /\ PointsCoverLedger)
<1>1. RInit => ClaimInv /\ CreditInv
  BY InitClaims, InitCredits DEF RInit
<1>2. ClaimInv /\ CreditInv /\ [RNext]_vars => ClaimInv' /\ CreditInv'
  BY RNextClaimInv, RNextCreditInv
<1>3. CreditInv => OneApprovedProof /\ CreditsHaveSource /\ PointsCoverLedger
  BY OneApprovedCardinality DEF CreditInv
<1>4. QED
  BY <1>1, <1>2, <1>3, PTL DEF RSpec

\* With a reward pool too, no step pays a traveler who has completed the
\* quest: not a late appeal, and not an approval that lost a race.
THEOREM FundedPaysOnlyTheUnpaid == RSpec => NoRewardAfterCompletion
<1> DEFINE Unpaid == \A u \in Travelers :
                       HasCompletedQuest(u) => demoPoints'[u] = demoPoints[u]
<1>1. RInit => ClaimInv /\ CreditInv
  BY InitClaims, InitCredits DEF RInit
<1>2. ClaimInv /\ CreditInv /\ [RNext]_vars => ClaimInv' /\ CreditInv'
  BY RNextClaimInv, RNextCreditInv
<1>3. ClaimInv /\ CreditInv /\ [RNext]_vars => [Unpaid]_questVars
  BY RNextCredits, CreditStepPaysTheUnpaid DEF ClaimInv, CreditInv
<1>4. QED
  BY <1>1, <1>2, <1>3, PTL DEF RSpec, NoRewardAfterCompletion

-----------------------------------------------------------------------------
(* A claim, its attempt, its proof and its appeal agree.  ClaimAndProofAgree
   is not inductive by itself: that a reserved claim has no proof rests on
   every attempt being bound to one claim only, and on every funded proof
   being named by a claim. *)

Inserted == {r \in Reservations : rsv[r].status # "none"}

\* The attempt of a claim exists and is no other claim's.
AttemptsBound ==
  /\ \A r \in Inserted : /\ rsv[r].attempt \in Attempts
                         /\ attempt[rsv[r].attempt].status # "none"
  /\ \A q, r \in Inserted : rsv[q].attempt = rsv[r].attempt => q = r
  /\ \A r \in Reservations \ Inserted : rsv[r].attempt = None

\* The proof a claim names exists and was posted for the claim's attempt.
ProofsNamed ==
  \A r \in Inserted : rsv[r].proof # None =>
    LET s == rsv[r].proof IN
    /\ s \in Proofs
    /\ proof[s].status # "none"
    /\ proof[s].user = rsv[r].user
    /\ proof[s].attempt = rsv[r].attempt

\* The status of a claim tells the status of its proof.
StatusesAgree ==
  \A r \in Inserted :
    LET s == rsv[r].proof IN
    /\ rsv[r].status = "reserved" => s = None
    /\ rsv[r].status = "submitted" => s # None /\ proof[s].status = "pending"
    /\ rsv[r].status = "appeal" => s # None /\ proof[s].status = "rejected"
    /\ rsv[r].status = "paid" => s # None /\ proof[s].status = "approved"
    /\ rsv[r].status = "released" /\ s # None => proof[s].status = "rejected"

\* A proof posted for a claim's attempt is named by a claim.
FundedProofsClaimed ==
  \A s \in Proofs : proof[s].status # "none" /\ proof[s].attempt # None =>
    \E r \in Inserted : rsv[r].proof = s

Agreement ==
  AttemptsBound /\ ProofsNamed /\ StatusesAgree /\ FundedProofsClaimed

\* Two claims never name the same proof.
LEMMA ProofOfOneClaim ==
  ASSUME Agreement, NEW q \in Inserted, NEW r \in Inserted,
         rsv[q].proof = rsv[r].proof, rsv[q].proof # None
  PROVE  q = r
BY DEF Agreement, AttemptsBound, ProofsNamed

LEMMA AgreementImplies == EconomyColumns /\ Agreement => ClaimAndProofAgree
<1> SUFFICES ASSUME EconomyColumns, Agreement PROVE ClaimAndProofAgree
  OBVIOUS
<1>1. ASSUME NEW r \in Reservations, rsv[r].status = "reserved"
      PROVE  TimelyProofs(r) = {}
  <2> SUFFICES ASSUME NEW s \in TimelyProofs(r) PROVE FALSE
    OBVIOUS
  <2>1. r \in Inserted /\ rsv[r].attempt \in Attempts /\ rsv[r].proof = None
    BY <1>1 DEF Inserted, Agreement, AttemptsBound, StatusesAgree
  <2>2. s \in Proofs /\ proof[s].status # "none"
          /\ proof[s].attempt = rsv[r].attempt
    BY DEF TimelyProofs
  <2>3. proof[s].attempt # None /\ s # None
    BY <2>1, <2>2, NoneIsNoRow
  <2>4. PICK q \in Inserted : rsv[q].proof = s
    BY <2>2, <2>3 DEF Agreement, FundedProofsClaimed
  <2>5. rsv[q].attempt = rsv[r].attempt
    BY <2>2, <2>3, <2>4 DEF Agreement, ProofsNamed
  <2>6. q = r
    BY <2>1, <2>5 DEF Agreement, AttemptsBound
  <2>7. QED
    BY <2>1, <2>3, <2>4, <2>6
<1>2. ASSUME NEW r \in Reservations,
             rsv[r].status \in {"submitted", "appeal", "paid"}
      PROVE  LET s == rsv[r].proof IN
             /\ s # None
             /\ proof[s].user = rsv[r].user
             /\ proof[s].attempt = rsv[r].attempt
             /\ proof[s].status = CASE rsv[r].status = "submitted" -> "pending"
                                    [] rsv[r].status = "appeal" -> "rejected"
                                    [] rsv[r].status = "paid" -> "approved"
  <2>1. r \in Inserted
    BY <1>2 DEF Inserted
  <2>2. QED
    BY <1>2, <2>1 DEF Agreement, StatusesAgree, ProofsNamed
<1>3. ASSUME NEW s \in Proofs, proof[s].status = "pending",
             proof[s].attempt # None
      PROVE  \E r \in InStatus({"submitted"}) : rsv[r].proof = s
  <2>1. PICK r \in Inserted : rsv[r].proof = s
    BY <1>3 DEF Agreement, FundedProofsClaimed
  <2>2. s # None
    BY NoneIsNoRow
  <2>3. rsv[r].status \in {"none", "reserved", "submitted", "appeal", "paid",
                           "released"}
    BY DEF EconomyColumns, ReservationRow, Inserted
  <2>4. rsv[r].status = "submitted"
    BY <1>3, <2>1, <2>2, <2>3 DEF Agreement, StatusesAgree, Inserted
  <2>5. QED
    BY <2>1, <2>4 DEF InStatus, Inserted
<1>4. QED
  BY <1>1, <1>2, <1>3 DEF ClaimAndProofAgree

-----------------------------------------------------------------------------
(* The steps, seen from the claims and the proofs *)

RsvOthersKept(r) == \A q \in Reservations \ {r} : rsv'[q] = rsv[q]
ProofOthersKept(s) == \A t \in Proofs \ {s} : proof'[t] = proof[t]

\* Attempts move, claims and proofs do not.
AttemptsOnly == UNCHANGED <<rsv, proof>>

\* A claim is opened on an attempt no claim has.
OpensOn(r, x) ==
  /\ r \notin Inserted
  /\ RsvOthersKept(r)
  /\ rsv'[r].status = "reserved" /\ rsv'[r].attempt = x /\ rsv'[r].proof = None
  /\ x \in Attempts /\ attempt'[x].status # "none"
  /\ \A q \in Inserted : rsv[q].attempt # x
  /\ UNCHANGED proof

\* A proof is posted beside the claims, or for one.
PostsBeside(s) ==
  /\ proof[s].status = "none"
  /\ ProofOthersKept(s)
  /\ proof'[s].status = "pending" /\ proof'[s].attempt = None
  /\ UNCHANGED rsv

PostsFor(s, r) ==
  /\ proof[s].status = "none"
  /\ ProofOthersKept(s)
  /\ proof'[s].status = "pending" /\ proof'[s].attempt = rsv[r].attempt
  /\ proof'[s].user = rsv[r].user
  /\ rsv[r].status = "reserved"
  /\ RsvOthersKept(r)
  /\ rsv'[r] = [rsv[r] EXCEPT !.status = "submitted", !.proof = s]

\* A proof is decided, and the claim that names it, if any, with it.
Decides(s, decision, claimStatus) ==
  /\ proof[s].status \in {"pending", "rejected"}
  /\ ProofOthersKept(s)
  /\ proof'[s].status = decision
  /\ proof'[s].attempt = proof[s].attempt /\ proof'[s].user = proof[s].user
  /\ \A r \in Reservations :
       rsv'[r] = IF r \in Inserted /\ rsv[r].proof = s
                 THEN [rsv[r] EXCEPT !.status = claimStatus] ELSE rsv[r]

\* A claim without a proof or with a rejected one is released.
Drops(r) ==
  /\ rsv[r].status \in {"reserved", "appeal"}
  /\ RsvOthersKept(r)
  /\ rsv'[r] = [rsv[r] EXCEPT !.status = "released"]
  /\ UNCHANGED proof

AgreementStep ==
  /\ RowsKept
  /\ \/ AttemptsOnly
     \/ \E r \in Reservations, x \in Attempts : OpensOn(r, x)
     \/ \E s \in Proofs : PostsBeside(s)
     \/ \E s \in Proofs, r \in Reservations : PostsFor(s, r)
     \/ \E s \in Proofs : \/ Decides(s, "approved", "paid")
                          \/ Decides(s, "rejected", "appeal")
     \/ \E r \in Reservations : Drops(r)

-----------------------------------------------------------------------------
(* Every such step keeps the agreement *)

LEMMA InsertedAreRows == Inserted \subseteq Reservations
BY DEF Inserted

LEMMA ClaimUpdated ==
  ASSUME EconomyColumns, NEW r \in Reservations, NEW status,
         rsv'[r] = [rsv[r] EXCEPT !.status = status]
  PROVE  /\ rsv'[r].status = status
         /\ rsv'[r].attempt = rsv[r].attempt
         /\ rsv'[r].user = rsv[r].user
         /\ rsv'[r].proof = rsv[r].proof
BY DEF EconomyColumns, ReservationRow

LEMMA AttemptsOnlyAgrees ==
  ASSUME Agreement, RowsKept, AttemptsOnly
  PROVE  Agreement'
<1>1. AttemptsBound'
  BY DEF Agreement, AttemptsBound, AttemptsOnly, Inserted, RowsKept
<1>2. ProofsNamed' /\ StatusesAgree' /\ FundedProofsClaimed'
  BY DEF Agreement, ProofsNamed, StatusesAgree, FundedProofsClaimed,
         AttemptsOnly, Inserted
<1>3. QED
  BY <1>1, <1>2 DEF Agreement

LEMMA OpensOnAgrees ==
  ASSUME Agreement, RowsKept, NEW r \in Reservations, NEW x \in Attempts,
         OpensOn(r, x)
  PROVE  Agreement'
<1>1. Inserted' = Inserted \cup {r}
  BY DEF OpensOn, RsvOthersKept, Inserted
<1>2. \A q \in Inserted : rsv'[q] = rsv[q] /\ q # r
  BY DEF OpensOn, RsvOthersKept, Inserted
<1>3. AttemptsBound'
  <2>1. \A q \in Inserted : /\ rsv'[q].attempt \in Attempts
                            /\ attempt'[rsv'[q].attempt].status # "none"
    BY <1>2 DEF Agreement, AttemptsBound, RowsKept
  <2>2. \A p, q \in Inserted' : rsv'[p].attempt = rsv'[q].attempt => p = q
    BY <1>1, <1>2 DEF Agreement, AttemptsBound, OpensOn
  <2>3. \A q \in Reservations \ Inserted' : rsv'[q].attempt = None
    BY <1>1 DEF Agreement, AttemptsBound, OpensOn, RsvOthersKept, Inserted
  <2>4. QED
    BY <1>1, <2>1, <2>2, <2>3 DEF AttemptsBound, OpensOn
<1>4. ProofsNamed' /\ StatusesAgree'
  BY <1>1, <1>2 DEF Agreement, ProofsNamed, StatusesAgree, OpensOn
<1>5. FundedProofsClaimed'
  BY <1>1, <1>2 DEF Agreement, FundedProofsClaimed, OpensOn
<1>6. QED
  BY <1>3, <1>4, <1>5 DEF Agreement

\* No claim names a proof that is not there yet.
LEMMA NewProofUnclaimed ==
  ASSUME Agreement, NEW s \in Proofs, proof[s].status = "none"
  PROVE  \A r \in Inserted : rsv[r].proof # s
BY NoneIsNoRow DEF Agreement, ProofsNamed

LEMMA PostsBesideAgrees ==
  ASSUME Agreement, RowsKept, NEW s \in Proofs, PostsBeside(s)
  PROVE  Agreement'
<1>1. \A r \in Inserted : rsv[r].proof # s
  BY NewProofUnclaimed DEF PostsBeside
<1>2. Inserted' = Inserted
  BY DEF PostsBeside, Inserted
<1>3. \A r \in Inserted : rsv[r].proof \in Proofs => proof'[rsv[r].proof] = proof[rsv[r].proof]
  BY <1>1 DEF PostsBeside, ProofOthersKept
<1>4. AttemptsBound'
  BY <1>2 DEF Agreement, AttemptsBound, PostsBeside, RowsKept
<1>5. ProofsNamed' /\ StatusesAgree'
  BY <1>2, <1>3 DEF Agreement, ProofsNamed, StatusesAgree, PostsBeside
<1>6. FundedProofsClaimed'
  BY <1>2 DEF Agreement, FundedProofsClaimed, PostsBeside, ProofOthersKept
<1>7. QED
  BY <1>4, <1>5, <1>6 DEF Agreement

LEMMA PostsForAgrees ==
  ASSUME EconomyColumns, Agreement, RowsKept, NEW s \in Proofs,
         NEW r \in Reservations, PostsFor(s, r)
  PROVE  Agreement'
<1>1. \A q \in Inserted : rsv[q].proof # s
  BY NewProofUnclaimed DEF PostsFor
<1>2. /\ rsv'[r].status = "submitted" /\ rsv'[r].proof = s
      /\ rsv'[r].attempt = rsv[r].attempt /\ rsv'[r].user = rsv[r].user
  BY DEF PostsFor, EconomyColumns, ReservationRow
<1>3. r \in Inserted /\ Inserted' = Inserted
  BY <1>2 DEF PostsFor, RsvOthersKept, Inserted
<1>4. \A q \in Reservations : rsv'[q].attempt = rsv[q].attempt
  BY <1>2 DEF PostsFor, RsvOthersKept
<1>5. AttemptsBound'
  BY <1>3, <1>4, InsertedAreRows DEF Agreement, AttemptsBound, RowsKept
<1>6. /\ \A q \in Inserted \ {r} : rsv'[q] = rsv[q]
      /\ \A q \in Inserted \ {r} : rsv[q].proof \in Proofs =>
           proof'[rsv[q].proof] = proof[rsv[q].proof]
  <2>1. RsvOthersKept(r) /\ ProofOthersKept(s)
    BY DEF PostsFor
  <2>2. QED
    BY <1>1, <2>1 DEF RsvOthersKept, ProofOthersKept, Inserted
<1>7. ProofsNamed'
  <2>1. s # None
    BY NoneIsNoRow
  <2>2. /\ proof'[s].status = "pending"
        /\ proof'[s].attempt = rsv[r].attempt /\ proof'[s].user = rsv[r].user
    BY DEF PostsFor
  <2>3. ASSUME NEW q \in Inserted \ {r}, rsv[q].proof # None
        PROVE  LET t == rsv[q].proof IN
               /\ t \in Proofs
               /\ proof'[t].status # "none"
               /\ proof'[t].user = rsv[q].user
               /\ proof'[t].attempt = rsv[q].attempt
    BY <1>6, <2>3 DEF Agreement, ProofsNamed
  <2>4. QED
    BY <1>2, <1>3, <1>6, <2>1, <2>2, <2>3 DEF ProofsNamed
<1>8. StatusesAgree'
  <2>1. s # None
    BY NoneIsNoRow
  <2>2. \A q \in Inserted \ {r} : rsv[q].proof # None => rsv[q].proof \in Proofs
    BY DEF Agreement, ProofsNamed
  <2>3. proof'[s].status = "pending"
    BY DEF PostsFor
  <2>4. QED
    BY <1>2, <1>3, <1>6, <2>1, <2>2, <2>3 DEF Agreement, StatusesAgree
<1>9. FundedProofsClaimed'
  <2>1. \A t \in Proofs \ {s} : proof'[t] = proof[t]
    BY DEF PostsFor, ProofOthersKept
  <2>2. rsv[r].proof = None
    BY <1>3 DEF PostsFor, Agreement, StatusesAgree
  <2>3. \A t \in Proofs \ {s} :
          (\E q \in Inserted : rsv[q].proof = t) =>
            \E q \in Inserted : rsv'[q].proof = t
    BY <1>6, <2>2, NoneIsNoRow
  <2>4. QED
    BY <1>2, <1>3, <2>1, <2>3 DEF Agreement, FundedProofsClaimed
<1>10. QED
  BY <1>5, <1>7, <1>8, <1>9 DEF Agreement

LEMMA DecidesAgrees ==
  ASSUME EconomyColumns, Agreement, RowsKept, NEW s \in Proofs,
         \/ Decides(s, "approved", "paid")
         \/ Decides(s, "rejected", "appeal")
  PROVE  Agreement'
<1>1. PICK decision \in {"approved", "rejected"}, claimStatus \in {"paid", "appeal"} :
        /\ Decides(s, decision, claimStatus)
        /\ decision = "approved" <=> claimStatus = "paid"
  OBVIOUS
<1>2. \A q \in Reservations :
        /\ rsv'[q].attempt = rsv[q].attempt
        /\ rsv'[q].user = rsv[q].user
        /\ rsv'[q].proof = rsv[q].proof
        /\ rsv'[q].status = IF q \in Inserted /\ rsv[q].proof = s
                            THEN claimStatus ELSE rsv[q].status
  <2> SUFFICES ASSUME NEW q \in Reservations
               PROVE  /\ rsv'[q].attempt = rsv[q].attempt
                      /\ rsv'[q].user = rsv[q].user
                      /\ rsv'[q].proof = rsv[q].proof
                      /\ rsv'[q].status = IF q \in Inserted /\ rsv[q].proof = s
                                          THEN claimStatus ELSE rsv[q].status
    OBVIOUS
  <2>1. CASE q \in Inserted /\ rsv[q].proof = s
    <3>1. rsv'[q] = [rsv[q] EXCEPT !.status = claimStatus]
      BY <1>1, <2>1 DEF Decides
    <3>2. QED
      BY <2>1, <3>1, ClaimUpdated
  <2>2. CASE ~ (q \in Inserted /\ rsv[q].proof = s)
    <3>1. rsv'[q] = rsv[q]
      BY <1>1, <2>2 DEF Decides
    <3>2. QED
      BY <2>2, <3>1
  <2>3. QED
    BY <2>1, <2>2
<1>3. Inserted' = Inserted
  BY <1>2 DEF Inserted
<1>4. AttemptsBound'
  BY <1>2, <1>3, InsertedAreRows DEF Agreement, AttemptsBound, RowsKept
<1>5. /\ \A t \in Proofs : /\ proof'[t].attempt = proof[t].attempt
                           /\ proof'[t].user = proof[t].user
                           /\ proof[t].status # "none" <=> proof'[t].status # "none"
      /\ \A t \in Proofs \ {s} : proof'[t].status = proof[t].status
      /\ proof'[s].status = decision
  <2>1. /\ proof[s].status \in {"pending", "rejected"}
        /\ proof'[s].status = decision
        /\ proof'[s].attempt = proof[s].attempt
        /\ proof'[s].user = proof[s].user
        /\ \A t \in Proofs \ {s} : proof'[t] = proof[t]
    BY <1>1 DEF Decides, ProofOthersKept
  <2>2. QED
    BY <2>1
<1>6. ProofsNamed'
  BY <1>2, <1>3, <1>5, InsertedAreRows DEF Agreement, ProofsNamed
<1>7. StatusesAgree'
  <2>1. \A q \in Inserted : rsv[q].proof # None => rsv[q].proof \in Proofs
    BY DEF Agreement, ProofsNamed
  <2>2. s # None
    BY NoneIsNoRow
  <2>3. QED
    BY <1>1, <1>2, <1>3, <1>5, <2>1, <2>2, InsertedAreRows DEF Agreement, StatusesAgree
<1>8. FundedProofsClaimed'
  <2>1. \A q \in Inserted : rsv'[q].proof = rsv[q].proof
    BY <1>2 DEF Inserted
  <2>2. QED
    BY <1>3, <1>5, <2>1 DEF Agreement, FundedProofsClaimed
<1>9. QED
  BY <1>4, <1>6, <1>7, <1>8 DEF Agreement

LEMMA DropsAgrees ==
  ASSUME EconomyColumns, Agreement, RowsKept, NEW r \in Reservations, Drops(r)
  PROVE  Agreement'
<1>1. \A q \in Reservations :
        /\ rsv'[q].attempt = rsv[q].attempt
        /\ rsv'[q].user = rsv[q].user
        /\ rsv'[q].proof = rsv[q].proof
        /\ rsv'[q].status = IF q = r THEN "released" ELSE rsv[q].status
  <2>1. rsv'[r] = [rsv[r] EXCEPT !.status = "released"]
    BY DEF Drops
  <2>2. \A q \in Reservations \ {r} : rsv'[q] = rsv[q]
    BY DEF Drops, RsvOthersKept
  <2>3. QED
    BY <2>1, <2>2, ClaimUpdated
<1>2. r \in Inserted /\ Inserted' = Inserted
  BY <1>1 DEF Drops, Inserted
<1>3. AttemptsBound'
  BY <1>1, <1>2, InsertedAreRows DEF Agreement, AttemptsBound, RowsKept
<1>4. ProofsNamed' /\ FundedProofsClaimed'
  BY <1>1, <1>2 DEF Agreement, ProofsNamed, FundedProofsClaimed, Drops, Inserted
<1>5. StatusesAgree'
  BY <1>1, <1>2, InsertedAreRows DEF Agreement, StatusesAgree, Drops
<1>6. QED
  BY <1>3, <1>4, <1>5 DEF Agreement

LEMMA AgreementKept ==
  ASSUME EconomyColumns, Agreement, AgreementStep
  PROVE  Agreement'
BY AttemptsOnlyAgrees, OpensOnAgrees, PostsBesideAgrees, PostsForAgrees,
   DecidesAgrees, DropsAgrees DEF AgreementStep

-----------------------------------------------------------------------------
(* Every action is such a step *)

LEMMA ReserveOpens ==
  ASSUME TypeOK, EconomyColumns, Agreement, NEW u \in Travelers, Reserve(u)
  PROVE  \E r \in Reservations, x \in Attempts : OpensOn(r, x)
<1>1. PICK r \in NextId(rsv, Reservations), x \in Attempts :
        /\ AttemptToReserve(u, x)
        /\ rsv' = [rsv EXCEPT ![r] =
             [status |-> "reserved", user |-> u, attempt |-> x, proof |-> None,
              version |-> version]]
  BY DEF Reserve
<1>2. r \in Reservations /\ r \notin Inserted
  BY <1>1, NextIdIsUninserted DEF Inserted
<1>3. /\ rsv'[r].status = "reserved" /\ rsv'[r].attempt = x
      /\ rsv'[r].proof = None
      /\ \A q \in Reservations \ {r} : rsv'[q] = rsv[q]
  BY <1>1, <1>2 DEF EconomyColumns
<1>4. attempt'[x].status # "none" /\ \A q \in Inserted : rsv[q].attempt # x
  <2>1. CASE UNCHANGED attempt /\ x \in AttemptsIn(u, {"in_progress"})
               /\ \A q \in Reservations : rsv[q].attempt # x
    BY <2>1, InsertedAreRows DEF AttemptsIn
  <2>2. CASE x \in NextId(attempt, Attempts) /\ InsertAttempt(x, u)
    <3>1. attempt[x].status = "none"
      BY <2>2, NextIdIsUninserted
    <3>2. attempt'[x].status = "in_progress"
      BY <2>2 DEF InsertAttempt, TypeOK
    <3>3. \A q \in Inserted : attempt[rsv[q].attempt].status # "none"
      BY DEF Agreement, AttemptsBound
    <3>4. QED
      BY <3>1, <3>2, <3>3
  <2>3. QED
    BY <1>1, <2>1, <2>2 DEF AttemptToReserve
<1>5. OpensOn(r, x)
  BY <1>2, <1>3, <1>4 DEF OpensOn, RsvOthersKept, Reserve
<1>6. QED
  BY <1>2, <1>5

\* The proof an INSERT adds.
LEMMA InsertProofAdds ==
  ASSUME TypeOK, NEW u, NEW x, InsertProof(u, x)
  PROVE  \A s \in NextId(proof, Proofs) :
           /\ s \in Proofs /\ proof[s].status = "none"
           /\ ProofOthersKept(s)
           /\ proof'[s].status = "pending"
           /\ proof'[s].attempt = x
           /\ proof'[s].user = u
<1>1. PICK t \in NextId(proof, Proofs) :
        proof' = [proof EXCEPT ![t] =
          [status |-> "pending", user |-> u, reviewer |-> None, attempt |-> x]]
  BY DEF InsertProof
<1>2. t \in Proofs /\ proof[t].status = "none"
  BY <1>1, NextIdIsUninserted
<1>3. \A s \in NextId(proof, Proofs) : s = t
  BY <1>1 DEF NextId
<1>4. /\ ProofOthersKept(t)
      /\ proof'[t].status = "pending" /\ proof'[t].attempt = x
      /\ proof'[t].user = u
  BY <1>1, <1>2 DEF ProofOthersKept, TypeOK
<1>5. QED
  BY <1>2, <1>3, <1>4

LEMMA PostProofPosts ==
  ASSUME TypeOK, NEW u \in Travelers, PostProof(u), UNCHANGED rsv
  PROVE  \E s \in Proofs : PostsBeside(s)
<1>1. InsertProof(u, None) /\ NextId(proof, Proofs) # {}
  BY DEF PostProof, InsertProof
<1>2. QED
  BY <1>1, InsertProofAdds DEF PostsBeside

LEMMA PostFundedProofPosts ==
  ASSUME TypeOK, EconomyColumns, NEW u \in Travelers, PostFundedProof(u)
  PROVE  \E s \in Proofs, r \in Reservations : PostsFor(s, r)
<1>1. PICK r \in Held(u, {"reserved"}) :
        /\ InsertProof(u, rsv[r].attempt)
        /\ \E s \in NextId(proof, Proofs) :
             rsv' = [rsv EXCEPT ![r].status = "submitted", ![r].proof = s]
  BY DEF PostFundedProof
<1>2. r \in Reservations /\ rsv[r].status = "reserved" /\ rsv[r].user = u
  BY <1>1 DEF Held, InStatus
<1>3. PICK s \in NextId(proof, Proofs) :
        rsv' = [rsv EXCEPT ![r].status = "submitted", ![r].proof = s]
  BY <1>1
<1>4. /\ rsv'[r] = [rsv[r] EXCEPT !.status = "submitted", !.proof = s]
      /\ RsvOthersKept(r)
  BY <1>2, <1>3 DEF RsvOthersKept, EconomyColumns, ReservationRow
<1>5. PostsFor(s, r) /\ s \in Proofs
  BY <1>1, <1>2, <1>4, InsertProofAdds DEF PostsFor
<1>6. QED
  BY <1>2, <1>5

LEMMA SetProofSets ==
  ASSUME TypeOK, NEW s \in Proofs, NEW status, NEW a, SetProof(s, status, a)
  PROVE  /\ ProofOthersKept(s)
         /\ proof'[s].status = status
         /\ proof'[s].attempt = proof[s].attempt
         /\ proof'[s].user = proof[s].user
         /\ proof'[s].reviewer = a
<1>1. ProofOthersKept(s)
  BY DEF TypeOK, SetProof, ProofOthersKept
<1>2. QED
  BY <1>1 DEF TypeOK, SetProof, ProofRow

\* The claim of a decided proof moves and no other claim does.
LEMMA OneClaimDecided ==
  ASSUME EconomyColumns, Agreement, NEW s \in Proofs, NEW r \in Inserted,
         NEW status, rsv[r].proof = s, rsv' = [rsv EXCEPT ![r].status = status]
  PROVE  \A q \in Reservations :
           rsv'[q] = IF q \in Inserted /\ rsv[q].proof = s
                     THEN [rsv[q] EXCEPT !.status = status] ELSE rsv[q]
<1>1. r \in Reservations /\ s # None
  BY InsertedAreRows, NoneIsNoRow
<1>2. \A q \in Inserted : rsv[q].proof = s => q = r
  BY <1>1, ProofOfOneClaim
<1>3. /\ rsv'[r] = [rsv[r] EXCEPT !.status = status]
      /\ \A q \in Reservations \ {r} : rsv'[q] = rsv[q]
  BY <1>1 DEF EconomyColumns
<1>4. QED
  BY <1>1, <1>2, <1>3

LEMMA SettleDecides ==
  ASSUME TypeOK, EconomyColumns, Agreement, NEW s \in Proofs, NEW a,
         proof[s].status \in {"pending", "rejected"},
         \A r \in Inserted : rsv[r].proof = s => rsv[r].status \in ActiveStatuses,
         SetProof(s, "approved", a), SettleApproved(s)
  PROVE  Decides(s, "approved", "paid")
<1>1. s # None
  BY NoneIsNoRow
<1>2. \A r \in Inserted : rsv[r].proof = s => r \in Held(proof[s].user, ActiveStatuses)
  BY <1>1, InsertedAreRows DEF Agreement, ProofsNamed, Held, InStatus
<1>3. CASE Held(proof[s].user, ActiveStatuses) = {} /\ UNCHANGED rsv
  BY <1>2, <1>3, SetProofSets DEF Decides
<1>4. ASSUME NEW r \in Held(proof[s].user, ActiveStatuses), rsv[r].proof = s,
             PayReservation(r)
      PROVE  Decides(s, "approved", "paid")
  <2>1. r \in Inserted
    BY DEF Held, InStatus, Inserted, ActiveStatuses
  <2>2. rsv[r].proof = s /\ rsv' = [rsv EXCEPT ![r].status = "paid"]
    BY <1>4 DEF PayReservation
  <2>3. \A q \in Reservations :
          rsv'[q] = IF q \in Inserted /\ rsv[q].proof = s
                    THEN [rsv[q] EXCEPT !.status = "paid"] ELSE rsv[q]
    BY <2>1, <2>2, OneClaimDecided, ZenonT(40)
  <2>4. QED
    BY <2>3, SetProofSets DEF Decides
<1>5. QED
  BY <1>3, <1>4 DEF SettleApproved

\* The claim of a pending proof is submitted.
LEMMA PendingIsSubmitted ==
  ASSUME EconomyColumns, Agreement, NEW s \in Proofs,
         proof[s].status = "pending"
  PROVE  \A r \in Inserted : rsv[r].proof = s => rsv[r].status = "submitted"
<1> SUFFICES ASSUME NEW r \in Inserted, rsv[r].proof = s
             PROVE  rsv[r].status = "submitted"
  OBVIOUS
<1>1. rsv[r].status \in {"reserved", "submitted", "appeal", "paid", "released"}
  BY InsertedAreRows DEF EconomyColumns, ReservationRow, Inserted
<1>2. s # None
  BY NoneIsNoRow
<1>3. QED
  BY <1>1, <1>2 DEF Agreement, StatusesAgree

LEMMA ApproveFundedDecides ==
  ASSUME TypeOK, EconomyColumns, Agreement, NEW s \in Proofs,
         NEW a \in Reviewers, ApproveFunded(s, a)
  PROVE  Decides(s, "approved", "paid")
<1>1. proof[s].status = "pending" /\ SetProof(s, "approved", a)
        /\ SettleApproved(s)
  BY DEF ApproveFunded, ApproveProof, ApproveProofFrom
<1>2. QED
  BY <1>1, PendingIsSubmitted, SettleDecides DEF ActiveStatuses

LEMMA RejectFundedDecides ==
  ASSUME TypeOK, EconomyColumns, Agreement, NEW s \in Proofs,
         NEW a \in Reviewers, RejectFunded(s, a)
  PROVE  Decides(s, "rejected", "appeal")
<1>1. proof[s].status = "pending" /\ SetProof(s, "rejected", a)
        /\ HoldRejected(s)
  BY DEF RejectFunded, RejectProof
<1>2. s # None
  BY NoneIsNoRow
<1>3. \A r \in Inserted : rsv[r].proof = s =>
        r \in Held(proof[s].user, {"reserved", "submitted"})
  BY <1>1, <1>2, PendingIsSubmitted, InsertedAreRows
     DEF Agreement, ProofsNamed, Held, InStatus
<1>4. CASE Held(proof[s].user, {"reserved", "submitted"}) = {} /\ UNCHANGED rsv
  BY <1>1, <1>3, <1>4, SetProofSets DEF Decides
<1>5. ASSUME NEW r \in Held(proof[s].user, {"reserved", "submitted"}),
             rsv[r].proof = s, rsv' = [rsv EXCEPT ![r].status = "appeal"]
      PROVE  Decides(s, "rejected", "appeal")
  <2>1. r \in Inserted
    BY DEF Held, InStatus, Inserted
  <2>2. \A q \in Reservations :
          rsv'[q] = IF q \in Inserted /\ rsv[q].proof = s
                    THEN [rsv[q] EXCEPT !.status = "appeal"] ELSE rsv[q]
    BY <1>5, <2>1, OneClaimDecided, ZenonT(40)
  <2>3. QED
    BY <1>1, <2>2, SetProofSets DEF Decides
<1>6. QED
  BY <1>1, <1>4, <1>5 DEF HoldRejected

LEMMA ApproveAppealDecides ==
  ASSUME TypeOK, EconomyColumns, Agreement, NEW r \in Reservations,
         NEW a \in Reviewers, ApproveAppeal(r, a)
  PROVE  /\ rsv[r].proof \in Proofs
         /\ Decides(rsv[r].proof, "approved", "paid")
<1> DEFINE s == rsv[r].proof
<1>1. r \in Inserted /\ rsv[r].status = "appeal"
  BY DEF ApproveAppeal, DecideAppeal, Inserted
<1>2. s \in Proofs /\ s # None /\ proof[s].status = "rejected"
  BY <1>1 DEF Agreement, StatusesAgree, ProofsNamed
<1>3. \A q \in Inserted : rsv[q].proof = s => rsv[q].status \in ActiveStatuses
  BY <1>1, <1>2, ProofOfOneClaim DEF ActiveStatuses
<1>4. SetProof(s, "approved", a) /\ SettleApproved(s)
  BY DEF ApproveAppeal, ApproveProofFrom
<1>5. QED
  BY <1>2, <1>3, <1>4, SettleDecides

LEMMA ReleaseDrops ==
  ASSUME EconomyColumns, NEW r \in Reservations, ReleaseReservation(r),
         rsv[r].status \in {"reserved", "appeal"}, UNCHANGED proof
  PROVE  Drops(r)
<1>1. /\ rsv'[r] = [rsv[r] EXCEPT !.status = "released"]
      /\ RsvOthersKept(r)
  BY DEF ReleaseReservation, RsvOthersKept, EconomyColumns
<1>2. QED
  BY <1>1 DEF Drops

\* The sweep never finds a proof to repair a reserved claim with.
LEMMA SweepDrops ==
  ASSUME EconomyColumns, Agreement, NEW r \in Reservations, Sweep(r)
  PROVE  Drops(r) /\ ReleaseReservation(r)
<1>1. rsv[r].status = "reserved" => TimelyProofs(r) = {}
  BY AgreementImplies DEF ClaimAndProofAgree
<1>2. ReleaseReservation(r)
  BY <1>1 DEF Sweep
<1>3. rsv[r].status \in {"reserved", "appeal"} /\ UNCHANGED proof
  BY DEF Sweep, Due
<1>4. QED
  BY <1>2, <1>3, ReleaseDrops

LEMMA RNextAgrees ==
  ASSUME ClaimInv, CreditInv, Agreement, [RNext]_vars
  PROVE  AgreementStep
<1>1. TypeOK /\ EconomyColumns /\ RowsKept
  BY RNextCredits DEF ClaimInv, CreditInv, CreditStep
<1>2. CASE BindRevision \/ ActivatePool \/ Tick \/ UNCHANGED vars
  BY <1>1, <1>2 DEF BindRevision, ActivatePool, Tick, vars, questVars,
                    AgreementStep, AttemptsOnly
<1>3. CASE QuestStep
  <2>1. CASE \E u \in Travelers : PostProof(u)
    BY <1>1, <1>3, <2>1, PostProofPosts DEF QuestStep, economyVars, AgreementStep
  <2>2. CASE ~ \E u \in Travelers : PostProof(u)
    <3>1. UNCHANGED proof
      BY <1>3, <2>2 DEF QuestStep, TravelerStep, StartAttempt, ReadAttempt,
           SubmitAttempt, CompleteAttempt, DropRequest, AttemptReview,
           ApproveAttempt, RequestChanges, RejectAttempt, ReviseQuest
    <3>2. UNCHANGED rsv
      BY <1>3 DEF QuestStep, economyVars
    <3>3. QED
      BY <1>1, <3>1, <3>2 DEF AgreementStep, AttemptsOnly
  <2>3. QED
    BY <2>1, <2>2
<1>4. ASSUME NEW u \in Travelers,
             Reserve(u) \/ CheckProofPath(u) \/ PostFundedProof(u)
      PROVE  AgreementStep
  <2>1. CASE Reserve(u)
    BY <1>1, <2>1, ReserveOpens DEF AgreementStep
  <2>2. CASE CheckProofPath(u)
    BY <1>1, <2>2 DEF CheckProofPath, CheckProof, economyVars, AgreementStep,
                      AttemptsOnly
  <2>3. CASE PostFundedProof(u)
    BY <1>1, <2>3, PostFundedProofPosts DEF AgreementStep
  <2>4. QED
    BY <1>4, <2>1, <2>2, <2>3
<1>5. ASSUME NEW s \in Proofs, NEW a \in Reviewers,
             ApproveFunded(s, a) \/ RejectFunded(s, a)
      PROVE  AgreementStep
  BY <1>1, <1>5, ApproveFundedDecides, RejectFundedDecides DEF AgreementStep
<1>6. ASSUME NEW r \in Reservations, SubmitAppeal(r) \/ Sweep(r)
      PROVE  AgreementStep
  <2>1. CASE SubmitAppeal(r)
    BY <1>1, <2>1 DEF SubmitAppeal, questVars, AgreementStep, AttemptsOnly
  <2>2. CASE Sweep(r)
    BY <1>1, <2>2, SweepDrops DEF AgreementStep
  <2>3. QED
    BY <1>6, <2>1, <2>2
<1>7. ASSUME NEW r \in Reservations, NEW a \in Reviewers,
             DenyAppeal(r, a) \/ ApproveAppeal(r, a)
      PROVE  AgreementStep
  <2>1. CASE DenyAppeal(r, a)
    BY <1>1, <2>1, ReleaseDrops DEF DenyAppeal, DecideAppeal, AgreementStep
  <2>2. CASE ApproveAppeal(r, a)
    BY <1>1, <2>2, ApproveAppealDecides DEF AgreementStep
  <2>3. QED
    BY <1>7, <2>1, <2>2
<1>8. QED
  BY <1>2, <1>3, <1>4, <1>5, <1>6, <1>7 DEF RNext

-----------------------------------------------------------------------------
(* The appeals *)

\* An open appeal remembers who rejected its proof.
ReviewersRemembered ==
  \A r \in Reservations : appeal[r].status = "submitted" =>
    appeal[r].reviewer = proof[rsv[r].proof].reviewer

AppealsAgree == OpenAppealKeepsHold /\ ReviewersRemembered

\* A step of the appeals: every appeal stays with its claim and its proof,
\* except the one that is filed, approved or denied.
AppealKept(r) ==
  /\ appeal'[r] = appeal[r]
  /\ appeal[r].status # "none" => rsv'[r] = rsv[r]
  /\ appeal[r].status = "submitted" =>
       proof'[rsv[r].proof].reviewer = proof[rsv[r].proof].reviewer

AppealFiled(r) ==
  /\ appeal'[r].status = "submitted"
  /\ appeal'[r].reviewer = proof[rsv[r].proof].reviewer
  /\ rsv[r].status = "appeal" /\ UNCHANGED <<rsv, proof>>

AppealApproved(r) ==
  /\ appeal'[r].status = "approved"
  /\ rsv'[r].status = "paid"

AppealDenied(r) ==
  /\ appeal'[r].status = "rejected"
  /\ rsv'[r].status = "released"

AppealStep ==
  \A r \in Reservations :
    AppealKept(r) \/ AppealFiled(r) \/ AppealApproved(r) \/ AppealDenied(r)

LEMMA AppealsAgreeKept ==
  ASSUME AppealsAgree, AppealStep
  PROVE  AppealsAgree'
<1> SUFFICES ASSUME NEW r \in Reservations
             PROVE  /\ appeal'[r].status = "submitted" => rsv'[r].status = "appeal"
                    /\ appeal'[r].status = "approved" => rsv'[r].status = "paid"
                    /\ appeal'[r].status = "rejected" => rsv'[r].status = "released"
                    /\ appeal'[r].status = "submitted" =>
                         appeal'[r].reviewer = proof'[rsv'[r].proof].reviewer
  BY DEF AppealsAgree, OpenAppealKeepsHold, ReviewersRemembered
<1>1. CASE AppealKept(r)
  BY <1>1 DEF AppealKept, AppealsAgree, OpenAppealKeepsHold, ReviewersRemembered
<1>2. CASE AppealFiled(r)
  BY <1>2 DEF AppealFiled
<1>3. CASE AppealApproved(r) \/ AppealDenied(r)
  BY <1>3 DEF AppealApproved, AppealDenied
<1>4. QED
  BY <1>1, <1>2, <1>3 DEF AppealStep

LEMMA UntouchedAppeals ==
  ASSUME UNCHANGED <<appeal, rsv, proof>>
  PROVE  AppealStep
BY DEF AppealStep, AppealKept

\* A decision of a pending proof meets no claim under appeal.
LEMMA ReviewKeepsAppeals ==
  ASSUME TypeOK, EconomyColumns, Agreement, AppealsAgree, NEW s \in Proofs,
         NEW a \in Reviewers, ApproveFunded(s, a) \/ RejectFunded(s, a)
  PROVE  AppealStep
<1> SUFFICES ASSUME NEW r \in Reservations PROVE AppealKept(r)
  BY DEF AppealStep
<1>1. PICK claimStatus \in {"paid", "appeal"} :
        \A q \in Reservations :
          rsv'[q] = IF q \in Inserted /\ rsv[q].proof = s
                    THEN [rsv[q] EXCEPT !.status = claimStatus] ELSE rsv[q]
  BY ApproveFundedDecides, RejectFundedDecides DEF Decides
<1>2. proof[s].status = "pending" /\ ProofOthersKept(s) /\ UNCHANGED appeal
  BY SetProofSets DEF ApproveFunded, ApproveProof, ApproveProofFrom,
                      RejectFunded, RejectProof
<1>3. ASSUME appeal[r].status # "none"
      PROVE  rsv[r].status # "submitted"
  <2>1. appeal[r].status \in {"submitted", "approved", "rejected"}
    BY <1>3 DEF EconomyColumns, AppealRow
  <2>2. QED
    BY <2>1 DEF AppealsAgree, OpenAppealKeepsHold
<1>4. r \in Inserted /\ rsv[r].proof = s => rsv[r].status = "submitted"
  BY <1>2, PendingIsSubmitted
<1>5. appeal[r].status # "none" => rsv'[r] = rsv[r]
  BY <1>1, <1>3, <1>4
<1>6. appeal[r].status = "submitted" =>
        proof'[rsv[r].proof].reviewer = proof[rsv[r].proof].reviewer
  <2>1. SUFFICES ASSUME appeal[r].status = "submitted"
                 PROVE  rsv[r].proof \in Proofs /\ rsv[r].proof # s
    BY <1>2 DEF ProofOthersKept
  <2>2. rsv[r].status = "appeal" /\ r \in Inserted
    BY <2>1 DEF AppealsAgree, OpenAppealKeepsHold, Inserted
  <2>3. QED
    BY <1>2, <2>2 DEF Agreement, StatusesAgree, ProofsNamed
<1>7. QED
  BY <1>2, <1>5, <1>6 DEF AppealKept

LEMMA DecisionKeepsOthers ==
  ASSUME TypeOK, EconomyColumns, Agreement, AppealsAgree, NEW r \in Reservations,
         NEW a \in Reviewers, DenyAppeal(r, a) \/ ApproveAppeal(r, a)
  PROVE  AppealStep
<1>1. PICK status \in {"approved", "rejected"} : DecideAppeal(r, status, a)
  BY DEF DenyAppeal, ApproveAppeal
<1>2. /\ rsv[r].status = "appeal" /\ r \in Inserted
      /\ \A q \in Reservations \ {r} : appeal'[q] = appeal[q]
  BY <1>1 DEF DecideAppeal, EconomyColumns, Inserted
<1>3. CASE DenyAppeal(r, a)
  <2>1. Drops(r)
    BY <1>2, <1>3, ReleaseDrops DEF DenyAppeal
  <2>2. rsv'[r].status = "released" /\ RsvOthersKept(r) /\ UNCHANGED proof
    BY <2>1, ClaimUpdated DEF Drops
  <2>3. appeal'[r].status = "rejected"
    BY <1>3 DEF DenyAppeal, DecideAppeal, EconomyColumns, AppealRow
  <2>4. QED
    BY <1>2, <2>2, <2>3 DEF AppealStep, AppealKept, AppealDenied, RsvOthersKept
<1>4. CASE ApproveAppeal(r, a)
  <2> DEFINE s == rsv[r].proof
  <2>1. s \in Proofs /\ Decides(s, "approved", "paid")
    BY <1>4, ApproveAppealDecides
  <2>2. rsv'[r].status = "paid"
    BY <1>2, <2>1, ClaimUpdated DEF Decides
  <2>3. appeal'[r].status = "approved"
    BY <1>4 DEF ApproveAppeal, DecideAppeal, EconomyColumns, AppealRow
  <2>4. ASSUME NEW q \in Reservations \ {r}
        PROVE  AppealKept(q)
    <3>1. q \in Inserted => rsv[q].proof # s
      BY <1>2, <2>1, ProofOfOneClaim, NoneIsNoRow
    <3>2. rsv'[q] = rsv[q]
      BY <2>1, <3>1 DEF Decides
    <3>3. appeal[q].status = "submitted" => q \in Inserted /\ rsv[q].proof \in Proofs
      BY DEF AppealsAgree, OpenAppealKeepsHold, Inserted, Agreement,
             StatusesAgree, ProofsNamed
    <3>4. appeal[q].status = "submitted" =>
            proof'[rsv[q].proof].reviewer = proof[rsv[q].proof].reviewer
      BY <2>1, <3>1, <3>3 DEF Decides, ProofOthersKept
    <3>5. QED
      BY <1>2, <3>2, <3>4 DEF AppealKept
  <2>5. QED
    BY <2>2, <2>3, <2>4 DEF AppealStep, AppealApproved
<1>5. QED
  BY <1>3, <1>4

LEMMA SweepKeepsAppeals ==
  ASSUME EconomyColumns, Agreement, AppealsAgree, NEW r \in Reservations, Sweep(r)
  PROVE  AppealStep /\ appeal[r].status = "none"
<1>1. Drops(r) /\ UNCHANGED <<appeal, proof>>
  BY SweepDrops DEF Sweep
<1>2. appeal[r].status = "none"
  <2>1. rsv[r].status \in {"reserved", "appeal"}
    BY <1>1 DEF Drops
  <2>2. appeal[r].status \in {"none", "rejected"}
    BY DEF Sweep, EconomyColumns, AppealRow
  <2>3. QED
    BY <2>1, <2>2 DEF AppealsAgree, OpenAppealKeepsHold
<1>3. QED
  BY <1>1, <1>2 DEF Drops, RsvOthersKept, AppealStep, AppealKept

LEMMA PostingKeepsAppeals ==
  ASSUME TypeOK, EconomyColumns, Agreement, AppealsAgree,
         UNCHANGED appeal,
         \/ \E s \in Proofs : PostsBeside(s)
         \/ \E s \in Proofs, r \in Reservations : PostsFor(s, r)
         \/ \E r \in Reservations, x \in Attempts : OpensOn(r, x)
  PROVE  AppealStep
<1> SUFFICES ASSUME NEW q \in Reservations PROVE AppealKept(q)
  BY DEF AppealStep
<1>1. appeal[q].status # "none" =>
        rsv[q].status \in {"appeal", "paid", "released"}
  BY DEF AppealsAgree, OpenAppealKeepsHold, EconomyColumns, AppealRow
<1>2. appeal[q].status # "none" => rsv'[q] = rsv[q]
  BY <1>1 DEF PostsBeside, PostsFor, OpensOn, RsvOthersKept, Inserted
<1>3. appeal[q].status = "submitted" =>
        /\ rsv[q].proof \in Proofs
        /\ proof[rsv[q].proof].status = "rejected"
  BY DEF AppealsAgree, OpenAppealKeepsHold, Inserted, Agreement, StatusesAgree,
         ProofsNamed
<1>4. appeal[q].status = "submitted" =>
        proof'[rsv[q].proof].reviewer = proof[rsv[q].proof].reviewer
  BY <1>3 DEF PostsBeside, PostsFor, OpensOn, ProofOthersKept
<1>5. QED
  BY <1>2, <1>4 DEF AppealKept

LEMMA SubmitAppealFiles ==
  ASSUME EconomyColumns, NEW r \in Reservations, SubmitAppeal(r)
  PROVE  AppealStep
<1>1. /\ appeal'[r].status = "submitted"
      /\ appeal'[r].reviewer = proof[rsv[r].proof].reviewer
      /\ \A q \in Reservations \ {r} : appeal'[q] = appeal[q]
  BY DEF SubmitAppeal, EconomyColumns
<1>2. rsv[r].status = "appeal" /\ UNCHANGED <<rsv, proof>>
  BY DEF SubmitAppeal, questVars
<1>3. QED
  BY <1>1, <1>2 DEF AppealStep, AppealFiled, AppealKept

LEMMA RNextAppeals ==
  ASSUME ClaimInv, Agreement, AppealsAgree, [RNext]_vars
  PROVE  AppealStep
<1>1. TypeOK /\ EconomyColumns
  BY DEF ClaimInv
<1>2. CASE BindRevision \/ ActivatePool \/ Tick \/ UNCHANGED vars
  BY <1>2, UntouchedAppeals DEF BindRevision, ActivatePool, Tick, vars, questVars
<1>3. CASE QuestStep
  <2>1. CASE \E u \in Travelers : PostProof(u)
    BY <1>1, <1>3, <2>1, PostProofPosts, PostingKeepsAppeals
       DEF QuestStep, economyVars
  <2>2. CASE ~ \E u \in Travelers : PostProof(u)
    <3>1. UNCHANGED proof
      BY <1>3, <2>2 DEF QuestStep, TravelerStep, StartAttempt, ReadAttempt,
           SubmitAttempt, CompleteAttempt, DropRequest, AttemptReview,
           ApproveAttempt, RequestChanges, RejectAttempt, ReviseQuest
    <3>2. UNCHANGED <<rsv, appeal>>
      BY <1>3 DEF QuestStep, economyVars
    <3>3. QED
      BY <3>1, <3>2, UntouchedAppeals
  <2>3. QED
    BY <2>1, <2>2
<1>4. ASSUME NEW u \in Travelers,
             Reserve(u) \/ CheckProofPath(u) \/ PostFundedProof(u)
      PROVE  AppealStep
  <2>1. CASE Reserve(u)
    <3>1. UNCHANGED appeal
      BY <2>1 DEF Reserve
    <3>2. QED
      BY <1>1, <2>1, <3>1, ReserveOpens, PostingKeepsAppeals
  <2>2. CASE CheckProofPath(u)
    BY <2>2, UntouchedAppeals DEF CheckProofPath, CheckProof, economyVars
  <2>3. CASE PostFundedProof(u)
    <3>1. UNCHANGED appeal
      BY <2>3 DEF PostFundedProof
    <3>2. QED
      BY <1>1, <2>3, <3>1, PostFundedProofPosts, PostingKeepsAppeals
  <2>4. QED
    BY <1>4, <2>1, <2>2, <2>3
<1>5. ASSUME NEW r \in Reservations,
             \/ SubmitAppeal(r)
             \/ Sweep(r)
             \/ \E a \in Reviewers : DenyAppeal(r, a) \/ ApproveAppeal(r, a)
      PROVE  AppealStep
  BY <1>1, <1>5, SubmitAppealFiles, SweepKeepsAppeals, DecisionKeepsOthers
<1>6. QED
  BY <1>1, <1>2, <1>3, <1>4, <1>5, ReviewKeepsAppeals DEF RNext

-----------------------------------------------------------------------------
(* Theorems *)

\* The inductive invariant of the funded quest.
FundedInv == ClaimInv /\ CreditInv /\ Agreement /\ AppealsAgree

LEMMA InitFunded == RInit => FundedInv
<1> SUFFICES ASSUME RInit PROVE FundedInv
  OBVIOUS
<1>1. ClaimInv /\ CreditInv
  BY InitClaims, InitCredits DEF RInit
<1>2. Inserted = {}
  BY DEF RInit, EconomyInit, Inserted
<1>3. Agreement
  BY <1>2 DEF RInit, Init, EconomyInit, Agreement, AttemptsBound, ProofsNamed,
              StatusesAgree, FundedProofsClaimed
<1>4. AppealsAgree
  BY DEF RInit, EconomyInit, AppealsAgree, OpenAppealKeepsHold,
         ReviewersRemembered
<1>5. QED
  BY <1>1, <1>3, <1>4 DEF FundedInv

LEMMA RNextFunded ==
  ASSUME FundedInv, [RNext]_vars
  PROVE  FundedInv'
<1>1. ClaimInv' /\ CreditInv'
  BY RNextClaimInv, RNextCreditInv DEF FundedInv
<1>2. Agreement'
  BY RNextAgrees, AgreementKept DEF FundedInv, ClaimInv
<1>3. AppealsAgree'
  BY RNextAppeals, AppealsAgreeKept DEF FundedInv
<1>4. QED
  BY <1>1, <1>2, <1>3 DEF FundedInv

\* A claim, its proof and its appeal agree in every state: a reserved claim has
\* no proof, a submitted one a pending proof, a held one a rejected proof and a
\* paid one an approved proof; a funded proof under review has its claim; and
\* an open appeal keeps the money it is about.
THEOREM ClaimsAgree == RSpec => [](ClaimAndProofAgree /\ OpenAppealKeepsHold)
<1>1. RInit => FundedInv
  BY InitFunded
<1>2. FundedInv /\ [RNext]_vars => FundedInv'
  BY RNextFunded
<1>3. FundedInv => ClaimAndProofAgree /\ OpenAppealKeepsHold
  BY AgreementImplies DEF FundedInv, ClaimInv, AppealsAgree
<1>4. QED
  BY <1>1, <1>2, <1>3, PTL DEF RSpec

\* What a step may do to a claim that ended and to a rejected proof.
ClaimEnds ==
  /\ \A r \in Reservations :
       rsv[r].status \in {"paid", "released"} => rsv'[r] = rsv[r]
  /\ \A s \in Proofs :
       proof[s].status = "rejected" /\ proof'[s].status = "approved" =>
         \E r \in InStatus({"appeal"}) :
           rsv[r].proof = s /\ rsv'[r].status = "paid"

LEMMA ClaimStepKeepsEnded ==
  ASSUME ClaimStep
  PROVE  \A r \in Reservations :
           rsv[r].status \in {"paid", "released"} => rsv'[r] = rsv[r]
BY DEF ClaimStep, NoClaim, OneClaim, Opens, Moves, Pays, Frees, Proceeds,
       ActiveStatuses

\* A rejected proof is approved by an appeal only, which pays its claim.
LEMMA RejectedProofNeedsAppeal ==
  ASSUME FundedInv, [RNext]_vars, NEW s \in Proofs,
         proof[s].status = "rejected", proof'[s].status = "approved"
  PROVE  \E r \in Reservations, a \in Reviewers :
           ApproveAppeal(r, a) /\ rsv[r].proof = s
<1>1. TypeOK /\ EconomyColumns /\ Agreement
  BY DEF FundedInv, ClaimInv
<1>2. ~ UNCHANGED proof
  OBVIOUS
<1>3. ASSUME NEW t \in Proofs, NEW a \in Reviewers,
             ApproveFunded(t, a) \/ RejectFunded(t, a)
      PROVE  FALSE
  <2>1. proof[t].status = "pending" /\ ProofOthersKept(t)
    BY <1>1, <1>3, SetProofSets
       DEF ApproveFunded, ApproveProof, ApproveProofFrom, RejectFunded, RejectProof
  <2>2. QED
    BY <2>1 DEF ProofOthersKept
<1>4. ASSUME NEW u \in Travelers, NEW x, InsertProof(u, x)
      PROVE  FALSE
  <2>1. PICK t \in NextId(proof, Proofs) :
          proof' = [proof EXCEPT ![t] =
            [status |-> "pending", user |-> u, reviewer |-> None, attempt |-> x]]
    BY <1>4 DEF InsertProof
  <2>2. QED
    BY <1>1, <2>1 DEF TypeOK
<1>5. ASSUME NEW u \in Travelers,
             Reserve(u) \/ CheckProofPath(u) \/ PostFundedProof(u)
      PROVE  FALSE
  BY <1>2, <1>4, <1>5 DEF Reserve, CheckProofPath, CheckProof, PostFundedProof
<1>6. ASSUME QuestStep PROVE FALSE
  BY <1>2, <1>4, <1>6 DEF QuestStep, TravelerStep, StartAttempt, ReadAttempt,
       SubmitAttempt, CompleteAttempt, DropRequest, PostProof, AttemptReview,
       ApproveAttempt, RequestChanges, RejectAttempt, ReviseQuest
<1>7. ASSUME BindRevision \/ ActivatePool \/ Tick \/ UNCHANGED vars
      PROVE  FALSE
  BY <1>2, <1>7 DEF BindRevision, ActivatePool, Tick, vars, questVars
<1>8. ASSUME NEW r \in Reservations, NEW a \in Reviewers, DenyAppeal(r, a)
      PROVE  FALSE
  BY <1>2, <1>8 DEF DenyAppeal
<1>9. ASSUME NEW r \in Reservations, SubmitAppeal(r) \/ Sweep(r)
      PROVE  FALSE
  BY <1>2, <1>9 DEF SubmitAppeal, questVars, Sweep
<1>10. PICK r \in Reservations, a \in Reviewers : ApproveAppeal(r, a)
  BY <1>3, <1>5, <1>6, <1>7, <1>8, <1>9 DEF RNext
<1>11. rsv[r].proof \in Proofs /\ ProofOthersKept(rsv[r].proof)
  BY <1>1, <1>10, ApproveAppealDecides DEF Decides
<1>12. rsv[r].proof = s
  BY <1>11 DEF ProofOthersKept
<1>13. QED
  BY <1>10, <1>12

LEMMA RNextClaimEnds ==
  ASSUME FundedInv, [RNext]_vars
  PROVE  ClaimEnds
<1>1. TypeOK /\ EconomyColumns /\ Agreement /\ ClaimStep
  BY RNextClaims DEF FundedInv, ClaimInv
<1>2. ASSUME NEW s \in Proofs,
             proof[s].status = "rejected", proof'[s].status = "approved"
      PROVE  \E r \in InStatus({"appeal"}) :
               rsv[r].proof = s /\ rsv'[r].status = "paid"
  <2>1. PICK r \in Reservations, a \in Reviewers :
          ApproveAppeal(r, a) /\ rsv[r].proof = s
    BY <1>2, RejectedProofNeedsAppeal
  <2>2. rsv[r].status = "appeal" /\ r \in Inserted
    BY <2>1 DEF ApproveAppeal, DecideAppeal, Inserted
  <2>3. Decides(s, "approved", "paid")
    BY <1>1, <2>1, ApproveAppealDecides
  <2>4. rsv'[r].status = "paid"
    BY <1>1, <2>1, <2>2, <2>3, ClaimUpdated DEF Decides
  <2>5. QED
    BY <2>1, <2>2, <2>4 DEF InStatus
<1>3. QED
  BY <1>1, <1>2, ClaimStepKeepsEnded DEF ClaimEnds

\* A claim that was paid or released keeps its row for good, and a rejected
\* proof is approved only in the step that pays its claim.
THEOREM ClaimsEnd == RSpec => EndedClaimsStand
<1>1. RInit => FundedInv
  BY InitFunded
<1>2. FundedInv /\ [RNext]_vars => FundedInv'
  BY RNextFunded
<1>3. FundedInv /\ [RNext]_vars => [ClaimEnds]_vars
  BY RNextClaimEnds
<1>4. QED
  BY <1>1, <1>2, <1>3, PTL DEF RSpec, EndedClaimsStand, ClaimEnds

-----------------------------------------------------------------------------
(* Why a claim is released *)

Released(r) == rsv[r].status # "released" /\ rsv'[r].status = "released"

Cause(r) ==
  \/ rsv[r].status = "reserved" /\ timer[r] <= 0
  \/ rsv[r].status = "appeal" /\ timer[r] <= 0 /\ appeal[r].status = "none"
  \/ rsv[r].status = "appeal" /\ appeal'[r].status = "rejected"
       /\ appeal'[r].decidedBy \notin {rsv[r].user, Author,
                                       proof[rsv[r].proof].reviewer}

\* A step that pays or leaves every claim alone releases none.
LEMMA SettlingReleasesNone ==
  ASSUME EconomyColumns, NEW s, SettleApproved(s), NEW r \in Reservations
  PROVE  ~ Released(r)
<1>1. CASE UNCHANGED rsv
  BY <1>1 DEF Released
<1>2. CASE \E q \in Held(proof[s].user, ActiveStatuses) : PayReservation(q)
  <2>1. PICK q \in Reservations : rsv' = [rsv EXCEPT ![q].status = "paid"]
    BY <1>2 DEF Held, InStatus, PayReservation
  <2>2. rsv'[q].status = "paid" /\ \A p \in Reservations \ {q} : rsv'[p] = rsv[p]
    BY <2>1 DEF EconomyColumns, ReservationRow
  <2>3. QED
    BY <2>2 DEF Released
<1>3. QED
  BY <1>1, <1>2 DEF SettleApproved

\* Nor does a rejection, which holds at most one claim for its appeal.
LEMMA HoldingReleasesNone ==
  ASSUME EconomyColumns, NEW s, HoldRejected(s), NEW r \in Reservations
  PROVE  ~ Released(r)
<1>1. CASE UNCHANGED rsv
  BY <1>1 DEF Released
<1>2. CASE \E q \in Reservations : rsv' = [rsv EXCEPT ![q].status = "appeal"]
  <2>1. PICK q \in Reservations : rsv' = [rsv EXCEPT ![q].status = "appeal"]
    BY <1>2
  <2>2. rsv'[q].status = "appeal" /\ \A p \in Reservations \ {q} : rsv'[p] = rsv[p]
    BY <2>1 DEF EconomyColumns, ReservationRow
  <2>3. QED
    BY <2>2 DEF Released
<1>3. QED
  BY <1>1, <1>2 DEF HoldRejected, Held, InStatus

\* Releasing one claim releases no other.
LEMMA ReleasesOnlyIt ==
  ASSUME EconomyColumns, NEW q \in Reservations, ReleaseReservation(q),
         NEW r \in Reservations, Released(r)
  PROVE  r = q
<1>1. \A p \in Reservations \ {q} : rsv'[p] = rsv[p]
  BY DEF ReleaseReservation, EconomyColumns
<1>2. QED
  BY <1>1 DEF Released

\* The traveler's requests release nothing.
LEMMA TravelersReleaseNone ==
  ASSUME TypeOK, EconomyColumns, NEW u \in Travelers,
         Reserve(u) \/ CheckProofPath(u) \/ PostFundedProof(u),
         NEW r \in Reservations
  PROVE  ~ Released(r)
<1>1. CASE CheckProofPath(u)
  BY <1>1 DEF CheckProofPath, economyVars, Released
<1>2. CASE Reserve(u)
  <2>1. PICK q \in NextId(rsv, Reservations), x \in Attempts :
          rsv' = [rsv EXCEPT ![q] =
            [status |-> "reserved", user |-> u, attempt |-> x, proof |-> None,
             version |-> version]]
    BY <1>2 DEF Reserve
  <2>2. rsv'[r] = rsv[r] \/ rsv'[r].status = "reserved"
    BY <2>1 DEF EconomyColumns
  <2>3. QED
    BY <2>2 DEF Released
<1>3. CASE PostFundedProof(u)
  <2>1. PICK q \in Reservations, s \in Proofs :
          rsv' = [rsv EXCEPT ![q].status = "submitted", ![q].proof = s]
    BY <1>3, NextIdIsUninserted DEF PostFundedProof, Held, InStatus
  <2>2. rsv'[r] = rsv[r] \/ rsv'[r].status = "submitted"
    BY <2>1 DEF EconomyColumns, ReservationRow
  <2>3. QED
    BY <2>2 DEF Released
<1>4. QED
  BY <1>1, <1>2, <1>3

\* The sweep releases what is due and not appealed.
LEMMA SweepReleasesForCause ==
  ASSUME EconomyColumns, Agreement, AppealsAgree, NEW q \in Reservations,
         Sweep(q), NEW r \in Reservations, Released(r)
  PROVE  Cause(r)
<1>1. appeal[q].status = "none"
  BY SweepKeepsAppeals
<1>2. CASE ReleaseReservation(q)
  BY <1>1, <1>2, ReleasesOnlyIt DEF Sweep, Due, Cause
<1>3. CASE ~ ReleaseReservation(q)
  <2>1. PICK s \in Proofs, status \in {"submitted", "appeal"} :
          rsv' = [rsv EXCEPT ![q].status = status, ![q].proof = s]
    BY <1>3 DEF Sweep, TimelyProofs
  <2>2. rsv'[r] = rsv[r] \/ rsv'[r].status = status
    BY <2>1 DEF EconomyColumns, ReservationRow
  <2>3. QED
    BY <2>2 DEF Released
<1>4. QED
  BY <1>2, <1>3

\* A denied appeal releases its claim, by somebody independent.
LEMMA DenialReleasesForCause ==
  ASSUME EconomyColumns, AppealsAgree, NEW q \in Reservations,
         NEW a \in Reviewers, DenyAppeal(q, a), NEW r \in Reservations, Released(r)
  PROVE  Cause(r)
<1>1. r = q
  BY ReleasesOnlyIt DEF DenyAppeal
<1>2. /\ rsv[q].status = "appeal"
      /\ appeal[q].status = "submitted"
      /\ a \notin {rsv[q].user, Author, appeal[q].reviewer}
      /\ appeal' = [appeal EXCEPT ![q].status = "rejected", ![q].decidedBy = a]
  BY DEF DenyAppeal, DecideAppeal, Independent
<1>3. appeal'[q].status = "rejected" /\ appeal'[q].decidedBy = a
  BY <1>2 DEF EconomyColumns, AppealRow
<1>4. appeal[q].reviewer = proof[rsv[q].proof].reviewer
  BY <1>2 DEF AppealsAgree, ReviewersRemembered
<1>5. QED
  BY <1>1, <1>2, <1>3, <1>4 DEF Cause

LEMMA RNextReleasesForCause ==
  ASSUME FundedInv, [RNext]_vars, NEW r \in Reservations, Released(r)
  PROVE  Cause(r)
<1>1. TypeOK /\ EconomyColumns /\ Agreement /\ AppealsAgree
  BY DEF FundedInv, ClaimInv
<1>2. ~ UNCHANGED rsv
  BY DEF Released
<1>3. ~ (QuestStep \/ BindRevision \/ ActivatePool \/ Tick \/ UNCHANGED vars)
  BY <1>2 DEF QuestStep, economyVars, BindRevision, ActivatePool, Tick, vars
<1>4. ASSUME NEW s \in Proofs, NEW a \in Reviewers,
             ApproveFunded(s, a) \/ RejectFunded(s, a)
      PROVE  FALSE
  BY <1>1, <1>4, SettlingReleasesNone, HoldingReleasesNone
     DEF ApproveFunded, RejectFunded
<1>5. ASSUME NEW q \in Reservations, NEW a \in Reviewers, ApproveAppeal(q, a)
      PROVE  FALSE
  BY <1>1, <1>5, SettlingReleasesNone DEF ApproveAppeal
<1>6. ASSUME NEW q \in Reservations, SubmitAppeal(q) PROVE FALSE
  BY <1>2, <1>6 DEF SubmitAppeal
<1>7. QED
  BY <1>1, <1>3, <1>4, <1>5, <1>6, TravelersReleaseNone, SweepReleasesForCause,
     DenialReleasesForCause DEF RNext

\* A claim is released for one of three causes only: its deadline passed and no
\* proof came, the appeal window of its rejected proof passed and nobody
\* appealed, or somebody other than its traveler, the author and the first
\* reviewer denied the appeal (releaseExpiredReservation, denyAppeal).
THEOREM ReleasesHaveCause == RSpec => ReleasedForCause
<1>1. FundedInv /\ [RNext]_vars =>
        [\A r \in Reservations : Released(r) => Cause(r)]_vars
  BY RNextReleasesForCause
<1>2. RInit => FundedInv
  BY InitFunded
<1>3. FundedInv /\ [RNext]_vars => FundedInv'
  BY RNextFunded
<1>4. QED
  BY <1>1, <1>2, <1>3, PTL DEF RSpec, ReleasedForCause, Released, Cause

\* A claim ends once, and not without a reason (approve, reject, decideAppeal,
\* the sweep).
THEOREM ClaimsEndCorrectly == RSpec => ClaimsEndForCause
  BY ReleasesHaveCause, ClaimsEnd DEF ClaimsEndForCause
=============================================================================
