-------------------------- MODULE RewardReservations --------------------------
(***************************************************************************)
(* The funded reward of a quest: a pool of simulated Explorer Coins, the   *)
(* reservations carved out of it, the proofs that claim them, and the      *)
(* appeals of travelers whose proof was rejected (economy/service.ts,      *)
(* services/submissions.ts, jobs/economy-reservations.ts).                 *)
(*                                                                         *)
(* The attempts, proofs and completion points of QuestAttempts are the     *)
(* same rows here: every handler of that module still runs, and the        *)
(* handlers that settle, hold or release a reservation are composed with   *)
(* it into one transaction.                                                *)
(*                                                                         *)
(* A deadline is a timer that counts down to 0, the instant the deadline   *)
(* falls due, and on to -1, past it: a test `now <= deadline` is           *)
(* timer >= 0 and `deadline <= now` is timer <= 0, both true at the        *)
(* deadline itself.  The database and the application clock are one.       *)
(***************************************************************************)
EXTENDS QuestAttempts, Integers

CONSTANTS
  Reservations,     \* row ids of reward_reservations
  RewardMinor,      \* reward_pools.reward_minor
  AllocatedMinor,   \* reward_pools.allocated_minor
  ReservationTime,  \* reward_pools.reservation_seconds, in ticks
  AppealTime        \* reward_pools.appeal_seconds, in ticks

ASSUME ReservationsAreFinite ==
  IsFiniteSet(Reservations) /\ None \notin Reservations
ASSUME PoolPolicy ==
  /\ RewardMinor \in Nat \ {0}
  /\ AllocatedMinor \in Nat
  /\ RewardMinor <= AllocatedMinor
  /\ ReservationTime \in Nat \ {0}
  /\ AppealTime \in Nat

VARIABLES
  poolStatus,   \* reward_pools.status
  available,    \* reward_pools.available_minor
  reserved,     \* reward_pools.reserved_minor
  paid,         \* reward_pools.paid_minor
  bound,        \* versions with a row in economic_quest_scope_bindings
  rsv,          \* reward_reservations
  timer,        \* ticks to expires_at or, in status appeal, to appeal_until
  appeal        \* reward_appeals, at most one for each reservation

poolVars == <<poolStatus, available, reserved, paid>>
economyVars == <<poolStatus, available, reserved, paid, bound, rsv, timer,
                 appeal>>
vars == <<version, attempt, proof, posting, reading, demoPoints, ledger,
          poolStatus, available, reserved, paid, bound, rsv, timer, appeal>>

Past == -1

ReservationRow == [status : {"none", "reserved", "submitted", "appeal", "paid",
                             "released"},
                   user : Travelers \cup {None},
                   attempt : Attempts \cup {None},
                   proof : Proofs \cup {None},
                   version : Nat]

AppealRow == [status : {"none", "submitted", "approved", "rejected"},
              reviewer : Reviewers \cup {None},
              decidedBy : Reviewers \cup {None}]

-----------------------------------------------------------------------------
(* Reading the tables *)

ActiveStatuses == {"reserved", "submitted", "appeal"}

InStatus(statuses) == {r \in Reservations : rsv[r].status \in statuses}

Held(u, statuses) == {r \in InStatus(statuses) : rsv[r].user = u}

-----------------------------------------------------------------------------
(* The pool and its reviewed authority *)

\* createReviewedPilotAuthority and bindReviewedQuestRevision: the current
\* revision of the quest is bound to the pool's scope.
BindRevision ==
  /\ version \notin bound
  /\ bound' = bound \cup {version}
  /\ UNCHANGED <<questVars, poolVars, rsv, timer, appeal>>

\* activatePilotPool: draft to active, and economic_reviewed_pool_guard asks
\* for a binding of the current revision.
ActivatePool ==
  /\ poolStatus = "draft"
  /\ version \in bound
  /\ poolStatus' = "active"
  /\ UNCHANGED <<questVars, available, reserved, paid, bound, rsv, timer,
                 appeal>>

-----------------------------------------------------------------------------
(* Reserving *)

\* The attempt a new reservation is bound to: the traveler's attempt in
\* progress, which must be of the current revision and not yet bound to any
\* reservation (reward_reservations_attempt_unique), or a new one.
AttemptToReserve(u, x) ==
  LET current == AttemptsIn(u, {"in_progress"}) IN
  \/ /\ x \in current
     /\ attempt[x].version = version
     /\ \A r \in Reservations : rsv[r].attempt # x
     /\ UNCHANGED attempt
  \/ /\ current = {}
     /\ x \in NextId(attempt, Attempts)
     /\ InsertAttempt(x, u)

\* As MayReserve, without the funds and binding checks.
MayReserve_Unchecked(u) ==
  /\ u # Author
  /\ poolStatus = "active"
  /\ Held(u, ActiveStatuses \cup {"paid"}) = {}

\* The checks of reserveReward, for a traveler with neither an award nor an
\* active reservation; one with an active reservation is handed that one.
MayReserve(u) ==
  /\ u # Author
  /\ poolStatus = "active"
  /\ version \in bound
  /\ Held(u, ActiveStatuses \cup {"paid"}) = {}
  /\ available >= RewardMinor

\* reserveReward: pool, attempt and reservation in one transaction.
Reserve(u) ==
  /\ MayReserve(u)
  /\ available' = available - RewardMinor
  /\ reserved' = reserved + RewardMinor
  /\ \E r \in NextId(rsv, Reservations), x \in Attempts :
       /\ AttemptToReserve(u, x)
       /\ rsv' = [rsv EXCEPT ![r] =
            [status |-> "reserved", user |-> u, attempt |-> x, proof |-> None,
             version |-> version]]
       /\ timer' = [timer EXCEPT ![r] = ReservationTime]
  /\ UNCHANGED <<version, proof, posting, reading, demoPoints, ledger,
                 poolStatus, paid, bound, appeal>>

-----------------------------------------------------------------------------
(* Submitting a proof *)

\* fundedContext of createSubmission, read without a lock.
FundedContext(u) ==
  poolStatus = "active" \/ Held(u, {"reserved"}) # {}

CheckProofPath(u) ==
  /\ CheckProof(u, IF FundedContext(u) THEN "funded" ELSE "unfunded")
  /\ UNCHANGED economyVars

\* createSubmission, the funded transaction: the proof, its reservation and
\* its attempt move together.
PostFundedProof(u) ==
  /\ "funded" \in posting[u]
  /\ \E r \in Held(u, {"reserved"}) :
       LET x == rsv[r].attempt IN
       /\ attempt[x].status = "in_progress"
       /\ rsv[r].version = version
       /\ timer[r] >= 0
       /\ InsertProof(u, x)
       /\ \E s \in NextId(proof, Proofs) :
            rsv' = [rsv EXCEPT ![r].status = "submitted", ![r].proof = s]
       /\ SetAttempts({x}, "submitted")
       /\ timer' = [timer EXCEPT ![r] = Past]
  /\ Answer(u, "funded")
  /\ UNCHANGED <<version, reading, demoPoints, ledger, poolVars, bound, appeal>>

-----------------------------------------------------------------------------
(* Reviewing a proof *)

\* economic_post_transfer, operation reward: the reservation's amount leaves
\* the pool for the traveler.
PayReservation(r) ==
  /\ reserved >= RewardMinor
  /\ reserved' = reserved - RewardMinor
  /\ paid' = paid + RewardMinor
  /\ rsv' = [rsv EXCEPT ![r].status = "paid"]
  /\ timer' = [timer EXCEPT ![r] = Past]
  /\ UNCHANGED <<poolStatus, available>>

\* As SettleApproved, paying whatever claim the traveler has open.
SettleApproved_AnyClaim(s) ==
  LET candidates == Held(proof[s].user, ActiveStatuses) IN
  \/ candidates = {} /\ UNCHANGED <<poolVars, rsv, timer>>
  \/ \E r \in candidates : PayReservation(r)

\* settleApprovedSubmissionInTx: an active reservation of the traveler must be
\* the one this proof claims, otherwise ATTEMPT_PROOF_MISMATCH rolls the whole
\* review back.
SettleApproved(s) ==
  LET candidates == Held(proof[s].user, ActiveStatuses) IN
  \/ candidates = {} /\ UNCHANGED <<poolVars, rsv, timer>>
  \/ \E r \in candidates :
       /\ rsv[r].status \in {"submitted", "appeal"}
       /\ rsv[r].proof = s
       /\ PayReservation(r)

\* holdRejectedSubmissionInTx: the reservation is kept for the appeal window.
HoldRejected(s) ==
  LET candidates == Held(proof[s].user, {"reserved", "submitted"}) IN
  \/ candidates = {} /\ UNCHANGED <<rsv, timer>>
  \/ \E r \in candidates :
       /\ rsv[r].status = "submitted"
       /\ rsv[r].proof = s
       /\ rsv' = [rsv EXCEPT ![r].status = "appeal"]
       /\ timer' = [timer EXCEPT ![r] = AppealTime]

ApproveFunded(s, a) ==
  /\ ApproveProof(s, a)
  /\ SettleApproved(s)
  /\ UNCHANGED <<bound, appeal>>

RejectFunded(s, a) ==
  /\ RejectProof(s, a)
  /\ HoldRejected(s)
  /\ UNCHANGED <<poolVars, bound, appeal>>

-----------------------------------------------------------------------------
(* Appealing *)

\* submitAppeal, by the reservation's traveler, within the appeal window.
SubmitAppeal(r) ==
  /\ rsv[r].status = "appeal"
  /\ appeal[r].status = "none"
  /\ proof[rsv[r].proof].status = "rejected"
  /\ timer[r] >= 0
  /\ appeal' = [appeal EXCEPT ![r] =
       [status |-> "submitted", reviewer |-> proof[rsv[r].proof].reviewer,
        decidedBy |-> None]]
  /\ UNCHANGED <<questVars, poolVars, bound, rsv, timer>>

\* Who may decide an appeal.
Independent(r, a) == a \notin {rsv[r].user, Author, appeal[r].reviewer}

DecideAppeal(r, status, a) ==
  /\ appeal[r].status = "submitted"
  /\ Independent(r, a)
  /\ rsv[r].status = "appeal"
  /\ appeal' = [appeal EXCEPT ![r].status = status, ![r].decidedBy = a]

\* As ReleaseReservation, leaving the pool's reserved balance as it was.
ReleaseReservation_StillReserved(r) ==
  /\ available' = available + RewardMinor
  /\ rsv' = [rsv EXCEPT ![r].status = "released"]
  /\ timer' = [timer EXCEPT ![r] = Past]
  /\ UNCHANGED <<poolStatus, reserved, paid, attempt>>

\* The reservation's amount goes back to the pool and its attempt is
\* abandoned, unless it was completed by other means.
ReleaseReservation(r) ==
  /\ available' = available + RewardMinor
  /\ reserved' = reserved - RewardMinor
  /\ rsv' = [rsv EXCEPT ![r].status = "released"]
  /\ timer' = [timer EXCEPT ![r] = Past]
  /\ SetAttempts({x \in {rsv[r].attempt} :
                    attempt[x].status \in {"in_progress", "submitted"}},
                 "abandoned")
  /\ UNCHANGED <<poolStatus, paid>>

\* As DenyAppeal, with a status the table does not have.
DenyAppeal_Status(r, a) ==
  /\ DecideAppeal(r, "denied", a)
  /\ ReleaseReservation(r)
  /\ UNCHANGED <<version, proof, posting, reading, demoPoints, ledger, bound>>

\* denyAppeal
DenyAppeal(r, a) ==
  /\ DecideAppeal(r, "rejected", a)
  /\ ReleaseReservation(r)
  /\ UNCHANGED <<version, proof, posting, reading, demoPoints, ledger, bound>>

\* reviewSubmission with an appeal decision: the rejected proof is approved.
ApproveAppeal(r, a) ==
  /\ DecideAppeal(r, "approved", a)
  /\ ApproveProofFrom("rejected", rsv[r].proof, a)
  /\ SettleApproved(rsv[r].proof)
  /\ UNCHANGED bound

-----------------------------------------------------------------------------
(* Time *)

Ticking == {r \in InStatus({"reserved", "appeal"}) : timer[r] > Past}

Tick ==
  /\ Ticking # {}
  /\ timer' = [r \in Reservations |->
                 IF r \in Ticking THEN timer[r] - 1 ELSE timer[r]]
  /\ UNCHANGED <<questVars, poolVars, bound, rsv, appeal>>

\* What the sweep of jobs/economy-reservations.ts selects.
Due(r) == rsv[r].status \in {"reserved", "appeal"} /\ timer[r] <= 0

\* A proof posted for the reservation's own attempt.
TimelyProofs(r) ==
  {s \in Proofs : proof[s].status # "none" /\ proof[s].user = rsv[r].user
                    /\ proof[s].attempt = rsv[r].attempt}

\* As Sweep, trusting the appeal status the sweep selected by.
Sweep_StaleAppeal(r) ==
  /\ Due(r)
  /\ ReleaseReservation(r)
  /\ UNCHANGED <<version, proof, posting, reading, demoPoints, ledger, bound,
                 appeal>>

\* As Sweep, sparing the reservation of a traveler with a proof under review.
Sweep_SparingPending(r) ==
  /\ Due(r)
  /\ appeal[r].status \notin {"submitted", "approved"}
  /\ ProofsIn(rsv[r].user, {"pending"}) = {}
  /\ ReleaseReservation(r)
  /\ UNCHANGED <<version, proof, posting, reading, demoPoints, ledger, bound,
                 appeal>>

\* releaseExpiredReservation, which repeats under its locks what the sweep
\* selected by.  A reserved row with a proof for its attempt is repaired
\* instead of released.
Sweep(r) ==
  /\ Due(r)
  /\ appeal[r].status \notin {"submitted", "approved"}
  /\ \/ /\ rsv[r].status = "appeal" \/ TimelyProofs(r) = {}
        /\ ReleaseReservation(r)
     \/ /\ rsv[r].status = "reserved"
        /\ \E s \in TimelyProofs(r) :
             LET rejected == proof[s].status = "rejected" IN
             /\ rsv' = [rsv EXCEPT
                  ![r].status = IF rejected THEN "appeal" ELSE "submitted",
                  ![r].proof = s]
             /\ timer' = [timer EXCEPT
                  ![r] = IF rejected THEN AppealTime ELSE Past]
        /\ UNCHANGED <<poolVars, attempt>>
  /\ UNCHANGED <<version, proof, posting, reading, demoPoints, ledger, bound,
                 appeal>>

-----------------------------------------------------------------------------

EconomyInit ==
  /\ poolStatus = "draft"
  /\ available = AllocatedMinor
  /\ reserved = 0
  /\ paid = 0
  /\ bound = {}
  /\ rsv = [r \in Reservations |->
             [status |-> "none", user |-> None, attempt |-> None,
              proof |-> None, version |-> 0]]
  /\ timer = [r \in Reservations |-> Past]
  /\ appeal = [r \in Reservations |->
                [status |-> "none", reviewer |-> None, decidedBy |-> None]]

RInit == Init /\ EconomyInit

\* The handlers of QuestAttempts that leave the economy alone.
QuestStep ==
  /\ \/ \E u \in Travelers :
          \/ poolStatus # "active" /\ StartAttempt(u)
          \/ TravelerStep(u)
     \/ AttemptReview
     \/ ReviseQuest
  /\ UNCHANGED economyVars

RNext ==
  \/ QuestStep
  \/ BindRevision
  \/ ActivatePool
  \/ \E u \in Travelers : Reserve(u) \/ CheckProofPath(u) \/ PostFundedProof(u)
  \/ \E s \in Proofs, a \in Reviewers :
       ApproveFunded(s, a) \/ RejectFunded(s, a)
  \/ \E r \in Reservations :
       \/ SubmitAppeal(r)
       \/ Sweep(r)
       \/ \E a \in Reviewers : DenyAppeal(r, a) \/ ApproveAppeal(r, a)
  \/ Tick

\* The sweep job runs every minute and releases what is due; the clock moves.
\* Travelers and reviewers are under no obligation.
Fairness ==
  /\ WF_vars(Tick)
  /\ \A r \in Reservations : WF_vars(Sweep(r))

RSpec == RInit /\ [][RNext]_vars

FairSpec == RSpec /\ Fairness
-----------------------------------------------------------------------------
(* Properties *)

\* Every row has the columns and values its table allows.
EconomyTypeOK ==
  /\ TypeOK
  /\ poolStatus \in {"draft", "active"}
  /\ available \in Int
  /\ reserved \in Int
  /\ paid \in Int
  /\ bound \subseteq Nat
  /\ rsv \in [Reservations -> ReservationRow]
  /\ timer \in [Reservations -> Int]
  /\ appeal \in [Reservations -> AppealRow]

\* The three balances of the pool are the reservations they stand for, and
\* add up to the allocation: no settlement, denial or release counts an
\* amount twice, and no path forgets to move one.
PoolMatchesReservations ==
  /\ reserved = RewardMinor * Cardinality(InStatus(ActiveStatuses))
  /\ paid = RewardMinor * Cardinality(InStatus({"paid"}))
  /\ available + reserved + paid = AllocatedMinor
  /\ available >= 0

\* A traveler has at most one claim on the scope's reward, open or paid.
OneClaimPerTraveler ==
  \A u \in Travelers : Cardinality(Held(u, ActiveStatuses \cup {"paid"})) <= 1

\* The proof a reservation waits for is in the state the reservation says,
\* posted for the reservation's own attempt; and a pending funded proof always
\* has its reservation, so that its review can move the money.
ClaimAndProofAgree ==
  /\ \A r \in Reservations :
       LET s == rsv[r].proof IN
       /\ rsv[r].status = "reserved" => TimelyProofs(r) = {}
       /\ rsv[r].status \in {"submitted", "appeal", "paid"} =>
            /\ s # None
            /\ proof[s].user = rsv[r].user
            /\ proof[s].attempt = rsv[r].attempt
            /\ proof[s].status = CASE rsv[r].status = "submitted" -> "pending"
                                   [] rsv[r].status = "appeal" -> "rejected"
                                   [] rsv[r].status = "paid" -> "approved"
  /\ \A s \in Proofs :
       proof[s].status = "pending" /\ proof[s].attempt # None =>
         \E r \in InStatus({"submitted"}) : rsv[r].proof = s

\* An appeal that waits for its decision keeps the money it is about, however
\* late the decision comes and however often the sweep runs.
OpenAppealKeepsHold ==
  \A r \in Reservations :
    /\ appeal[r].status = "submitted" => rsv[r].status = "appeal"
    /\ appeal[r].status = "approved" => rsv[r].status = "paid"
    /\ appeal[r].status = "rejected" => rsv[r].status = "released"

\* A reservation only ever promises a revision whose terms were reviewed.
ReservedRevisionReviewed ==
  \A r \in Reservations : rsv[r].status # "none" => rsv[r].version \in bound

\* A reservation loses its money in three ways only: its deadline passed with
\* no proof, the appeal window of its rejected proof passed with no appeal, or
\* an independent reviewer denied the appeal.
ReleasedForCause ==
  [][\A r \in Reservations :
       rsv[r].status # "released" /\ rsv'[r].status = "released" =>
         \/ rsv[r].status = "reserved" /\ timer[r] <= 0
         \/ rsv[r].status = "appeal" /\ timer[r] <= 0
              /\ appeal[r].status = "none"
         \/ rsv[r].status = "appeal" /\ appeal'[r].status = "rejected"
              /\ appeal'[r].decidedBy \notin {rsv[r].user, Author,
                                              proof[rsv[r].proof].reviewer}
    ]_vars

\* A claim that ended stays ended, with the terms it was made on; and a proof
\* once rejected is approved only together with the payment of its claim.
EndedClaimsStand ==
  [][/\ \A r \in Reservations :
          rsv[r].status \in {"paid", "released"} => rsv'[r] = rsv[r]
     /\ \A s \in Proofs :
          proof[s].status = "rejected" /\ proof'[s].status = "approved" =>
            \E r \in InStatus({"appeal"}) :
              rsv[r].proof = s /\ rsv'[r].status = "paid"
    ]_vars

\* Both: a claim ends once, and not without a reason.
ClaimsEndForCause == ReleasedForCause /\ EndedClaimsStand

\* A proof no review can decide: the traveler's reservation is held for
\* something else, and both approving and rejecting roll back.
Undecidable(s) ==
  /\ proof[s].status = "pending"
  /\ \E r \in Held(proof[s].user, {"reserved", "submitted"}) : rsv[r].proof # s

Unclaimed(r) ==
  \/ rsv[r].status = "reserved"
  \/ rsv[r].status = "appeal" /\ appeal[r].status = "none"

\* Money reserved for a traveler who never submits, or held for an appeal
\* nobody files, is not held forever.
ReservationsResolve == \A r \in Reservations : Unclaimed(r) ~> ~Unclaimed(r)

\* A pending proof that the traveler's own reservation keeps from being
\* decided becomes decidable again.
ProofsBecomeDecidable ==
  \A s \in Proofs : Undecidable(s) ~> ~Undecidable(s)

\* Both: neither money nor a proof waits forever for a traveler who is gone.
ClaimsProgress == ReservationsResolve /\ ProofsBecomeDecidable

\* What the pool promises, without attempts, proofs, appeals or clocks.
Escrow == INSTANCE RewardEscrow WITH
  Claimants <- Travelers,
  Reward <- RewardMinor,
  Allocated <- AllocatedMinor,
  free <- available,
  holding <- {rsv[r].user : r \in InStatus(ActiveStatuses)},
  settled <- {rsv[r].user : r \in InStatus({"paid"})}

EscrowSpec == Escrow!Spec
=============================================================================
