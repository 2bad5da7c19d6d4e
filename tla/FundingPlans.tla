----------------------------- MODULE FundingPlans -----------------------------
(***************************************************************************)
(* The funding rounds of one quest (quest_funding_plans): its author and a *)
(* sponsoring merchant commit points to a round, each traveler who starts  *)
(* the quest has the reward and the fee held from them, and a hold is paid *)
(* on approval or released; a round that ends returns what is left.        *)
(*                                                                         *)
(* Every command runs under the governance snapshot lock (fundingCommand)  *)
(* and is one action; a replayed idempotency key changes nothing.  Only    *)
(* submit-for-review and complete read before they take the lock:          *)
(* reading[u] is the attempt they read.                                    *)
(*                                                                         *)
(* Each hold is inserted with its attempt and names it alone, so row h of  *)
(* hold is both.  budget[r] and onHold[r] are the accounts quest_budget:r  *)
(* and quest_hold:r; wallet is the author's demo_points and the merchant's *)
(* account.  The quest's version does not change after a round is created, *)
(* and all accounts are of one scope.                                      *)
(***************************************************************************)
EXTENDS Integers, FiniteSets, FiniteSetsExt

CONSTANTS
  Travelers,     \* users who attempt the quest
  Holds,         \* row ids of quest_funding_holds, and of their attempts
  Vouchers,      \* the merchant's vouchers
  None,          \* SQL NULL
  Reward,        \* quests.reward_points
  FeeBps,        \* quest_funding_fee_bps
  Terms,         \* plan terms an author may ask for
  Offers,        \* sponsorship terms a merchant may be asked for or counter
  Amounts,       \* points of a contribution or a top-up
  Wallets,       \* what the author and the merchant start with
  HoldTtl,       \* funding_hold_ttl_hours
  Grace,         \* the 24 hours a hold may outlive its round
  SponsorDays,   \* sponsorship_deadline_days
  MaxRound,      \* bound: rounds of the quest
  MaxTime        \* bound: the clock

ASSUME HoldsAreFinite == IsFiniteSet(Holds)
ASSUME NoneIsNoRow == None \notin Holds \cup Vouchers
ASSUME PointsAreNat == Reward \in Nat /\ FeeBps \in Nat /\ Amounts \subseteq Nat
ASSUME TimesAreNat ==
  HoldTtl \in Nat /\ Grace \in Nat /\ SponsorDays \in Nat /\ MaxTime \in Nat
ASSUME TermsAreTyped ==
  Terms \subseteq [mode : {"budget", "window"}, completions : Nat \ {0},
                   starts : Nat, ends : Nat]
ASSUME OffersAreTyped ==
  Offers \subseteq [points : Nat, voucher : Vouchers \cup {None}]

Rounds == 1..MaxRound
Funders == {"author", "merchant"}

ASSUME WalletsAreTyped == Wallets \in [Funders -> Nat]

VARIABLES
  now,           \* the clock
  plan,          \* quest_funding_plans
  contribution,  \* quest_funding_contributions, by round and funder
  sponsorship,   \* the open or accepted quest_sponsorships row of each round
  wallet,        \* the funders' own balances
  budget,        \* balance of the round's quest_budget account
  onHold,        \* balance of the round's quest_hold account
  hold,          \* quest_funding_holds with their quest_attempts
  proof,         \* each traveler's latest submission
  redeemed,      \* redemptions: who has which voucher
  reading        \* the attempt a submit or complete request read, unlocked

books == <<contribution, wallet, budget, onHold>>
fundingVars == <<now, redeemed, plan, sponsorship, books, hold, proof, reading>>

OpenStates == {"draft", "pending_sponsors", "scheduled", "active", "closing"}
Terminal == {"closed", "expired", "cancelled"}

PlanRow == [status : OpenStates \cup Terminal \cup {"none"},
            mode : {"budget", "window"}, target : Nat,
            starts : Nat, ends : Nat, deadline : Nat]

Points == [Funders -> Nat]

ContributionRow == [committed : Int, remaining : Int, held : Int,
                    reward : Int, fee : Int, refunded : Int]

SponsorshipRow == [status : {"none", "requested", "countered", "accepted"},
                   asked : [points : Nat, voucher : Vouchers \cup {None}],
                   countered : [points : Nat, voucher : Vouchers \cup {None}],
                   perks : Nat, granted : Nat, expires : Nat]

HoldRow == [status : {"none", "held", "paid", "released"},
            attempt : {"none", "in_progress", "submitted", "completed",
                       "abandoned"},
            round : Rounds \cup {0}, user : Travelers \cup {None},
            reward : Points, fee : Points, expires : Nat]

NoOffer == [points |-> 0, voucher |-> None]

\* No request, or only requests declined, withdrawn or expired, which are
\* not read again.
NoSponsorship == [status |-> "none", asked |-> NoOffer, countered |-> NoOffer,
                  perks |-> 0, granted |-> 0, expires |-> 0]

ProofRow == [status : {"none", "pending", "approved", "rejected"},
             hold : Holds \cup {None}, at : Nat]

-----------------------------------------------------------------------------
(* Amounts *)

\* feeForReward: whole points round up.
Fee == (Reward * FeeBps + 9999) \div 10000

Cost == Reward + Fee

\* targetForCompletions
Target(completions) == Cost * completions

Both(points) == points["author"] + points["merchant"]

NoPoints == [f \in Funders |-> 0]

\* The floor of the proportional share.
Share(total, capacity, f) == (total * capacity[f]) \div Both(capacity)

Remainder(total, capacity, f) == (total * capacity[f]) % Both(capacity)

\* allocatePoints: largest remainder; ties go to the older contribution.
Allocate(total, capacity, older) ==
  IF total = 0 THEN NoPoints
  ELSE LET left == total - Share(total, capacity, "author")
                         - Share(total, capacity, "merchant")
           Precedes(f, g) ==
             \/ Remainder(total, capacity, f) > Remainder(total, capacity, g)
             \/ /\ Remainder(total, capacity, f) = Remainder(total, capacity, g)
                /\ f = older
           Ahead(f) == {g \in Funders \ {f} :
                          /\ Share(total, capacity, g) < capacity[g]
                          /\ Precedes(g, f)}
       IN [f \in Funders |->
             Share(total, capacity, f)
               + IF /\ Share(total, capacity, f) < capacity[f]
                    /\ Cardinality(Ahead(f)) < left
                 THEN 1 ELSE 0]

\* The check allocatePoints makes of its own result.
Distributed(total, capacity, points) ==
  /\ points \in Points
  /\ Both(points) = total
  /\ \A f \in Funders : points[f] <= capacity[f]

-----------------------------------------------------------------------------
(* Reading the tables *)

Latest(r) ==
  /\ plan[r].status # "none"
  /\ \A s \in Rounds : s > r => plan[s].status = "none"

HeldBy(u) == {h \in Holds : hold[h].status = "held" /\ hold[h].user = u}
HeldIn(r) == {h \in Holds : hold[h].status = "held" /\ hold[h].round = r}

AttemptsOf(u, statuses) ==
  {h \in Holds : hold[h].user = u /\ hold[h].attempt \in statuses}

HasCompletedQuest(u) ==
  proof[u].status = "approved" \/ AttemptsOf(u, {"completed"}) # {}

\* Mutant: an attempt sent back is no longer in review, its proof forgotten.
HasPendingReview_AttemptOnly(h) == hold[h].attempt = "submitted"

HasPendingReview(h) ==
  \/ hold[h].attempt = "submitted"
  \/ \E u \in Travelers : hold[h].user = u /\ proof[u].status = "pending"

Expired(h) == hold[h].expires <= now

\* requireFundingHold
RequireFundingHold(u) ==
  \E h \in HeldBy(u) : ~Expired(h) \/ hold[h].attempt = "submitted"

\* What releasing the holds gives back; movePoints takes whole points only.
FreedBy(hs) ==
  {[f \in Funders |-> MapThenSumSet(LAMBDA h : hold[h].reward[f] + hold[h].fee[f], hs)]}
    \cap Points

-----------------------------------------------------------------------------
(* Writing the tables *)

\* The contributions after `freed` points are no longer held.
Returned(c, freed) ==
  [f \in Funders |-> [c[f] EXCEPT !.remaining = @ + freed[f],
                                  !.held = @ - freed[f]]]

\* ... and after `points` more are.
Charged(c, points) ==
  [f \in Funders |-> [c[f] EXCEPT !.remaining = @ - points[f],
                                  !.held = @ + points[f]]]

\* The contributions after finalizePlan.
Refunded(c) ==
  [f \in Funders |-> [c[f] EXCEPT !.remaining = 0,
                                  !.refunded = @ + c[f].remaining]]

Remaining(c) == [f \in Funders |-> c[f].remaining]

\* Mutant: the refunds are computed from the contributions read before the
\* release.
Settle_StaleRefund(r, c, freed, closes) ==
  LET locked == plan[r].mode = "budget"
      refund == IF closes THEN Remaining(contribution[r]) ELSE NoPoints
  IN
  /\ contribution' = [contribution EXCEPT ![r] = IF closes THEN Refunded(c) ELSE c]
  /\ wallet' = [f \in Funders |->
                  wallet[f] + IF locked THEN refund[f] ELSE freed[f]]
  /\ budget' = IF locked
               THEN [budget EXCEPT ![r] = @ + Both(freed) - Both(refund)]
               ELSE budget

\* The books of round r once its contributions have become c, `freed` points
\* have left its hold account for the budget or, in window mode, for the
\* funders, and, if it closes, finalizePlan has paid the refunds.
Settle(r, c, freed, closes) ==
  LET locked == plan[r].mode = "budget"
      refund == IF closes THEN Remaining(c) ELSE NoPoints
  IN
  /\ contribution' = [contribution EXCEPT ![r] = IF closes THEN Refunded(c) ELSE c]
  /\ wallet' = [f \in Funders |->
                  wallet[f] + IF locked THEN refund[f] ELSE freed[f]]
  /\ budget' = IF locked
               THEN [budget EXCEPT ![r] = @ + Both(freed) - Both(refund)]
               ELSE budget

\* finalizePlan closes the plan unless a hold is still held.
Finalizable(r, resolved) == HeldIn(r) \subseteq resolved

SetPlan(r, status) == plan' = [plan EXCEPT ![r].status = status]

\* finalizePlan expires the sponsorships that are still open.
ExpireSponsorship(r, closes) ==
  sponsorship' =
    IF closes /\ sponsorship[r].status \in {"requested", "countered"}
    THEN [sponsorship EXCEPT ![r] = NoSponsorship] ELSE sponsorship

\* The hold is resolved; its amounts and its expiry are not read again.
Resolved(h, status, attempt) ==
  [hold[h] EXCEPT !.status = status, !.attempt = attempt,
                  !.reward = NoPoints, !.fee = NoPoints, !.expires = 0]

\* releaseFundingHold: the attempt is abandoned if it is in progress.
Released(hs) ==
  [h \in Holds |->
     IF h \in hs
     THEN Resolved(h, "released", IF hold[h].attempt = "in_progress"
                                  THEN "abandoned" ELSE hold[h].attempt)
     ELSE hold[h]]

\* A reviewed proof; the rest of its row is not read again.
Reviewed(status) == [status |-> status, hold |-> None, at |-> 0]

SetAttempt(h, status) == hold' = [hold EXCEPT ![h].attempt = status]

-----------------------------------------------------------------------------
(* The author's commands *)

\* validateWindow
ValidWindow(terms) == terms.ends > now /\ terms.ends > terms.starts

\* create: the quest has no open round and nothing unfinished.
CreatePlan(r, terms) ==
  /\ plan[r].status = "none"
  /\ \A s \in Rounds : s < r => plan[s].status \in Terminal
  /\ \A h \in Holds : hold[h].attempt \notin {"in_progress", "submitted"}
  /\ \A u \in Travelers : proof[u].status # "pending"
  /\ ValidWindow(terms)
  /\ plan' = [plan EXCEPT ![r] =
       [status |-> "draft", mode |-> terms.mode,
        target |-> Target(terms.completions), starts |-> terms.starts,
        ends |-> terms.ends, deadline |-> 0]]
  /\ UNCHANGED <<now, redeemed, sponsorship, books, hold, proof, reading>>

\* update: a draft keeps its mode once something was contributed.
UpdatePlan(r, terms) ==
  /\ plan[r].status = "draft"
  /\ ValidWindow(terms)
  /\ (\E f \in Funders : contribution[r][f].committed > 0)
       => terms.mode = plan[r].mode
  /\ plan' = [plan EXCEPT ![r] =
       [@ EXCEPT !.mode = terms.mode, !.target = Target(terms.completions),
                 !.starts = terms.starts, !.ends = terms.ends]]
  /\ UNCHANGED <<now, redeemed, sponsorship, books, hold, proof, reading>>

\* activateIfFunded, for a plan row that is pending: refused once the round
\* or its deadline has ended, left pending short of the target.
Activated(row, c) ==
  IF c["author"].committed + c["merchant"].committed < row.target THEN row
  ELSE [row EXCEPT !.status = IF row.starts <= now THEN "active" ELSE "scheduled"]

ActivateIfFunded(r, row, c) ==
  /\ row.ends > now /\ row.deadline > now
  /\ plan' = [plan EXCEPT ![r] = Activated(row, c)]

\* A contribution or its increase; only a budget locks the points.
Commit(r, f, points) ==
  /\ wallet[f] >= points + IF plan[r].mode = "window"
                           THEN contribution[r][f].remaining ELSE 0
  /\ contribution' = [contribution EXCEPT
       ![r][f].committed = @ + points, ![r][f].remaining = @ + points]
  /\ IF plan[r].mode = "budget"
     THEN /\ wallet' = [wallet EXCEPT ![f] = @ - points]
          /\ budget' = [budget EXCEPT ![r] = @ + points]
     ELSE UNCHANGED <<wallet, budget>>
  /\ UNCHANGED onHold

\* contribute
Contribute(r, points) ==
  /\ plan[r].status \in {"draft", "pending_sponsors", "active"}
  /\ points > 0
  /\ Commit(r, "author", points)
  /\ IF plan[r].status = "pending_sponsors"
     THEN ActivateIfFunded(r, plan[r], contribution'[r])
     ELSE UNCHANGED plan
  /\ UNCHANGED <<now, redeemed, sponsorship, hold, proof, reading>>

\* submit
SubmitPlan(r) ==
  /\ plan[r].status = "draft"
  /\ plan[r].ends > now
  /\ ActivateIfFunded(r, [plan[r] EXCEPT !.status = "pending_sponsors",
                                         !.deadline = now + SponsorDays],
                      contribution[r])
  /\ UNCHANGED <<now, redeemed, sponsorship, books, hold, proof, reading>>

\* close, by the author or an admin.
ClosePlan(r) ==
  LET closes == Finalizable(r, {}) IN
  /\ plan[r].status \in {"active", "closing"}
  /\ SetPlan(r, IF closes THEN "closed" ELSE "closing")
  /\ Settle(r, contribution[r], NoPoints, closes)
  /\ ExpireSponsorship(r, closes)
  /\ UNCHANGED <<now, redeemed, onHold, hold, proof, reading>>

\* cancel
CancelPlan(r) ==
  LET closes == Finalizable(r, {}) IN
  /\ plan[r].status \in {"draft", "pending_sponsors", "scheduled"}
  /\ SetPlan(r, IF closes THEN "cancelled" ELSE plan[r].status)
  /\ Settle(r, contribution[r], NoPoints, closes)
  /\ ExpireSponsorship(r, closes)
  /\ UNCHANGED <<now, redeemed, onHold, hold, proof, reading>>

\* extend
ExtendPlan(r, ends) ==
  /\ plan[r].status \in {"active", "scheduled"}
  /\ ends > plan[r].ends
  /\ ValidWindow([plan[r] EXCEPT !.ends = ends])
  /\ plan' = [plan EXCEPT ![r].ends = ends]
  /\ UNCHANGED <<now, redeemed, sponsorship, books, hold, proof, reading>>

-----------------------------------------------------------------------------
(* Sponsorships *)

Sponsorable(r) == plan[r].status \in {"pending_sponsors", "active"}

\* request: one open or accepted sponsorship of the merchant per round.
RequestSponsor(r, offer) ==
  /\ Sponsorable(r)
  /\ sponsorship[r].status = "none"
  /\ sponsorship' = [sponsorship EXCEPT ![r] =
       [NoSponsorship EXCEPT !.status = "requested", !.asked = offer,
          !.expires = IF plan[r].status = "pending_sponsors"
                      THEN plan[r].deadline ELSE plan[r].ends]]
  /\ UNCHANGED <<now, redeemed, plan, books, hold, proof, reading>>

\* counter
CounterOffer(r, offer) ==
  /\ sponsorship[r].status = "requested"
  /\ Sponsorable(r)
  /\ sponsorship[r].expires > now
  /\ sponsorship' = [sponsorship EXCEPT ![r] =
       [@ EXCEPT !.status = "countered", !.countered = offer]]
  /\ UNCHANGED <<now, redeemed, plan, books, hold, proof, reading>>

\* acceptTerms: `perks` vouchers are promised, of the voucher the request
\* named, which must be the merchant's.
AcceptTerms(r, points, perks) ==
  /\ Sponsorable(r)
  /\ sponsorship[r].expires > now
  /\ perks > 0 => sponsorship[r].asked.voucher # None
  /\ IF points > 0 THEN Commit(r, "merchant", points) ELSE UNCHANGED books
  /\ sponsorship' = [sponsorship EXCEPT ![r] =
       [NoSponsorship EXCEPT !.status = "accepted", !.perks = perks,
          !.asked.voucher = IF perks > 0 THEN sponsorship[r].asked.voucher
                            ELSE None]]
  /\ IF plan[r].status = "pending_sponsors"
     THEN ActivateIfFunded(r, plan[r], contribution'[r])
     ELSE UNCHANGED plan
  /\ UNCHANGED <<now, redeemed, hold, proof, reading>>

Perks(offer) == IF offer.voucher = None THEN 0 ELSE 1

\* accept, by the merchant.
AcceptSponsor(r) ==
  /\ sponsorship[r].status = "requested"
  /\ AcceptTerms(r, sponsorship[r].asked.points, Perks(sponsorship[r].asked))

\* accept_counter, by the author.
AcceptCounter(r) ==
  /\ sponsorship[r].status = "countered"
  /\ AcceptTerms(r, sponsorship[r].countered.points,
                 Perks(sponsorship[r].countered))

\* decline or withdraw
DecideSponsor(r) ==
  /\ sponsorship[r].status \in {"requested", "countered"}
  /\ sponsorship[r].expires > now
  /\ sponsorship' = [sponsorship EXCEPT ![r] = NoSponsorship]
  /\ UNCHANGED <<now, redeemed, plan, books, hold, proof, reading>>

\* topUp: by a sponsor that already contributed points.
TopUp(r, points) ==
  /\ plan[r].status = "active" /\ plan[r].ends > now
  /\ sponsorship[r].status = "accepted"
  /\ contribution[r]["merchant"].committed > 0
  /\ points > 0
  /\ Commit(r, "merchant", points)
  /\ UNCHANGED <<now, redeemed, plan, sponsorship, hold, proof, reading>>

\* A funder spends points elsewhere, which a window does not lock.  What is
\* spent in a round that locks them only makes a commitment fail.
SpendElsewhere(f, points) ==
  /\ wallet[f] >= points /\ points > 0
  /\ \E r \in Rounds : plan[r].mode = "window" /\ plan[r].status = "active"
  /\ wallet' = [wallet EXCEPT ![f] = @ - points]
  /\ UNCHANGED <<now, redeemed, plan, sponsorship, contribution, budget, onHold,
                 hold, proof, reading>>

\* A traveler redeems a voucher with points of their own, once.
RedeemVoucher(u, v) ==
  /\ <<u, v>> \notin redeemed
  /\ redeemed' = redeemed \cup {<<u, v>>}
  /\ UNCHANGED <<now, plan, sponsorship, books, hold, proof, reading>>

-----------------------------------------------------------------------------
(* Holds *)

NextHold == {h \in Holds : hold[h].status = "none"}

\* The traveler's own hold that a start may replace: expired, not in review.
Replaceable(r, u) ==
  LET mine == HeldBy(u) \cap HeldIn(r) IN
  IF \A h \in mine : Expired(h) /\ ~HasPendingReview(h) THEN {mine} ELSE {}

\* What a funder can still cover, given the books after a release.
Capacity(r, c, freed) ==
  [f \in Funders |->
     IF plan[r].mode = "budget" THEN c[f].remaining
     ELSE LET live == wallet[f] + freed[f] IN
          IF live < c[f].remaining THEN live ELSE c[f].remaining]

\* The checks of startFundedAttempt.
MayStart(r, u) ==
  /\ Latest(r)
  /\ ~HasCompletedQuest(u)
  /\ plan[r].status = "active"
  /\ plan[r].starts <= now /\ now < plan[r].ends

\* The row inserted for a reward that takes `points` of the funders, the fee
\* among them.
HeldFor(r, u, points, fee) ==
  [status |-> "held", attempt |-> "in_progress", round |-> r, user |-> u, fee |-> fee,
   reward |-> [f \in Funders |-> points[f] - fee[f]],
   expires |-> IF now + HoldTtl < plan[r].ends + Grace
               THEN now + HoldTtl ELSE plan[r].ends + Grace]

\* ... once the traveler's lapsed hold is released: the funders' shares are
\* those of what each can cover.
HoldReward(r, u, lapsed, freed, older) ==
  LET c == Returned(contribution[r], freed)
      capacity == Capacity(r, c, freed)
      points == Allocate(Cost, capacity, older)
      fee == Allocate(Fee, points, older)
      spent == [f \in Funders |-> freed[f] - points[f]]
  IN
  /\ Both(capacity) >= Cost
  /\ Distributed(Cost, capacity, points)
  /\ Distributed(Fee, points, fee)
  /\ hold' = [Released(lapsed) EXCEPT
       ![CHOOSE h \in NextHold : TRUE] = HeldFor(r, u, points, fee)]
  /\ Settle(r, Charged(c, points), spent, FALSE)
  /\ onHold' = [onHold EXCEPT ![r] = @ - Both(spent)]
  /\ IF plan[r].mode = "budget" /\ Both(capacity) - Cost < Cost
     THEN SetPlan(r, "closing") ELSE UNCHANGED plan

\* startFundedAttempt: the reward and the fee are held from the funders in
\* proportion to what they can cover, and the attempt is inserted;
\* idx_active_quest_attempt refuses a second one in progress.  An active
\* budget can always pay (ActiveBudgetsCanPay), so the branch that closes one
\* that cannot is left out.
StartFundedAttempt(r, u) ==
  /\ MayStart(r, u)
  /\ NextHold # {}
  /\ \E lapsed \in Replaceable(r, u) :
       /\ AttemptsOf(u, {"in_progress"}) \subseteq lapsed
       /\ \E freed \in FreedBy(lapsed), older \in Funders :
            HoldReward(r, u, lapsed, freed, older)
  /\ UNCHANGED <<now, redeemed, sponsorship, proof, reading>>

\* abandonFundedAttempt
AbandonFundedAttempt(h) ==
  /\ hold[h].status = "held"
  /\ ~HasPendingReview(h)
  /\ \E freed \in FreedBy({h}) :
       LET r == hold[h].round
           closes == plan[r].status = "closing" /\ Finalizable(r, {h})
       IN
       /\ hold' = Released({h})
       /\ Settle(r, Returned(contribution[r], freed), freed, closes)
       /\ onHold' = [onHold EXCEPT ![r] = @ - Both(freed)]
       /\ SetPlan(r, IF closes THEN "closed" ELSE plan[r].status)
       /\ ExpireSponsorship(r, closes)
  /\ UNCHANGED <<now, redeemed, proof, reading>>

\* The round still has a promised voucher to give.
PerkDue(r) ==
  /\ sponsorship[r].status = "accepted"
  /\ sponsorship[r].granted < sponsorship[r].perks

\* settleFundingHold: the traveler is paid from the hold, which has not
\* expired or was submitted in time, and granted a promised voucher;
\* uq_redemptions_user_voucher refuses one the traveler already has, and
\* with it the payment.
PayHold(h) ==
  LET r == hold[h].round
      perk == <<hold[h].user, sponsorship[r].asked.voucher>>
      c == [f \in Funders |-> [contribution[r][f] EXCEPT
              !.held = @ - hold[h].reward[f] - hold[h].fee[f],
              !.reward = @ + hold[h].reward[f], !.fee = @ + hold[h].fee[f]]]
      closes == plan[r].status = "closing" /\ Finalizable(r, {h})
      granted == IF PerkDue(r)
                 THEN [sponsorship EXCEPT ![r].granted = @ + 1] ELSE sponsorship
  IN
  /\ hold[h].status = "held"
  /\ PerkDue(r) => perk \notin redeemed
  /\ redeemed' = IF PerkDue(r) THEN redeemed \cup {perk} ELSE redeemed
  /\ hold' = [hold EXCEPT ![h] = Resolved(h, "paid", "completed")]
  /\ Settle(r, c, NoPoints, closes)
  /\ onHold' = [onHold EXCEPT ![r] = @ - Both(hold[h].reward) - Both(hold[h].fee)]
  /\ SetPlan(r, IF closes THEN "closed" ELSE plan[r].status)
  /\ sponsorship' =
       IF closes /\ granted[r].status \in {"requested", "countered"}
       THEN [granted EXCEPT ![r] = NoSponsorship] ELSE granted

-----------------------------------------------------------------------------
(* Proofs and reviews of a funded quest *)

\* createSubmission under the lock: the proof is tied to an unexpired hold,
\* whose attempt is now in review.
PostProof(u) ==
  /\ proof[u].status \notin {"pending", "approved"}
  /\ \E h \in HeldBy(u) :
       /\ ~Expired(h)
       /\ proof' = [proof EXCEPT ![u] =
                      [status |-> "pending", hold |-> h, at |-> now]]
       /\ SetAttempt(h, "submitted")
  /\ UNCHANGED <<now, redeemed, plan, sponsorship, books, reading>>

\* submit-for-review and complete: the attempt is looked up first.
ReadAttempt(u) ==
  /\ reading[u] = None
  /\ \E h \in AttemptsOf(u, {"in_progress"}) :
       reading' = [reading EXCEPT ![u] = h]
  /\ UNCHANGED <<now, redeemed, plan, sponsorship, books, hold, proof>>

\* submit-for-review: any held reward of the traveler will do, and the
\* attempt read before is submitted whatever its status has become.
SubmitAttempt(u) ==
  /\ reading[u] # None
  /\ RequireFundingHold(u)
  /\ SetAttempt(reading[u], "submitted")
  /\ reading' = [reading EXCEPT ![u] = None]
  /\ UNCHANGED <<now, redeemed, plan, sponsorship, books, proof>>

\* A request that is refused or cut off after its read.
DropRequest(u) ==
  /\ reading[u] # None
  /\ reading' = [reading EXCEPT ![u] = None]
  /\ UNCHANGED <<now, redeemed, plan, sponsorship, books, hold, proof>>

\* complete, when instantRewardEligible.  An attempt other than the hold's
\* cannot be completed beside it (idx_quest_attempts_single_completion).
CompleteAttempt(u) ==
  LET h == reading[u] IN
  /\ h \in HeldBy(u)
  /\ ~HasCompletedQuest(u)
  /\ ~Expired(h) \/ hold[h].attempt = "submitted"
  /\ PayHold(h)
  /\ reading' = [reading EXCEPT ![u] = None]
  /\ UNCHANGED <<now, proof>>

\* PATCH /admin/quest-attempts/:id, approve.
ApproveAttempt(h) ==
  /\ hold[h].attempt = "submitted"
  /\ ~HasCompletedQuest(hold[h].user)
  /\ PayHold(h)
  /\ UNCHANGED <<now, proof, reading>>

\* request_changes and reject: whatever its status, the attempt of a funded
\* quest is in progress again, if the traveler has no other in progress.
ReopenAttempt(h) ==
  /\ hold[h].attempt # "none"
  /\ AttemptsOf(hold[h].user, {"in_progress"}) \subseteq {h}
  /\ SetAttempt(h, "in_progress")
  /\ UNCHANGED <<now, redeemed, plan, sponsorship, books, proof, reading>>

\* reviewSubmission, approve: the traveler's held reward is paid.  Another
\* attempt in progress would be completed beside it, which the index refuses.
ApproveProof(u) ==
  /\ proof[u].status = "pending"
  /\ AttemptsOf(u, {"completed"}) = {}
  /\ \E h \in HeldBy(u) :
       /\ \/ ~Expired(h)
          \/ hold[h].attempt = "submitted"
          \/ proof[u].at <= hold[h].expires
       /\ AttemptsOf(u, {"in_progress"}) \subseteq {h}
       /\ PayHold(h)
  /\ proof' = [proof EXCEPT ![u] = Reviewed("approved")]
  /\ UNCHANGED <<now, reading>>

\* Mutant: the attempt gets the status of the proof.
RejectProof_ProofStatus(u) ==
  LET h == proof[u].hold IN
  /\ proof[u].status = "pending"
  /\ proof' = [proof EXCEPT ![u] = Reviewed("rejected")]
  /\ IF hold[h].status = "held"
     THEN SetAttempt(h, "rejected")
     ELSE UNCHANGED hold
  /\ UNCHANGED <<now, redeemed, plan, sponsorship, books, reading>>

\* reviewSubmission, reject: the proof's hold stays for another proof.
RejectProof(u) ==
  LET h == proof[u].hold IN
  /\ proof[u].status = "pending"
  /\ proof' = [proof EXCEPT ![u] = Reviewed("rejected")]
  /\ IF hold[h].status = "held"
     THEN /\ AttemptsOf(u, {"in_progress"}) \subseteq {h}
          /\ SetAttempt(h, "in_progress")
     ELSE UNCHANGED hold
  /\ UNCHANGED <<now, redeemed, plan, sponsorship, books, reading>>

-----------------------------------------------------------------------------
(* The funding scheduler *)

\* The expired holds of the round that are not in review.
Lapsed(r) == {h \in HeldIn(r) : Expired(h) /\ ~HasPendingReview(h)}

PendingIsOver(r) ==
  /\ plan[r].status = "pending_sponsors"
  /\ plan[r].deadline <= now \/ plan[r].ends <= now

WindowIsOver(r) ==
  plan[r].status \in {"active", "scheduled"} /\ plan[r].ends <= now

MayOpen(r) == plan[r].status = "scheduled" /\ plan[r].starts <= now

\* Mutant: plans are selected by their own times alone.
Due_ByPlanTimes(r) == PendingIsOver(r) \/ WindowIsOver(r) \/ MayOpen(r)

\* The plans runFundingScheduler looks at that it has something to do for.
Due(r) ==
  \/ PendingIsOver(r) \/ WindowIsOver(r) \/ MayOpen(r)
  \/ plan[r].status = "closing" /\ Finalizable(r, Lapsed(r))
  \/ Lapsed(r) # {}

\* Where the plan of the round goes, the lapsed holds being released.
NextStatus(r) ==
  CASE PendingIsOver(r) ->
         IF Finalizable(r, Lapsed(r)) THEN "expired" ELSE plan[r].status
    [] WindowIsOver(r) \/ plan[r].status = "closing" ->
         IF Finalizable(r, Lapsed(r)) THEN "closed" ELSE "closing"
    [] MayOpen(r) /\ ~WindowIsOver(r) -> "active"
    [] OTHER -> plan[r].status

\* runFundingScheduler, for one plan: the quest has no other that is due.
RunFundingScheduler(r) ==
  LET closes == NextStatus(r) \in Terminal /\ plan[r].status \in OpenStates IN
  /\ Due(r)
  /\ \E freed \in FreedBy(Lapsed(r)) :
       /\ hold' = Released(Lapsed(r))
       /\ Settle(r, Returned(contribution[r], freed), freed, closes)
       /\ onHold' = [onHold EXCEPT ![r] = @ - Both(freed)]
  /\ SetPlan(r, NextStatus(r))
  /\ ExpireSponsorship(r, closes)
  /\ UNCHANGED <<now, redeemed, proof, reading>>

Tick ==
  /\ now < MaxTime
  /\ now' = now + 1
  /\ UNCHANGED <<redeemed, plan, sponsorship, books, hold, proof, reading>>

-----------------------------------------------------------------------------

NoContribution == [committed |-> 0, remaining |-> 0, held |-> 0, reward |-> 0,
                   fee |-> 0, refunded |-> 0]

NoHold == [status |-> "none", attempt |-> "none", round |-> 0, user |-> None,
           reward |-> NoPoints, fee |-> NoPoints, expires |-> 0]

Init ==
  /\ now = 0
  /\ plan = [r \in Rounds |-> [status |-> "none", mode |-> "budget",
              target |-> 0, starts |-> 0, ends |-> 0, deadline |-> 0]]
  /\ contribution = [r \in Rounds |-> [f \in Funders |-> NoContribution]]
  /\ sponsorship = [r \in Rounds |-> NoSponsorship]
  /\ wallet = Wallets
  /\ budget = [r \in Rounds |-> 0]
  /\ onHold = [r \in Rounds |-> 0]
  /\ hold = [h \in Holds |-> NoHold]
  /\ proof = [u \in Travelers |-> Reviewed("none")]
  /\ redeemed = {}
  /\ reading = [u \in Travelers |-> None]

AuthorStep(r) ==
  \/ \E terms \in Terms : CreatePlan(r, terms) \/ UpdatePlan(r, terms)
  \/ \E points \in Amounts : Contribute(r, points)
  \/ SubmitPlan(r) \/ ClosePlan(r) \/ CancelPlan(r)
  \/ \E ends \in 1..MaxTime : ExtendPlan(r, ends)

SponsorStep(r) ==
  \/ \E offer \in Offers : RequestSponsor(r, offer) \/ CounterOffer(r, offer)
  \/ AcceptSponsor(r) \/ AcceptCounter(r)
  \/ DecideSponsor(r)
  \/ \E points \in Amounts : TopUp(r, points)

TravelerStep(u) ==
  \/ \E r \in Rounds : StartFundedAttempt(r, u)
  \/ PostProof(u) \/ ReadAttempt(u) \/ SubmitAttempt(u) \/ DropRequest(u)
  \/ CompleteAttempt(u)

ReviewStep ==
  \/ \E h \in Holds : ApproveAttempt(h) \/ ReopenAttempt(h)
  \/ \E u \in Travelers : ApproveProof(u) \/ RejectProof(u)

Next ==
  \/ \E r \in Rounds : AuthorStep(r) \/ SponsorStep(r) \/ RunFundingScheduler(r)
  \/ \E f \in Funders, points \in Amounts : SpendElsewhere(f, points)
  \/ \E u \in Travelers : TravelerStep(u)
  \/ \E u \in Travelers, v \in Vouchers : RedeemVoucher(u, v)
  \/ \E h \in Holds : AbandonFundedAttempt(h)
  \/ ReviewStep
  \/ Tick

Spec == Init /\ [][Next]_fundingVars

\* The scheduler runs every minute; time passes.
Fairness ==
  /\ \A r \in Rounds : WF_fundingVars(RunFundingScheduler(r))
  /\ WF_fundingVars(Tick)

FairSpec == Spec /\ Fairness

-----------------------------------------------------------------------------
(* Properties *)

\* Every row has the columns and values its table allows.
TypeOK ==
  /\ now \in Nat
  /\ plan \in [Rounds -> PlanRow]
  /\ contribution \in [Rounds -> [Funders -> ContributionRow]]
  /\ sponsorship \in [Rounds -> SponsorshipRow]
  /\ wallet \in [Funders -> Int]
  /\ budget \in [Rounds -> Int]
  /\ onHold \in [Rounds -> Int]
  /\ hold \in [Holds -> HoldRow]
  /\ proof \in [Travelers -> ProofRow]
  /\ redeemed \subseteq Travelers \X Vouchers
  /\ reading \in [Travelers -> Holds \cup {None}]

\* reconcile.ts: what a funder committed to a round is still there, held,
\* paid or refunded.
ContributionsAccounted ==
  \A r \in Rounds, f \in Funders :
    LET c == contribution[r][f] IN
    c.committed = c.remaining + c.held + c.reward + c.fee + c.refunded

\* An active budget covers one more reward and its fee.
ActiveBudgetsCanPay ==
  \A r \in Rounds :
    plan[r].status = "active" /\ plan[r].mode = "budget"
      => Both(Remaining(contribution[r])) >= Cost

\* The books of a round agree with its holds: nothing is negative, a budget
\* account has what remains of the contributions to a budget, the hold
\* account what the held holds took, funder by funder, and each of those the
\* full reward and fee; an active budget has enough for another.
BooksMatchHolds ==
  /\ \A f \in Funders : wallet[f] >= 0
  /\ \A r \in Rounds :
       /\ budget[r] = IF plan[r].mode = "budget"
                      THEN Both(Remaining(contribution[r])) ELSE 0
       /\ onHold[r] = Cost * Cardinality(HeldIn(r))
       /\ \A f \in Funders :
            /\ contribution[r][f].remaining >= 0
            /\ contribution[r][f].held =
                 MapThenSumSet(LAMBDA h : hold[h].reward[f] + hold[h].fee[f],
                               HeldIn(r))
  /\ \A h \in Holds : hold[h].status = "held" =>
       Both(hold[h].reward) = Reward /\ Both(hold[h].fee) = Fee
  /\ ActiveBudgetsCanPay

\* A reward is held only in a round that is open to travelers or closing,
\* and a round that ended keeps nobody's points and no open sponsorship.
EndedRoundsAreSettled ==
  /\ \A h \in Holds : hold[h].status = "held" =>
       plan[hold[h].round].status \in {"active", "closing"}
  /\ \A r \in Rounds : plan[r].status \in Terminal =>
       /\ \A f \in Funders : contribution[r][f].remaining = 0
       /\ sponsorship[r].status \notin {"requested", "countered"}

\* The three together, in every state: no point of a funder is lost, held
\* twice or kept by a round that ended.
FundingBooks == ContributionsAccounted /\ BooksMatchHolds /\ EndedRoundsAreSettled

\* A proof that waits for its review can be approved: until the quest's
\* reward is paid to the traveler, the hold it was posted for is still held,
\* and was when it was posted, whatever happened to the round, the attempt
\* or the clock since.
PendingProofIsPayable ==
  \A u \in Travelers : proof[u].status = "pending" =>
    LET h == proof[u].hold IN
    /\ hold[h].user = u
    /\ \/ hold[h].status = "paid"
       \/ hold[h].status = "held" /\ proof[u].at <= hold[h].expires

\* Accepting a quest reserves its reward: a proof in review is never kept
\* from its payment by the voucher that is promised on top.
PerkNeverBlocksReward ==
  \A u \in Travelers : proof[u].status = "pending" =>
    LET h == proof[u].hold
        r == hold[h].round
    IN hold[h].status = "held" /\ PerkDue(r)
         => <<u, sponsorship[r].asked.voucher>> \notin redeemed

\* A round that is closing, or is past its end, ends, unless a traveler of
\* the round waits for a review.
RoundsEnd ==
  \A r \in Rounds :
    (plan[r].status \in OpenStates \ {"draft"})
      ~> \/ plan[r].status \in Terminal
         \/ \E h \in HeldIn(r) : HasPendingReview(h)
=============================================================================
