----------------------------- MODULE PointsLedger -----------------------------
(***************************************************************************)
(* The points of the travelers and everything that moves them: proposals   *)
(* of the community (bond, voting fees, payouts), quest rewards, vouchers, *)
(* merchants' points and the transfers of funded quests.                   *)
(*                                                                         *)
(* A traveler's points are kept three times: whole in users.demo_points,   *)
(* to the thousandth (mJDQ) in the snapshot's balances, and as the sum of  *)
(* their entries in governance_ledger.  Every command holds the lock of    *)
(* the one governance_snapshot row, so each is one action; a replayed      *)
(* idempotency key changes nothing and is left out.                        *)
(***************************************************************************)
EXTENDS Integers, FiniteSets, FiniteSetsExt, Functions

CONSTANTS
  Users,         \* travelers with role "user"
  Proposals,     \* proposal ids; a scheduled proposal's quest has its id
  Quests,        \* other quests that reward travelers
  Credits,       \* row ids of merchant_point_credits
  Unit,          \* MJDQ_PER_JDQ
  Bond, VoteFee, FeedbackFee,   \* in mJDQ
  BurnBps,
  Opening,       \* users.demo_points when the snapshot is initialized
  ShareSets,     \* the payout shares a proposal may have, in basis points
  Percents,      \* release_percent of a resolution
  Reward,        \* points of a quest
  VoucherCost,   \* points of the one voucher
  Packages,      \* MERCHANT_POINT_PACKAGES
  DailyCap,      \* merchant_purchase_daily_cap
  ControlSets,   \* settings of the pause switches
  MaxDay         \* bound: days

ASSUME UnitIsPositive == Unit \in Nat \ {0}
ASSUME AmountsAreNat ==
  /\ Bond \in Nat /\ VoteFee \in Nat /\ FeedbackFee \in Nat
  /\ Reward \in Nat /\ VoucherCost \in Nat /\ MaxDay \in Nat
ASSUME ActorsAreFinite == IsFiniteSet(Users) /\ IsFiniteSet(Proposals)
ASSUME LedgerNumbers ==
  /\ Users # {} /\ ShareSets # {} /\ Opening \in [Users -> Nat]
  /\ BurnBps \in 0..10000 /\ Percents \subseteq 0..100 /\ Packages \subseteq Nat
ASSUME SharesAreWhole ==
  \A s \in ShareSets : s \in [Users -> Nat] /\ SumFunctionOnSet(s, Users) = 10000

VARIABLES
  points,        \* users.demo_points
  balance,       \* the snapshot's balances, in mJDQ
  ledger,        \* the sum of governance_ledger by account, in mJDQ
  account,       \* points_accounts.balance_points
  proposal,      \* the snapshot's proposals, with who has voted
  totals,        \* the snapshot's burned, treasury and issued mJDQ
  controls,      \* the pause switches that are on
  approved,      \* approved submissions, as pairs of user and quest
  redeemed,      \* users with a redemption of the voucher
  credit,        \* merchant_point_credits
  day            \* the current day

ledgerVars == <<points, balance, ledger, account, proposal, totals, controls,
                approved, redeemed, credit, day>>

PointAccounts == {"merchant", "merchant_issuance", "quest_hold"}

\* The account `escrow:${proposal.id}`.
Escrow(p) == p

FixedAccounts == {"bond_escrow", "governance_fee", "burn", "community_treasury",
                  "merchant_settlement", "reward_issuance"}

Accounts == Users \cup Proposals \cup PointAccounts \cup FixedAccounts

\* Ids are generated; none is the name of an account or of a transfer.
ASSUME IdsAreNoNames ==
  /\ Users \cap Proposals = {}
  /\ (Users \cup Proposals) \cap (PointAccounts \cup FixedAccounts) = {}
  /\ Users \cap {"kept", "refund", "slash"} = {}

Ended == {"rejected", "expired", "completed"}

ProposalRow == [state : {"none", "draft", "screening", "voting", "approved",
                         "scheduled", "active", "feedback", "payout_pending",
                         "disputed"} \cup Ended,
                organizer : Users, shares : ShareSets,
                bond : {"not_locked", "locked", "refunded", "slashed_50",
                        "slashed_100"},
                open : BOOLEAN, eligible : SUBSET Users, quorum : Nat,
                yes : SUBSET Users, no : SUBSET Users, escrow : Nat,
                approve : SUBSET Users, disapprove : SUBSET Users,
                feedbackEscrow : Nat]

CreditRow == [source : {"none", "simulated_purchase", "voucher_income",
                        "admin_grant", "admin_correction"},
              points : Nat, reverses : Credits \cup {"none"}, day : Nat]

-----------------------------------------------------------------------------
(* Moving points *)

\* recordTransfer: one group of two entries.
Transfer(from, to, amount) ==
  [a \in Accounts |-> (IF a = to THEN amount ELSE 0)
                        - (IF a = from THEN amount ELSE 0)]

\* The ledger after the groups of the set, given as pairs of a label and the
\* transfer.
Posted(groups) ==
  [a \in Accounts |-> ledger[a] + MapThenSumSet(LAMBDA g : g[2][a], groups)]

\* authoritativeBalance: whole points from the users table, the remainder
\* from the snapshot.
Authoritative(whole, previous) == (whole * Unit) + (previous % Unit)

\* What runCommand starts from.
Current == [u \in Users |-> Authoritative(points[u], balance[u])]

\* What runCommand writes back.
SetBalances(b) ==
  /\ balance' = b
  /\ points' = [u \in Users |-> b[u] \div Unit]

Credited(b, u, amount) == [b EXCEPT ![u] = @ + amount]

CanDebit(u, amount) == Current[u] >= amount

\* movePoints on the projections: a points account never goes negative,
\* except issuance; a traveler's points neither.
Moved(from, to, n) ==
  [a \in PointAccounts |-> account[a] + (IF a = to THEN n ELSE 0)
                                      - (IF a = from THEN n ELSE 0)]

CanMove(from, n) ==
  /\ n > 0
  /\ from \in Users => points[from] >= n
  /\ from \in PointAccounts \ {"merchant_issuance"} => account[from] >= n

MovePoints(from, to, n) ==
  LET delta == [u \in Users |-> (IF u = to THEN n ELSE 0)
                                  - (IF u = from THEN n ELSE 0)] IN
  /\ CanMove(from, n)
  /\ account' = Moved(from, to, n)
  /\ points' = [u \in Users |-> points[u] + delta[u]]
  /\ balance' = [u \in Users |-> balance[u] + delta[u] * Unit]
  /\ ledger' = Posted({<<"move", Transfer(from, to, n * Unit)>>})

Paused(switch) == switch \in controls \/ "all" \in controls

-----------------------------------------------------------------------------
(* Proposals *)

NoProposal == [state |-> "none", organizer |-> CHOOSE u \in Users : TRUE,
  shares |-> CHOOSE s \in ShareSets : TRUE, bond |-> "not_locked",
  open |-> FALSE, eligible |-> {}, quorum |-> 0, yes |-> {}, no |-> {},
  escrow |-> 0, approve |-> {}, disapprove |-> {}, feedbackEscrow |-> 0]

SetProposal(p, row) == proposal' = [proposal EXCEPT ![p] = row]

rest == <<account, controls, approved, redeemed, credit, day>>
money == <<points, balance, ledger, totals>>

\* Every command writes the balances back, those that move none as well.
NoTransfer ==
  /\ SetBalances(Current)
  /\ UNCHANGED <<ledger, totals, rest>>

\* createProposal
CreateProposal(p, u, shares) ==
  /\ proposal[p].state = "none"
  /\ SetProposal(p, [NoProposal EXCEPT !.state = "draft", !.organizer = u,
                                       !.shares = shares])
  /\ NoTransfer

\* submitProposal
SubmitProposal(p) ==
  /\ proposal[p].state = "draft"
  /\ SetProposal(p, [proposal[p] EXCEPT !.state = "screening"])
  /\ NoTransfer

\* eligibleGovernanceUsers
Eligible == {u \in Users : \E q \in Quests \cup Proposals : <<u, q>> \in approved}

\* The larger of the floor, 1, and a tenth, rounded up.
Quorum(n) == IF n = 0 THEN 1 ELSE (n + 9) \div 10

\* screenProposal, reject
ScreenReject(p) ==
  /\ proposal[p].state = "screening"
  /\ SetProposal(p, [proposal[p] EXCEPT !.state = "rejected"])
  /\ NoTransfer

\* screenProposal, approve: the organizer's bond is locked, the voters are
\* those eligible now.
ScreenApprove(p) ==
  LET row == proposal[p] IN
  /\ row.state = "screening"
  /\ ~Paused("all")
  /\ CanDebit(row.organizer, Bond)
  /\ SetBalances(Credited(Current, row.organizer, -Bond))
  /\ ledger' = Posted({<<"bond", Transfer(row.organizer, "bond_escrow", Bond)>>})
  /\ SetProposal(p, [row EXCEPT !.state = "voting", !.bond = "locked",
       !.open = TRUE, !.eligible = Eligible,
       !.quorum = Quorum(Cardinality(Eligible))])
  /\ UNCHANGED <<totals, rest>>

Burn(fee) == (fee * BurnBps) \div 10000

\* A vote's fee: a part is burned, the rest goes to the proposal's escrow.
PayFee(p, u, fee) ==
  /\ CanDebit(u, fee)
  /\ SetBalances(Credited(Current, u, -fee))
  /\ totals' = [totals EXCEPT !.burned = @ + Burn(fee)]
  /\ ledger' = Posted({<<"debit", Transfer(u, "governance_fee", fee)>>,
                       <<"burn", Transfer("governance_fee", "burn", Burn(fee))>>,
                       <<"escrow", Transfer("governance_fee", Escrow(p), fee - Burn(fee))>>})

\* castProposalVote
CastVote(p, u, yes) ==
  LET row == proposal[p] IN
  /\ ~Paused("votes")
  /\ row.state = "voting" /\ row.open
  /\ u \in row.eligible
  /\ u \notin row.yes \cup row.no
  /\ PayFee(p, u, VoteFee)
  /\ SetProposal(p, [row EXCEPT !.escrow = @ + VoteFee - Burn(VoteFee),
                                !.yes = IF yes THEN @ \cup {u} ELSE @,
                                !.no = IF yes THEN @ ELSE @ \cup {u}])
  /\ UNCHANGED rest

\* castFeedback, by a traveler whose proof of the proposal's quest was approved.
CastFeedback(p, u, likes) ==
  LET row == proposal[p] IN
  /\ ~Paused("votes")
  /\ row.state = "feedback" /\ row.open
  /\ <<u, p>> \in approved
  /\ u \notin row.approve \cup row.disapprove
  /\ PayFee(p, u, FeedbackFee)
  /\ SetProposal(p, [row EXCEPT
       !.feedbackEscrow = @ + FeedbackFee - Burn(FeedbackFee),
       !.approve = IF likes THEN @ \cup {u} ELSE @,
       !.disapprove = IF likes THEN @ ELSE @ \cup {u}])
  /\ UNCHANGED rest

\* closeVoting; a window that is open is closed by force only.
CloseVoting(p, force) ==
  LET row == proposal[p]
      votes == Cardinality(row.yes \cup row.no)
      passed == votes >= row.quorum /\ Cardinality(row.yes) > Cardinality(row.no)
  IN
  /\ row.state = "voting"
  /\ force \/ ~row.open
  /\ IF passed
     THEN /\ SetProposal(p, [row EXCEPT !.state = "approved", !.open = FALSE])
          /\ SetBalances(Current)
          /\ UNCHANGED <<ledger, totals>>
     ELSE /\ SetProposal(p, [row EXCEPT
               !.state = IF votes >= row.quorum THEN "rejected" ELSE "expired",
               !.open = FALSE, !.escrow = 0, !.bond = "refunded"])
          /\ totals' = [totals EXCEPT !.treasury = @ + row.escrow]
          /\ SetBalances(Credited(Current, row.organizer, Bond))
          /\ ledger' = Posted(
               {<<"treasury", Transfer(Escrow(p), "community_treasury", row.escrow)>>,
                <<"bond", Transfer("bond_escrow", row.organizer, Bond)>>})
  /\ UNCHANGED rest

\* transitionProposal, for the targets the admin routes name.
Transition(p, target) ==
  LET row == proposal[p] IN
  /\ \/ row.state = "approved" /\ target = "scheduled"
     \/ row.state = "scheduled" /\ target = "active"
     \/ row.state = "active" /\ target = "feedback"
     \/ row.state \in {"feedback", "payout_pending"} /\ target = "disputed"
  /\ SetProposal(p, [row EXCEPT !.state = target, !.open = (target = "feedback"),
       !.quorum = IF target = "feedback"
                  THEN Quorum(Cardinality({u \in Users : <<u, p>> \in approved}))
                  ELSE @])
  /\ NoTransfer

\* closeFeedback
CloseFeedback(p, force) ==
  LET row == proposal[p]
      total == Cardinality(row.approve \cup row.disapprove)
      passed == /\ total >= row.quorum
                /\ Cardinality(row.approve) > Cardinality(row.disapprove)
  IN
  /\ row.state = "feedback"
  /\ force \/ ~row.open
  /\ SetProposal(p, [row EXCEPT
       !.state = IF passed THEN "payout_pending" ELSE "disputed", !.open = FALSE])
  /\ NoTransfer

\* Mutant: the organizer gets their own share only, rounded down as well.
PayoutShare_Rounded(row, amount, u) == (amount * row.shares[u]) \div 10000

\* distributeToRecipients: the organizer takes what the floors leave.
PayoutShare(row, amount, u) ==
  LET others == Users \ {row.organizer}
      share == [v \in others |-> (amount * row.shares[v]) \div 10000]
  IN IF u \in others THEN share[u] ELSE amount - SumFunctionOnSet(share, others)

\* finalizePayout and resolveDispute: of the escrows `released` is shared out
\* and the rest goes to the treasury; of the bond `slashed` goes there too.
PayOut(p, released, slashed, bond) ==
  LET row == proposal[p]
      kept == row.escrow + row.feedbackEscrow - released
      paid(u) == PayoutShare(row, released, u)
  IN
  /\ SetProposal(p, [row EXCEPT !.state = "completed", !.escrow = 0,
                                !.feedbackEscrow = 0, !.bond = bond])
  /\ totals' = [totals EXCEPT !.treasury = @ + kept + slashed]
  /\ SetBalances([u \in Users |-> Current[u] + paid(u)
                    + IF u = row.organizer THEN Bond - slashed ELSE 0])
  /\ ledger' = Posted(
       {<<u, Transfer(Escrow(p), u, paid(u))>> : u \in Users}
         \cup {<<"kept", Transfer(Escrow(p), "community_treasury", kept)>>,
               <<"refund", Transfer("bond_escrow", row.organizer, Bond - slashed)>>,
               <<"slash", Transfer("bond_escrow", "community_treasury", slashed)>>})
  /\ UNCHANGED rest

\* finalizePayout
FinalizePayout(p) ==
  /\ ~Paused("payouts")
  /\ proposal[p].state = "payout_pending"
  /\ PayOut(p, proposal[p].escrow + proposal[p].feedbackEscrow, 0, "refunded")

Slashed(action) ==
  CASE action = "refund" -> 0
    [] action = "slash_50" -> Bond \div 2
    [] action = "slash_100" -> Bond

BondAfter(action) ==
  CASE action = "refund" -> "refunded"
    [] action = "slash_50" -> "slashed_50"
    [] action = "slash_100" -> "slashed_100"

\* resolveDispute
ResolveDispute(p, percent, action) ==
  LET pool == proposal[p].escrow + proposal[p].feedbackEscrow IN
  /\ ~Paused("payouts")
  /\ proposal[p].state \in {"disputed", "payout_pending"}
  /\ PayOut(p, (pool * percent) \div 100, Slashed(action), BondAfter(action))

\* updateControls
UpdateControls(switches) ==
  /\ controls' = switches
  /\ SetBalances(Current)
  /\ UNCHANGED <<ledger, totals, account, proposal, approved, redeemed, credit, day>>

\* The voting or feedback window ends.
WindowEnds(p) ==
  /\ proposal[p].open
  /\ SetProposal(p, [proposal[p] EXCEPT !.open = FALSE])
  /\ UNCHANGED <<money, rest>>

-----------------------------------------------------------------------------
(* Quest rewards and vouchers *)

\* The quest of a proposal takes proofs once the proposal is active.
Rewarding(q) ==
  q \in Proposals => proposal[q].state \in {"active", "feedback", "disputed",
                                             "payout_pending", "completed"}

\* settleReward for a quest without a funding plan, with recordQuestRewardTx.
RewardQuest(u, q) ==
  /\ <<u, q>> \notin approved
  /\ Rewarding(q)
  /\ approved' = approved \cup {<<u, q>>}
  /\ points' = [points EXCEPT ![u] = @ + Reward]
  /\ balance' = [balance EXCEPT ![u] = Authoritative(points'[u], @)]
  /\ ledger' = Posted({<<"reward", Transfer("reward_issuance", u, Reward * Unit)>>})
  /\ totals' = [totals EXCEPT !.issued = @ + Reward * Unit]
  /\ UNCHANGED <<account, proposal, controls, redeemed, credit, day>>

FreeCredit == {c \in Credits : credit[c].source = "none"}

\* A merchant_point_credits row is inserted.
InsertCredit(row) ==
  /\ FreeCredit # {}
  /\ credit' = [credit EXCEPT ![CHOOSE c \in FreeCredit : TRUE] = row]

NoCredit == [source |-> "none", points |-> 0, reverses |-> "none", day |-> 0]

\* redeemVoucher: the points go to the settlement account, or to the merchant
\* when voucher_income_enabled.
RedeemVoucher(u, income) ==
  /\ ~Paused("vouchers")
  /\ u \notin redeemed
  /\ points[u] >= VoucherCost
  /\ redeemed' = redeemed \cup {u}
  /\ IF income
     THEN /\ MovePoints(u, "merchant", VoucherCost)
          /\ InsertCredit([NoCredit EXCEPT !.source = "voucher_income",
                             !.points = VoucherCost, !.day = day])
     ELSE /\ points' = [points EXCEPT ![u] = @ - VoucherCost]
          /\ balance' = [balance EXCEPT ![u] = Authoritative(points'[u], @)]
          /\ ledger' = Posted({<<"voucher", Transfer(u, "merchant_settlement",
                                                     VoucherCost * Unit)>>})
          /\ UNCHANGED <<account, credit>>
  /\ UNCHANGED <<proposal, totals, controls, approved, day>>

\* A contribution to a funded quest, and the payment of its reward.
FundQuest(u, n) ==
  /\ MovePoints(u, "quest_hold", n)
  /\ UNCHANGED <<proposal, totals, controls, approved, redeemed, credit, day>>

PayFundedReward(u, n) ==
  /\ MovePoints("quest_hold", u, n)
  /\ UNCHANGED <<proposal, totals, controls, approved, redeemed, credit, day>>

-----------------------------------------------------------------------------
(* Merchant points *)

Bought(d) ==
  MapThenSumSet(LAMBDA c : credit[c].points,
    {c \in Credits : credit[c].source = "simulated_purchase" /\ credit[c].day = d})

\* purchase: a package, within the cap of the day.
PurchasePoints(n) ==
  /\ Bought(day) + n <= DailyCap
  /\ MovePoints("merchant_issuance", "merchant", n)
  /\ InsertCredit([NoCredit EXCEPT !.source = "simulated_purchase",
                     !.points = n, !.day = day])
  /\ UNCHANGED <<proposal, totals, controls, approved, redeemed, day>>

\* adminAdjust with positive points.
GrantPoints(n) ==
  /\ MovePoints("merchant_issuance", "merchant", n)
  /\ InsertCredit([NoCredit EXCEPT !.source = "admin_grant", !.points = n,
                                   !.day = day])
  /\ UNCHANGED <<proposal, totals, controls, approved, redeemed, day>>

Reversed(c) ==
  MapThenSumSet(LAMBDA d : credit[d].points,
                {d \in Credits : credit[d].reverses = c})

\* A correction names the credit it reverses, up to what is left of it.
MayReverse(c, n) ==
  /\ credit[c].source \notin {"none", "admin_correction"}
  /\ credit[c].points - Reversed(c) >= n

\* adminAdjust with negative points.
CorrectPoints(c, n) ==
  /\ MayReverse(c, n)
  /\ MovePoints("merchant", "merchant_issuance", n)
  /\ InsertCredit([source |-> "admin_correction", points |-> n,
                   reverses |-> c, day |-> day])
  /\ UNCHANGED <<proposal, totals, controls, approved, redeemed, day>>

NextDay ==
  /\ day < MaxDay
  /\ day' = day + 1
  /\ UNCHANGED <<money, account, proposal, controls, approved, redeemed, credit>>

-----------------------------------------------------------------------------

\* The circulation of the opening balances.
OpeningTotal == SumFunctionOnSet([u \in Users |-> Opening[u] * Unit], Users)

\* lockGovernanceSnapshot initializes the opening circulation once.
LedgerInit ==
  /\ points = Opening
  /\ balance = [u \in Users |-> Opening[u] * Unit]
  /\ ledger = [a \in Accounts |-> 0]
  /\ account = [a \in PointAccounts |-> 0]
  /\ proposal = [p \in Proposals |-> NoProposal]
  /\ totals = [burned |-> 0, treasury |-> 0, issued |-> OpeningTotal]
  /\ controls = {}
  /\ approved = {}
  /\ redeemed = {}
  /\ credit = [c \in Credits |-> NoCredit]
  /\ day = 0

ProposalStep(p) ==
  \/ \E u \in Users, shares \in ShareSets : CreateProposal(p, u, shares)
  \/ SubmitProposal(p) \/ ScreenReject(p) \/ ScreenApprove(p)
  \/ \E u \in Users, yes \in BOOLEAN : CastVote(p, u, yes) \/ CastFeedback(p, u, yes)
  \/ \E force \in BOOLEAN : CloseVoting(p, force) \/ CloseFeedback(p, force)
  \/ \E target \in {"scheduled", "active", "feedback", "disputed"} : Transition(p, target)
  \/ FinalizePayout(p)
  \/ \E percent \in Percents, action \in {"refund", "slash_50", "slash_100"} :
       ResolveDispute(p, percent, action)
  \/ WindowEnds(p)

MerchantStep ==
  \/ \E n \in Packages : PurchasePoints(n) \/ GrantPoints(n)
  \/ \E c \in Credits, n \in Packages : CorrectPoints(c, n)
  \/ \E u \in Users, income \in BOOLEAN : RedeemVoucher(u, income)
  \/ \E u \in Users, n \in Packages : FundQuest(u, n) \/ PayFundedReward(u, n)
  \/ NextDay

LedgerNext ==
  \/ \E p \in Proposals : ProposalStep(p)
  \/ \E switches \in ControlSets : UpdateControls(switches)
  \/ \E u \in Users, q \in Quests \cup Proposals : RewardQuest(u, q)
  \/ MerchantStep

LedgerSpec == LedgerInit /\ [][LedgerNext]_ledgerVars

-----------------------------------------------------------------------------
(* Properties *)

LedgerTypeOK ==
  /\ points \in [Users -> Nat]
  /\ balance \in [Users -> Nat]
  /\ ledger \in [Accounts -> Int]
  /\ account \in [PointAccounts -> Int]
  /\ proposal \in [Proposals -> ProposalRow]
  /\ totals \in [burned : Nat, treasury : Nat, issued : Nat]
  /\ approved \subseteq Users \X (Quests \cup Proposals)
  /\ redeemed \subseteq Users
  /\ credit \in [Credits -> CreditRow]

\* However they were moved, the points of a traveler are the same in the
\* users table, in the snapshot and in the ledger, and every pot of the
\* snapshot and of points_accounts holds exactly what the ledger moved to it:
\* not a thousandth is lost to the rounding of burns and payout shares, and a
\* proposal that ended holds nobody's fees and no bond.
LedgerMatchesState ==
  /\ \A u \in Users :
       /\ balance[u] = Opening[u] * Unit + ledger[u]
       /\ points[u] = balance[u] \div Unit
  /\ \A a \in PointAccounts : ledger[a] = account[a] * Unit
  /\ \A p \in Proposals :
       ledger[Escrow(p)] = proposal[p].escrow + proposal[p].feedbackEscrow
  /\ \A p \in Proposals : proposal[p].state \in Ended =>
       /\ proposal[p].escrow + proposal[p].feedbackEscrow = 0
       /\ proposal[p].bond # "locked"
  /\ ledger["bond_escrow"] =
       Bond * Cardinality({p \in Proposals : proposal[p].bond = "locked"})
  /\ ledger["burn"] = totals.burned
  /\ ledger["community_treasury"] = totals.treasury
  /\ ledger["governance_fee"] = 0
  /\ totals.issued = OpeningTotal - ledger["reward_issuance"]
=============================================================================
