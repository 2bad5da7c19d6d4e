------------------------------ MODULE MCFunding ------------------------------
(***************************************************************************)
(* A quest with up to two funding rounds, two travelers and two holds.     *)
(* The whole product is too large to enumerate, so each behaviour has a    *)
(* focus: "funding" is one round from the beginning, with everything its   *)
(* funders can do and one traveler who posts proofs; "travelers" starts    *)
(* with the round both funders joined, leaves the sponsor's steps out, and *)
(* has two travelers with all their requests, and the round after it.      *)
(***************************************************************************)
EXTENDS FundingPlans, TLC

VARIABLE focus

mcVars == <<focus, fundingVars>>

CONSTANT FirstTraveler

MCTerms ==
  {[mode |-> "budget", completions |-> 1, starts |-> 0, ends |-> 1],
   [mode |-> "window", completions |-> 1, starts |-> 1, ends |-> 2]}

MCOffers == {[points |-> 55, voucher |-> None], [points |-> 0, voucher |-> "v1"]}

MCWallets == [f \in Funders |-> IF f = "author" THEN 120 ELSE 115]

\* Round 1 is active: the author contributed 60 points and the merchant 55.
JoinedInit ==
  /\ now = 0
  /\ \E mode \in {"budget", "window"} :
       LET locked == mode = "budget" IN
       /\ plan = [r \in Rounds |->
            [status |-> IF r = 1 THEN "active" ELSE "none",
             mode |-> IF r = 1 THEN mode ELSE "budget",
             target |-> IF r = 1 THEN 55 ELSE 0, starts |-> 0,
             ends |-> IF r = 1 THEN 1 ELSE 0,
             deadline |-> IF r = 1 THEN 1 ELSE 0]]
       /\ wallet = [f \in Funders |-> IF locked THEN 60 ELSE Wallets[f]]
       /\ budget = [r \in Rounds |-> IF locked /\ r = 1 THEN 115 ELSE 0]
  /\ contribution = [r \in Rounds |-> [f \in Funders |->
       LET points == IF r = 2 THEN 0 ELSE IF f = "author" THEN 60 ELSE 55 IN
       [NoContribution EXCEPT !.committed = points, !.remaining = points]]]
  /\ sponsorship = [r \in Rounds |->
       IF r = 1 THEN [NoSponsorship EXCEPT !.status = "accepted"]
       ELSE NoSponsorship]
  /\ onHold = [r \in Rounds |-> 0]
  /\ hold = [h \in Holds |-> NoHold]
  /\ proof = [u \in Travelers |-> Reviewed("none")]
  /\ redeemed = {}
  /\ reading = [u \in Travelers |-> None]

MCInit ==
  \/ focus = "funding" /\ Init
  \/ focus = "travelers" /\ JoinedInit

FundingFocus ==
  \/ AuthorStep(1) \/ SponsorStep(1)
  \/ \E points \in Amounts : SpendElsewhere("merchant", points)
  \/ StartFundedAttempt(1, FirstTraveler)
  \/ PostProof(FirstTraveler)
  \/ \E v \in Vouchers : PerkDue(1) /\ RedeemVoucher(FirstTraveler, v)

TravelersFocus ==
  \/ \E r \in Rounds :
       \/ \E terms \in Terms : terms.mode = "budget" /\ CreatePlan(r, terms)
       \/ \E points \in Amounts : r = 2 /\ Contribute(r, points)
       \/ SubmitPlan(r) \/ ClosePlan(r)
  \/ \E u \in Travelers : TravelerStep(u)

MCNext ==
  /\ \/ focus = "funding" /\ FundingFocus
     \/ focus = "travelers" /\ TravelersFocus
     \/ \E r \in Rounds : RunFundingScheduler(r)
     \/ \E h \in Holds : AbandonFundedAttempt(h)
     \/ ReviewStep
     \/ Tick
  /\ UNCHANGED focus

MCSpec ==
  /\ MCInit /\ [][MCNext]_mcVars
  /\ \A r \in Rounds : WF_mcVars(RunFundingScheduler(r) /\ UNCHANGED focus)
  /\ WF_mcVars(Tick /\ UNCHANGED focus)
=============================================================================
