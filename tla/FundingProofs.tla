---------------------------- MODULE FundingProofs ----------------------------
(***************************************************************************)
(* Theorems about FundingPlans, for any travelers, holds, terms, offers,   *)
(* amounts and number of rounds: the type invariant, the books of every    *)
(* round, and that a proof in review can be paid.                          *)
(***************************************************************************)
EXTENDS FundingPlans, SumLemmas

-----------------------------------------------------------------------------
(* Amounts *)

LEMMA CostIsNat == Fee \in Nat /\ Cost \in Nat
<1>1. Reward * FeeBps \in Nat
  BY PointsAreNat
<1>2. Fee \in Nat
  BY <1>1 DEF Fee
<1> QED BY <1>2, PointsAreNat DEF Cost

LEMMA TargetsCover ==
  ASSUME NEW terms \in Terms
  PROVE  Target(terms.completions) \in Nat /\ Target(terms.completions) >= Cost
<1>1. terms.completions \in Nat \ {0}
  BY TermsAreTyped
<1>2. \A k \in Nat \ {0} : Cost * k \in Nat /\ Cost * k >= Cost
  BY CostIsNat
<1> QED BY <1>1, <1>2 DEF Target

LEMMA BothIsInt ==
  ASSUME NEW points \in [Funders -> Int]
  PROVE  Both(points) = points["author"] + points["merchant"] /\ Both(points) \in Int
BY DEF Both, Funders

-----------------------------------------------------------------------------
(* Type correctness *)

LEMMA TypesAtStart == Init => TypeOK
<1> SUFFICES ASSUME Init PROVE TypeOK
  OBVIOUS
<1>1. plan \in [Rounds -> PlanRow]
  BY DEF Init, PlanRow
<1>2. contribution \in [Rounds -> [Funders -> ContributionRow]]
  BY DEF Init, NoContribution, ContributionRow
<1>3. sponsorship \in [Rounds -> SponsorshipRow]
  BY DEF Init, NoSponsorship, SponsorshipRow, NoOffer
<1>4. hold \in [Holds -> HoldRow]
  BY DEF Init, NoHold, HoldRow, Points, NoPoints
<1>5. proof \in [Travelers -> ProofRow]
  BY DEF Init, Reviewed, ProofRow
<1>6. wallet \in [Funders -> Int] /\ budget \in [Rounds -> Int] /\ onHold \in [Rounds -> Int]
  BY WalletsAreTyped DEF Init
<1>7. reading \in [Travelers -> Holds \cup {None}] /\ redeemed = {} /\ now = 0
  BY DEF Init
<1> QED BY <1>1, <1>2, <1>3, <1>4, <1>5, <1>6, <1>7 DEF TypeOK

LEMMA ColumnsAreInts ==
  ASSUME NEW row \in ContributionRow
  PROVE  /\ row.committed \in Int /\ row.remaining \in Int /\ row.held \in Int
         /\ row.reward \in Int /\ row.fee \in Int /\ row.refunded \in Int
BY DEF ContributionRow

\* What the helpers write has the type of its column.
LEMMA RowTyped ==
  ASSUME NEW row \in ContributionRow, NEW x \in Int
  PROVE  /\ row.committed \in Int /\ row.remaining \in Int /\ row.held \in Int
         /\ row.reward \in Int /\ row.fee \in Int /\ row.refunded \in Int
         /\ [row EXCEPT !.committed = @ + x, !.remaining = @ + x] \in ContributionRow
         /\ [row EXCEPT !.remaining = @ + x, !.held = @ - x] \in ContributionRow
         /\ [row EXCEPT !.remaining = @ - x, !.held = @ + x] \in ContributionRow
         /\ [row EXCEPT !.remaining = 0, !.refunded = @ + x] \in ContributionRow
<1>1. /\ row.committed \in Int /\ row.remaining \in Int /\ row.held \in Int
      /\ row.reward \in Int /\ row.fee \in Int /\ row.refunded \in Int
  BY DEF ContributionRow
<1>2. ASSUME NEW y \in Int, NEW z \in Int
      PROVE  /\ [row EXCEPT !.committed = y, !.remaining = z] \in ContributionRow
             /\ [row EXCEPT !.remaining = y, !.held = z] \in ContributionRow
             /\ [row EXCEPT !.remaining = y, !.refunded = z] \in ContributionRow
  BY DEF ContributionRow
<1>3. /\ row.committed + x \in Int /\ row.remaining + x \in Int /\ row.held - x \in Int
      /\ row.remaining - x \in Int /\ row.held + x \in Int /\ row.refunded + x \in Int
      /\ 0 \in Int
  BY <1>1
<1>4. [row EXCEPT !.committed = @ + x, !.remaining = @ + x] \in ContributionRow
  BY <1>2, <1>3, Zenon
<1>5. [row EXCEPT !.remaining = @ + x, !.held = @ - x] \in ContributionRow
  BY <1>2, <1>3, Zenon
<1>6. [row EXCEPT !.remaining = @ - x, !.held = @ + x] \in ContributionRow
  BY <1>2, <1>3, Zenon
<1>7. [row EXCEPT !.remaining = 0, !.refunded = @ + x] \in ContributionRow
  BY <1>2, <1>3, Zenon
<1> QED BY <1>1, <1>4, <1>5, <1>6, <1>7

LEMMA SettleTyped ==
  ASSUME TypeOK, NEW r \in Rounds, NEW c \in [Funders -> ContributionRow],
         NEW freed \in [Funders -> Int], NEW closes \in BOOLEAN, Settle(r, c, freed, closes)
  PROVE  /\ contribution' \in [Rounds -> [Funders -> ContributionRow]]
         /\ wallet' \in [Funders -> Int] /\ budget' \in [Rounds -> Int]
<1>1. Refunded(c) \in [Funders -> ContributionRow] /\ Remaining(c) \in [Funders -> Int]
  <2>1. ASSUME NEW f \in Funders
        PROVE  /\ [c[f] EXCEPT !.remaining = 0, !.refunded = @ + c[f].remaining] \in ContributionRow
               /\ c[f].remaining \in Int
    <3>1. c[f] \in ContributionRow /\ c[f].remaining \in Int
      BY RowTyped
    <3> QED BY <3>1, RowTyped
  <2> QED BY <2>1 DEF Refunded, Remaining
<1>2. NoPoints \in [Funders -> Int]
  BY DEF NoPoints
<1>3. contribution' \in [Rounds -> [Funders -> ContributionRow]]
  BY <1>1 DEF Settle, TypeOK
<1>4. wallet' \in [Funders -> Int]
  BY <1>1, <1>2 DEF Settle, TypeOK
<1>5. budget' \in [Rounds -> Int]
  <2>1. Both(freed) \in Int /\ Both(Remaining(c)) \in Int /\ Both(NoPoints) \in Int
    BY <1>1, <1>2, BothIsInt
  <2> QED BY <2>1 DEF Settle, TypeOK
<1> QED BY <1>3, <1>4, <1>5

LEMMA ReturnedTyped ==
  ASSUME NEW c \in [Funders -> ContributionRow], NEW freed \in [Funders -> Int]
  PROVE  Returned(c, freed) \in [Funders -> ContributionRow]
<1>1. ASSUME NEW f \in Funders
      PROVE  [c[f] EXCEPT !.remaining = @ + freed[f], !.held = @ - freed[f]] \in ContributionRow
  <2>1. c[f] \in ContributionRow /\ freed[f] \in Int
    OBVIOUS
  <2> QED BY <2>1, RowTyped
<1> QED BY <1>1 DEF Returned

LEMMA ResolvedTyped ==
  ASSUME TypeOK, NEW h \in Holds, NEW status \in {"none", "held", "paid", "released"},
         NEW att \in {"none", "in_progress", "submitted", "completed", "abandoned"}
  PROVE  Resolved(h, status, att) \in HoldRow
<1>1. hold[h] \in HoldRow
  BY DEF TypeOK
<1>2. NoPoints \in Points
  BY DEF NoPoints, Points
<1> HIDE DEF NoPoints, Points
<1> QED BY <1>1, <1>2 DEF Resolved, HoldRow

LEMMA ReleasedTyped ==
  ASSUME TypeOK, NEW hs
  PROVE  Released(hs) \in [Holds -> HoldRow]
<1>1. ASSUME NEW h \in Holds
      PROVE  hold[h] \in HoldRow /\ Resolved(h, "released",
               IF hold[h].attempt = "in_progress" THEN "abandoned" ELSE hold[h].attempt) \in HoldRow
  BY ResolvedTyped DEF TypeOK, HoldRow
<1> QED BY <1>1 DEF Released

LEMMA ExpireTyped ==
  ASSUME TypeOK, NEW r \in Rounds, NEW closes, ExpireSponsorship(r, closes)
  PROVE  sponsorship' \in [Rounds -> SponsorshipRow]
<1>1. NoSponsorship \in SponsorshipRow
  BY DEF NoSponsorship, SponsorshipRow, NoOffer
<1> QED BY <1>1 DEF ExpireSponsorship, TypeOK

LEMMA CommitTyped ==
  ASSUME TypeOK, NEW r \in Rounds, NEW f \in Funders, NEW points \in Nat, Commit(r, f, points)
  PROVE  /\ contribution' \in [Rounds -> [Funders -> ContributionRow]]
         /\ wallet' \in [Funders -> Int] /\ budget' \in [Rounds -> Int]
         /\ onHold' \in [Rounds -> Int]
<1>1. contribution[r][f] \in ContributionRow /\ points \in Int
  BY DEF TypeOK
<1>2. [contribution[r][f] EXCEPT !.committed = @ + points, !.remaining = @ + points]
        \in ContributionRow
  BY <1>1, RowTyped
<1>3. contribution' = [contribution EXCEPT ![r] = [contribution[r] EXCEPT ![f] =
         [contribution[r][f] EXCEPT !.committed = @ + points, !.remaining = @ + points]]]
  BY DEF Commit, TypeOK
<1>4. contribution' \in [Rounds -> [Funders -> ContributionRow]]
  BY <1>2, <1>3 DEF TypeOK
<1> QED BY <1>4 DEF Commit, TypeOK

LEMMA PlanTyped ==
  ASSUME NEW row \in PlanRow, NEW status \in OpenStates \cup Terminal \cup {"none"},
         NEW n \in Nat
  PROVE  /\ row.status \in OpenStates \cup Terminal \cup {"none"} /\ row.mode \in {"budget", "window"}
         /\ row.target \in Nat /\ row.starts \in Nat /\ row.ends \in Nat /\ row.deadline \in Nat
         /\ [row EXCEPT !.status = status] \in PlanRow
         /\ [row EXCEPT !.status = status, !.deadline = n] \in PlanRow
         /\ [row EXCEPT !.ends = n] \in PlanRow
<1> HIDE DEF OpenStates, Terminal
<1> QED BY DEF PlanRow

LEMMA AuthorStepTyped ==
  ASSUME TypeOK, NEW r \in Rounds, AuthorStep(r)
  PROVE  TypeOK'
<1> USE DEF TypeOK, books
<1>1. ASSUME NEW terms \in Terms, CreatePlan(r, terms) \/ UpdatePlan(r, terms)
      PROVE  TypeOK'
  <2>1. /\ terms.mode \in {"budget", "window"} /\ terms.starts \in Nat /\ terms.ends \in Nat
        /\ Target(terms.completions) \in Nat
    BY TargetsCover, TermsAreTyped
  <2>2. /\ [status |-> "draft", mode |-> terms.mode,
            target |-> Target(terms.completions), starts |-> terms.starts,
            ends |-> terms.ends, deadline |-> 0] \in PlanRow
        /\ [plan[r] EXCEPT !.mode = terms.mode, !.target = Target(terms.completions),
                 !.starts = terms.starts, !.ends = terms.ends] \in PlanRow
    <3>1. plan[r] \in PlanRow /\ "draft" \in OpenStates
      BY DEF OpenStates
    <3> QED BY <2>1, <3>1 DEF PlanRow
  <2>3. plan' \in [Rounds -> PlanRow]
    BY <1>1, <2>2 DEF CreatePlan, UpdatePlan
  <2> QED BY <1>1, <2>3 DEF CreatePlan, UpdatePlan
<1>2. ASSUME NEW row \in PlanRow, NEW c, row.deadline \in Nat, ActivateIfFunded(r, row, c)
      PROVE  plan' \in [Rounds -> PlanRow]
  <2>1. Activated(row, c) \in PlanRow
    BY <1>2 DEF Activated, PlanRow, OpenStates
  <2> QED BY <1>2, <2>1 DEF ActivateIfFunded
<1>3. ASSUME NEW points \in Amounts, Contribute(r, points)
      PROVE  TypeOK'
  <2>1. /\ contribution' \in [Rounds -> [Funders -> ContributionRow]]
        /\ wallet' \in [Funders -> Int] /\ budget' \in [Rounds -> Int]
        /\ onHold' \in [Rounds -> Int]
    BY <1>3, CommitTyped, PointsAreNat DEF Contribute, Funders
  <2>2. plan' \in [Rounds -> PlanRow]
    BY <1>2, <1>3 DEF Contribute, PlanRow
  <2> QED BY <1>3, <2>1, <2>2 DEF Contribute
<1>4. CASE SubmitPlan(r)
  <2>1. [plan[r] EXCEPT !.status = "pending_sponsors", !.deadline = now + SponsorDays] \in PlanRow
    <3>1. plan[r] \in PlanRow /\ "pending_sponsors" \in OpenStates /\ now + SponsorDays \in Nat
      BY TimesAreNat DEF OpenStates
    <3> QED BY <3>1, PlanTyped
  <2>2. plan' \in [Rounds -> PlanRow]
    BY <1>2, <1>4, <2>1 DEF SubmitPlan, PlanRow
  <2> QED BY <1>4, <2>2 DEF SubmitPlan
<1>5. CASE ClosePlan(r) \/ CancelPlan(r)
  <2>1. plan' \in [Rounds -> PlanRow]
    <3>1. PICK status \in OpenStates \cup Terminal : SetPlan(r, status)
      BY <1>5 DEF ClosePlan, CancelPlan, OpenStates, Terminal
    <3>2. [plan[r] EXCEPT !.status = status] \in PlanRow
      BY PlanTyped, TimesAreNat
    <3> QED BY <3>1, <3>2 DEF SetPlan
  <2>2. contribution[r] \in [Funders -> ContributionRow] /\ NoPoints \in [Funders -> Int]
        /\ Finalizable(r, {}) \in BOOLEAN
    BY DEF NoPoints, Finalizable
  <2>3. /\ contribution' \in [Rounds -> [Funders -> ContributionRow]]
        /\ wallet' \in [Funders -> Int] /\ budget' \in [Rounds -> Int]
    BY <1>5, <2>2, SettleTyped, SMTT(40) DEF ClosePlan, CancelPlan
  <2>4. sponsorship' \in [Rounds -> SponsorshipRow]
    BY <1>5, ExpireTyped DEF ClosePlan, CancelPlan
  <2> QED BY <1>5, <2>1, <2>3, <2>4 DEF ClosePlan, CancelPlan
<1>6. ASSUME NEW ends \in 1..MaxTime, ExtendPlan(r, ends)
      PROVE  TypeOK'
  <2>1. ends \in Nat
    BY TimesAreNat
  <2> QED BY <1>6, <2>1, ZenonT(40) DEF ExtendPlan, PlanRow
<1> QED BY <1>1, <1>3, <1>4, <1>5, <1>6 DEF AuthorStep

LEMMA SponsorStepTyped ==
  ASSUME TypeOK, NEW r \in Rounds, SponsorStep(r)
  PROVE  TypeOK'
<1> USE DEF TypeOK, books
<1>0. NoSponsorship \in SponsorshipRow
  BY DEF NoSponsorship, SponsorshipRow, NoOffer
<1>1. ASSUME NEW offer \in Offers, RequestSponsor(r, offer) \/ CounterOffer(r, offer)
      PROVE  TypeOK'
  <2>1. offer \in [points : Nat, voucher : Vouchers \cup {None}]
    BY OffersAreTyped
  <2>2. \A e \in Nat : [NoSponsorship EXCEPT !.status = "requested", !.asked = offer,
                                       !.expires = e] \in SponsorshipRow
    BY <1>0, <2>1 DEF SponsorshipRow
  <2>3. plan[r].deadline \in Nat /\ plan[r].ends \in Nat
    BY DEF PlanRow
  <2>4. [sponsorship[r] EXCEPT !.status = "countered", !.countered = offer] \in SponsorshipRow
    <3>1. sponsorship[r] \in SponsorshipRow
      OBVIOUS
    <3> QED BY <2>1, <3>1 DEF SponsorshipRow
  <2>5. sponsorship' \in [Rounds -> SponsorshipRow]
    BY <1>1, <2>2, <2>3, <2>4 DEF RequestSponsor, CounterOffer
  <2> QED BY <1>1, <2>5 DEF RequestSponsor, CounterOffer
<1>2. ASSUME NEW points \in Nat, NEW perks \in Nat, AcceptTerms(r, points, perks)
      PROVE  TypeOK'
  <2>1. sponsorship[r].asked.voucher \in Vouchers \cup {None}
    BY DEF SponsorshipRow
  <2>2. \A v \in Vouchers \cup {None} :
          [NoSponsorship EXCEPT !.status = "accepted", !.perks = perks, !.asked.voucher = v]
            \in SponsorshipRow
    BY <1>0 DEF SponsorshipRow
  <2>3. sponsorship' \in [Rounds -> SponsorshipRow]
    BY <1>2, <2>1, <2>2 DEF AcceptTerms
  <2>4. /\ contribution' \in [Rounds -> [Funders -> ContributionRow]]
        /\ wallet' \in [Funders -> Int] /\ budget' \in [Rounds -> Int]
        /\ onHold' \in [Rounds -> Int]
    BY <1>2, CommitTyped DEF AcceptTerms, Funders
  <2>5. plan' \in [Rounds -> PlanRow]
    <3>1. Activated(plan[r], contribution'[r]) \in PlanRow
      BY ZenonT(40) DEF Activated, PlanRow, OpenStates
    <3> QED BY <1>2, <3>1 DEF AcceptTerms, ActivateIfFunded
  <2> QED BY <1>2, <2>3, <2>4, <2>5 DEF AcceptTerms
<1>3. CASE AcceptSponsor(r) \/ AcceptCounter(r)
  <2>1. /\ sponsorship[r].asked.points \in Nat /\ sponsorship[r].countered.points \in Nat
        /\ \A offer : Perks(offer) \in Nat
    BY DEF SponsorshipRow, Perks
  <2> QED BY <1>2, <1>3, <2>1 DEF AcceptSponsor, AcceptCounter
<1>4. CASE DecideSponsor(r)
  BY <1>0, <1>4 DEF DecideSponsor
<1>5. ASSUME NEW points \in Amounts, TopUp(r, points)
      PROVE  TypeOK'
  <2>1. /\ contribution' \in [Rounds -> [Funders -> ContributionRow]]
        /\ wallet' \in [Funders -> Int] /\ budget' \in [Rounds -> Int]
        /\ onHold' \in [Rounds -> Int]
    BY <1>5, CommitTyped, PointsAreNat DEF TopUp, Funders
  <2> QED BY <1>5, <2>1 DEF TopUp
<1> QED BY <1>1, <1>3, <1>4, <1>5 DEF SponsorStep

LEMMA PointsAreInts ==
  ASSUME NEW points \in Points
  PROVE  /\ points \in [Funders -> Int]
         /\ points["author"] \in Nat /\ points["merchant"] \in Nat
BY DEF Points, Funders

LEMMA ChargedTyped ==
  ASSUME NEW c \in [Funders -> ContributionRow], NEW points \in [Funders -> Int]
  PROVE  Charged(c, points) \in [Funders -> ContributionRow]
<1>1. ASSUME NEW f \in Funders
      PROVE  [c[f] EXCEPT !.remaining = @ - points[f], !.held = @ + points[f]] \in ContributionRow
  <2>1. c[f] \in ContributionRow /\ points[f] \in Int
    OBVIOUS
  <2> QED BY <2>1, RowTyped
<1> QED BY <1>1 DEF Charged

LEMMA SpentIsInt ==
  ASSUME NEW freed \in Points, NEW points \in Points
  PROVE  /\ [f \in Funders |-> freed[f] - points[f]] \in [Funders -> Int]
         /\ Both([f \in Funders |-> freed[f] - points[f]]) = Both(freed) - Both(points)
<1>1. \A f \in Funders : freed[f] \in Int /\ points[f] \in Int
  BY PointsAreInts
<1>2. freed["author"] \in Int /\ freed["merchant"] \in Int
      /\ points["author"] \in Int /\ points["merchant"] \in Int
  BY PointsAreInts
<1>3. /\ [f \in Funders |-> freed[f] - points[f]]["author"] = freed["author"] - points["author"]
      /\ [f \in Funders |-> freed[f] - points[f]]["merchant"] = freed["merchant"] - points["merchant"]
  BY DEF Funders
<1> QED BY <1>1, <1>2, <1>3 DEF Both

LEMMA HeldForTyped ==
  ASSUME TypeOK, NEW r \in Rounds, NEW u \in Travelers, NEW points \in Points,
         NEW fee \in Points, \A f \in Funders : fee[f] <= points[f]
  PROVE  HeldFor(r, u, points, fee) \in HoldRow
<1>1. now + HoldTtl \in Nat /\ plan[r].ends + Grace \in Nat
  BY TimesAreNat DEF PlanRow, TypeOK
<1>2. [f \in Funders |-> points[f] - fee[f]] \in Points
  <2>1. ASSUME NEW f \in Funders PROVE points[f] - fee[f] \in Nat
    <3>1. fee[f] \in Nat /\ points[f] \in Nat /\ fee[f] <= points[f]
      BY DEF Points
    <3> QED BY <3>1
  <2> QED BY <2>1 DEF Points
<1> HIDE DEF Points
<1>3. ASSUME NEW x \in Nat, NEW y \in Points
      PROVE  [status |-> "held", attempt |-> "in_progress", round |-> r, user |-> u,
              fee |-> fee, reward |-> y, expires |-> x] \in HoldRow
  BY DEF HoldRow
<1> QED BY <1>1, <1>2, <1>3 DEF HeldFor

LEMMA StartTyped ==
  ASSUME TypeOK, NEW r \in Rounds, NEW u \in Travelers, StartFundedAttempt(r, u)
  PROVE  TypeOK'
<1> USE DEF TypeOK, books
<1>1. PICK lapsed \in Replaceable(r, u) :
        \E freed \in FreedBy(lapsed), older \in Funders : HoldReward(r, u, lapsed, freed, older)
  BY DEF StartFundedAttempt
<1>2. PICK freed \in FreedBy(lapsed), older \in Funders : HoldReward(r, u, lapsed, freed, older)
  BY <1>1
<1> DEFINE c == Returned(contribution[r], freed)
           capacity == Capacity(r, c, freed)
           points == Allocate(Cost, capacity, older)
           fee == Allocate(Fee, points, older)
           spent == [f \in Funders |-> freed[f] - points[f]]
           d == Charged(c, points)
           slot == CHOOSE h \in NextHold : TRUE
           row == HeldFor(r, u, points, fee)
<1>3. /\ points \in Points /\ fee \in Points /\ freed \in Points
      /\ \A f \in Funders : fee[f] <= points[f]
  BY <1>2 DEF HoldReward, Distributed, FreedBy
<1>4. /\ hold' = [Released(lapsed) EXCEPT ![slot] = row]
      /\ Settle(r, d, spent, FALSE)
      /\ onHold' = [onHold EXCEPT ![r] = @ - Both(spent)]
      /\ SetPlan(r, "closing") \/ UNCHANGED plan
  BY <1>2 DEF HoldReward
<1>5. c \in [Funders -> ContributionRow]
  BY <1>3, PointsAreInts, ReturnedTyped
<1> HIDE DEF c, points, fee, capacity
<1>6. d \in [Funders -> ContributionRow] /\ spent \in [Funders -> Int] /\ Both(spent) \in Int
  BY <1>3, <1>5, PointsAreInts, ChargedTyped, SpentIsInt, BothIsInt
<1>7. slot \in Holds /\ row \in HoldRow /\ Released(lapsed) \in [Holds -> HoldRow]
  BY <1>3, HeldForTyped, ReleasedTyped DEF NextHold, StartFundedAttempt
<1> HIDE DEF d, spent, slot, row
<1>8. /\ contribution' \in [Rounds -> [Funders -> ContributionRow]]
      /\ wallet' \in [Funders -> Int] /\ budget' \in [Rounds -> Int]
  BY <1>4, <1>6, SettleTyped
<1>9. onHold' \in [Rounds -> Int]
  BY <1>4, <1>6
<1>10. plan' \in [Rounds -> PlanRow]
  <2>1. [plan[r] EXCEPT !.status = "closing"] \in PlanRow
    BY PlanTyped, TimesAreNat DEF OpenStates
  <2> QED BY <1>4, <2>1 DEF SetPlan
<1>11. hold' \in [Holds -> HoldRow]
  BY <1>4, <1>7
<1> QED BY <1>8, <1>9, <1>10, <1>11 DEF StartFundedAttempt

\* A release that leaves the round in the status `status`.
LEMMA ReleaseTyped ==
  ASSUME TypeOK, NEW r \in Rounds, NEW hs, NEW freed \in Points, NEW closes \in BOOLEAN,
         NEW status \in OpenStates \cup Terminal \cup {"none"},
         hold' = Released(hs), Settle(r, Returned(contribution[r], freed), freed, closes),
         onHold' = [onHold EXCEPT ![r] = @ - Both(freed)], SetPlan(r, status),
         ExpireSponsorship(r, closes), UNCHANGED <<now, redeemed, proof, reading>>
  PROVE  TypeOK'
<1>1. contribution[r] \in [Funders -> ContributionRow] /\ freed \in [Funders -> Int]
  BY PointsAreInts DEF TypeOK
<1>2. /\ contribution' \in [Rounds -> [Funders -> ContributionRow]]
      /\ wallet' \in [Funders -> Int] /\ budget' \in [Rounds -> Int]
  BY <1>1, ReturnedTyped, SettleTyped
<1>3. plan' \in [Rounds -> PlanRow]
  BY PlanTyped, TimesAreNat DEF TypeOK, SetPlan
<1>4. onHold' \in [Rounds -> Int]
  BY <1>1, BothIsInt DEF TypeOK
<1>5. hold' \in [Holds -> HoldRow] /\ sponsorship' \in [Rounds -> SponsorshipRow]
  BY ReleasedTyped, ExpireTyped
<1> QED BY <1>2, <1>3, <1>4, <1>5 DEF TypeOK

-----------------------------------------------------------------------------
(* The rows, and what a proof in review is tied to *)

\* A held row names its round and its traveler and has the full amounts.
Reserves(row) ==
  /\ row.round \in Rounds /\ row.user \in Travelers
  /\ Both(row.reward) = Reward /\ Both(row.fee) = Fee

HeldRows == \A h \in Holds : hold[h].status = "held" => Reserves(hold[h])

PerksAreNamed ==
  \A r \in Rounds : sponsorship[r].perks > 0 => sponsorship[r].asked.voucher \in Vouchers

ProofsNameHolds ==
  \A u \in Travelers : proof[u].status = "pending" => proof[u].hold \in Holds

Rows ==
  TypeOK /\ HeldRows /\ PerksAreNamed /\ ProofsNameHolds /\ PendingProofIsPayable

\* A step that only resolves held rows keeps HeldRows.
LEMMA HeldRowsKept ==
  ASSUME HeldRows, \A h \in Holds : hold'[h].status = "held" =>
           /\ hold[h].status = "held"
           /\ hold'[h].round = hold[h].round /\ hold'[h].user = hold[h].user
           /\ hold'[h].reward = hold[h].reward /\ hold'[h].fee = hold[h].fee
  PROVE  HeldRows'
BY DEF HeldRows, Reserves

\* A step keeps the proofs payable that adds none and lets no held row in
\* review go unpaid.
LEMMA ProofsKept ==
  ASSUME ProofsNameHolds, PendingProofIsPayable,
         \A u \in Travelers : proof'[u].status = "pending" => proof'[u] = proof[u],
         \A h \in Holds : hold[h].status = "paid" =>
           hold'[h].status = "paid" /\ hold'[h].user = hold[h].user,
         \A h \in Holds : hold[h].status = "held" /\ HasPendingReview(h) =>
           /\ hold'[h].user = hold[h].user
           /\ \/ hold'[h].status = "paid"
              \/ hold'[h].status = "held" /\ hold'[h].expires = hold[h].expires
  PROVE  ProofsNameHolds' /\ PendingProofIsPayable'
<1>1. ASSUME NEW u \in Travelers, proof'[u].status = "pending"
      PROVE  LET h == proof'[u].hold IN
             /\ h \in Holds /\ hold'[h].user = u
             /\ \/ hold'[h].status = "paid"
                \/ hold'[h].status = "held" /\ proof'[u].at <= hold'[h].expires
  <2> DEFINE h == proof[u].hold
  <2>1. proof'[u] = proof[u] /\ proof[u].status = "pending"
    BY <1>1
  <2>2. /\ h \in Holds /\ hold[h].user = u
        /\ \/ hold[h].status = "paid"
           \/ hold[h].status = "held" /\ proof[u].at <= hold[h].expires
    BY <2>1 DEF ProofsNameHolds, PendingProofIsPayable
  <2>3. HasPendingReview(h)
    BY <2>1, <2>2 DEF HasPendingReview
  <2> QED BY <2>1, <2>2, <2>3
<1> QED BY <1>1 DEF ProofsNameHolds, PendingProofIsPayable

LEMMA ReleasedRow ==
  ASSUME TypeOK, NEW hs, NEW h \in Holds
  PROVE  /\ h \notin hs => Released(hs)[h] = hold[h]
         /\ h \in hs => /\ Released(hs)[h].status = "released"
                        /\ Released(hs)[h].user = hold[h].user
BY DEF Released, Resolved, TypeOK, HoldRow

\* Releasing rows that are not in review keeps the proofs payable.
LEMMA ReleaseKeepsRows ==
  ASSUME Rows, NEW hs, \A h \in hs : hold[h].status = "held" /\ ~HasPendingReview(h),
         hold' = Released(hs), UNCHANGED proof
  PROVE  HeldRows' /\ ProofsNameHolds' /\ PendingProofIsPayable'
<1> USE DEF Rows
<1>1. HeldRows'
  BY ReleasedRow, HeldRowsKept
<1>2. \A h \in Holds : hold[h].status = "paid" =>
           hold'[h].status = "paid" /\ hold'[h].user = hold[h].user
  BY ReleasedRow
<1>3. \A h \in Holds : hold[h].status = "held" /\ HasPendingReview(h) => hold'[h] = hold[h]
  BY ReleasedRow
<1> QED BY <1>1, <1>2, <1>3, ProofsKept

\* So does a step that changes neither.
LEMMA UnchangedRows ==
  ASSUME Rows, UNCHANGED <<hold, proof>>
  PROVE  HeldRows' /\ ProofsNameHolds' /\ PendingProofIsPayable'
BY DEF Rows, HeldRows, Reserves, ProofsNameHolds, PendingProofIsPayable

LEMMA SetAttemptRows ==
  ASSUME Rows, NEW h \in Holds, NEW status \in {"in_progress", "submitted"},
         SetAttempt(h, status),
         \A u \in Travelers : proof'[u].status = "pending" => proof'[u] = proof[u]
  PROVE  /\ hold' \in [Holds -> HoldRow]
         /\ HeldRows' /\ ProofsNameHolds' /\ PendingProofIsPayable'
<1> USE DEF Rows
<1>1. [hold[h] EXCEPT !.attempt = status] \in HoldRow
  <2>1. hold[h] \in HoldRow
    BY DEF TypeOK
  <2> HIDE DEF Points
  <2> QED BY <2>1 DEF HoldRow
<1>2. hold' \in [Holds -> HoldRow]
  BY <1>1 DEF SetAttempt, TypeOK
<1>3. \A g \in Holds : /\ hold'[g].status = hold[g].status /\ hold'[g].user = hold[g].user
                       /\ hold'[g].round = hold[g].round /\ hold'[g].expires = hold[g].expires
                       /\ hold'[g].reward = hold[g].reward /\ hold'[g].fee = hold[g].fee
  BY DEF SetAttempt, TypeOK, HoldRow
<1>4. HeldRows'
  BY <1>3, HeldRowsKept
<1> QED BY <1>2, <1>3, <1>4, ProofsKept

LEMMA StartRows ==
  ASSUME Rows, NEW r \in Rounds, NEW u \in Travelers, StartFundedAttempt(r, u)
  PROVE  Rows'
<1> USE DEF Rows
<1>1. PICK lapsed \in Replaceable(r, u) :
        \E freed \in FreedBy(lapsed), older \in Funders : HoldReward(r, u, lapsed, freed, older)
  BY DEF StartFundedAttempt
<1>2. PICK freed \in FreedBy(lapsed), older \in Funders : HoldReward(r, u, lapsed, freed, older)
  BY <1>1
<1> DEFINE capacity == Capacity(r, Returned(contribution[r], freed), freed)
           points == Allocate(Cost, capacity, older)
           fee == Allocate(Fee, points, older)
           slot == CHOOSE h \in NextHold : TRUE
           row == HeldFor(r, u, points, fee)
<1>3. /\ points \in Points /\ fee \in Points
      /\ Both(points) = Cost /\ Both(fee) = Fee
  BY <1>2 DEF HoldReward, Distributed
<1>4. hold' = [Released(lapsed) EXCEPT ![slot] = row]
  BY <1>2 DEF HoldReward
<1>5. slot \in Holds /\ hold[slot].status = "none"
  BY DEF NextHold, StartFundedAttempt
<1>6. \A h \in lapsed : h \in Holds /\ hold[h].status = "held" /\ ~HasPendingReview(h)
  BY DEF Replaceable, HeldBy
<1>7. Released(lapsed) \in [Holds -> HoldRow]
  BY ReleasedTyped
<1> HIDE DEF points, fee, capacity, slot
<1>8. row.status = "held" /\ Reserves(row)
  <2>1. Both([f \in Funders |-> points[f] - fee[f]]) = Both(points) - Both(fee)
    BY <1>3, SpentIsInt
  <2>2. Both(points) - Both(fee) = Reward
    BY <1>3, CostIsNat, PointsAreNat DEF Cost
  <2> QED BY <1>3, <2>1, <2>2 DEF Reserves, HeldFor
<1> HIDE DEF row
<1>9. /\ hold'[slot] = row
      /\ \A h \in Holds \ {slot} : hold'[h] = Released(lapsed)[h]
  BY <1>4, <1>5, <1>7
<1>10. HeldRows'
  <2>1. ASSUME NEW h \in Holds, hold'[h].status = "held"
        PROVE  Reserves(hold'[h])
    <3>1. CASE h = slot
      BY <1>8, <1>9, <3>1
    <3>2. CASE h # slot
      BY <1>9, <2>1, <3>2, ReleasedRow DEF HeldRows
    <3> QED BY <3>1, <3>2
  <2> QED BY <2>1 DEF HeldRows, Reserves
<1>11. proof' = proof /\ sponsorship' = sponsorship
  BY DEF StartFundedAttempt
<1>12. \A h \in Holds : hold[h].status = "paid" =>
           hold'[h].status = "paid" /\ hold'[h].user = hold[h].user
  BY <1>5, <1>6, <1>9, ReleasedRow
<1>13. \A h \in Holds : hold[h].status = "held" /\ HasPendingReview(h) => hold'[h] = hold[h]
  BY <1>5, <1>6, <1>9, ReleasedRow
<1>14. ProofsNameHolds' /\ PendingProofIsPayable'
  BY <1>11, <1>12, <1>13, ProofsKept
<1>15. PerksAreNamed'
  BY <1>11 DEF PerksAreNamed
<1> QED BY <1>10, <1>14, <1>15, StartTyped

LEMMA PerksKept ==
  ASSUME PerksAreNamed, NEW r \in Rounds, NEW closes, TypeOK, ExpireSponsorship(r, closes)
  PROVE  PerksAreNamed'
BY DEF PerksAreNamed, ExpireSponsorship, NoSponsorship, TypeOK

LEMMA AbandonRows ==
  ASSUME Rows, NEW h \in Holds, AbandonFundedAttempt(h)
  PROVE  Rows'
<1> USE DEF Rows
<1> DEFINE r == hold[h].round
           closes == plan[r].status = "closing" /\ Finalizable(r, {h})
<1>1. PICK freed \in FreedBy({h}) :
       /\ hold' = Released({h})
       /\ Settle(r, Returned(contribution[r], freed), freed, closes)
       /\ onHold' = [onHold EXCEPT ![r] = @ - Both(freed)]
       /\ SetPlan(r, IF closes THEN "closed" ELSE plan[r].status)
       /\ ExpireSponsorship(r, closes)
  BY DEF AbandonFundedAttempt
<1>2. r \in Rounds /\ freed \in Points /\ closes \in BOOLEAN
  BY DEF AbandonFundedAttempt, HeldRows, Reserves, FreedBy, Finalizable
<1>3. UNCHANGED <<now, redeemed, proof, reading>> /\ hold[h].status = "held" /\ ~HasPendingReview(h)
  BY DEF AbandonFundedAttempt
<1> HIDE DEF r
<1>4. TypeOK'
  <2> DEFINE status == IF closes THEN "closed" ELSE plan[r].status
  <2>1. status \in OpenStates \cup Terminal \cup {"none"}
    BY <1>2 DEF TypeOK, PlanRow, Terminal
  <2>2. SetPlan(r, status)
    BY <1>1
  <2> HIDE DEF status, closes
  <2> QED BY <1>1, <1>2, <1>3, <2>1, <2>2, ReleaseTyped
<1>5. HeldRows' /\ ProofsNameHolds' /\ PendingProofIsPayable'
  BY <1>1, <1>3, ReleaseKeepsRows
<1>6. PerksAreNamed'
  BY <1>1, <1>2, PerksKept
<1> QED BY <1>4, <1>5, <1>6

LEMMA SchedulerRows ==
  ASSUME Rows, NEW r \in Rounds, RunFundingScheduler(r)
  PROVE  Rows'
<1> USE DEF Rows
<1> DEFINE closes == NextStatus(r) \in Terminal /\ plan[r].status \in OpenStates
<1>1. PICK freed \in FreedBy(Lapsed(r)) :
       /\ hold' = Released(Lapsed(r))
       /\ Settle(r, Returned(contribution[r], freed), freed, closes)
       /\ onHold' = [onHold EXCEPT ![r] = @ - Both(freed)]
  BY DEF RunFundingScheduler
<1>2. freed \in Points /\ closes \in BOOLEAN
  BY DEF FreedBy
<1>3. /\ UNCHANGED <<now, redeemed, proof, reading>>
      /\ SetPlan(r, NextStatus(r)) /\ ExpireSponsorship(r, closes)
  BY DEF RunFundingScheduler
<1>4. NextStatus(r) \in OpenStates \cup Terminal \cup {"none"}
  BY DEF NextStatus, TypeOK, PlanRow, OpenStates, Terminal
<1>5. TypeOK'
  BY <1>1, <1>2, <1>3, <1>4, ReleaseTyped
<1>6. HeldRows' /\ ProofsNameHolds' /\ PendingProofIsPayable'
  BY <1>1, <1>3, ReleaseKeepsRows DEF Lapsed, HeldIn
<1>7. PerksAreNamed'
  BY <1>3, PerksKept
<1> QED BY <1>5, <1>6, <1>7

\* settleFundingHold leaves the books typed and the row paid.
LEMMA PayRows ==
  ASSUME Rows, NEW h \in Holds, PayHold(h), now' = now, reading' \in [Travelers -> Holds \cup {None}],
         proof' \in [Travelers -> ProofRow],
         \A u \in Travelers : proof'[u].status = "pending" => proof'[u] = proof[u]
  PROVE  Rows'
<1> USE DEF Rows
<1> DEFINE r == hold[h].round
           c == [f \in Funders |-> [contribution[r][f] EXCEPT
              !.held = @ - hold[h].reward[f] - hold[h].fee[f],
              !.reward = @ + hold[h].reward[f], !.fee = @ + hold[h].fee[f]]]
           closes == plan[r].status = "closing" /\ Finalizable(r, {h})
           perk == <<hold[h].user, sponsorship[r].asked.voucher>>
           granted == IF PerkDue(r)
                 THEN [sponsorship EXCEPT ![r].granted = @ + 1] ELSE sponsorship
           status == IF closes THEN "closed" ELSE plan[r].status
<1>1. /\ hold[h].status = "held"
      /\ redeemed' = IF PerkDue(r) THEN redeemed \cup {perk} ELSE redeemed
      /\ hold' = [hold EXCEPT ![h] = Resolved(h, "paid", "completed")]
      /\ Settle(r, c, NoPoints, closes)
      /\ onHold' = [onHold EXCEPT ![r] = @ - Both(hold[h].reward) - Both(hold[h].fee)]
      /\ SetPlan(r, status)
      /\ sponsorship' = IF closes /\ granted[r].status \in {"requested", "countered"}
                        THEN [granted EXCEPT ![r] = NoSponsorship] ELSE granted
  BY DEF PayHold
<1>2. /\ r \in Rounds /\ hold[h].user \in Travelers /\ closes \in BOOLEAN
      /\ Both(hold[h].reward) = Reward /\ Both(hold[h].fee) = Fee
      /\ status \in OpenStates \cup Terminal \cup {"none"}
  BY <1>1 DEF HeldRows, Reserves, Finalizable, TypeOK, PlanRow, Terminal
<1>3. hold[h].reward \in Points /\ hold[h].fee \in Points
  BY DEF TypeOK, HoldRow
<1> HIDE DEF r, closes, status
<1>4. c \in [Funders -> ContributionRow]
  <2>1. ASSUME NEW f \in Funders, NEW x \in Int, NEW y \in Int
        PROVE  [contribution[r][f] EXCEPT !.held = @ - x - y, !.reward = @ + x, !.fee = @ + y]
                 \in ContributionRow
    <3>1. contribution[r][f] \in ContributionRow
      BY <1>2 DEF TypeOK
    <3> DEFINE row == contribution[r][f]
    <3>2. row.held - x - y \in Int /\ row.reward + x \in Int /\ row.fee + y \in Int
      <4>1. row.held \in Int /\ row.reward \in Int /\ row.fee \in Int
        BY <3>1, RowTyped
      <4> HIDE DEF row
      <4> QED BY <4>1
    <3> HIDE DEF row
    <3>3. ASSUME NEW a \in Int, NEW b \in Int, NEW d \in Int
          PROVE  [row EXCEPT !.held = a, !.reward = b, !.fee = d] \in ContributionRow
      BY <3>1 DEF row, ContributionRow
    <3>4. [row EXCEPT !.held = @ - x - y, !.reward = @ + x, !.fee = @ + y] \in ContributionRow
      BY <3>2, <3>3, Zenon
    <3> QED BY <3>4 DEF row
  <2>2. \A f \in Funders : hold[h].reward[f] \in Int /\ hold[h].fee[f] \in Int
    BY <1>3, PointsAreInts
  <2> QED BY <2>1, <2>2
<1>5. NoPoints \in [Funders -> Int]
  BY DEF NoPoints
<1> HIDE DEF c
<1>6. /\ contribution' \in [Rounds -> [Funders -> ContributionRow]]
      /\ wallet' \in [Funders -> Int] /\ budget' \in [Rounds -> Int]
  BY <1>1, <1>2, <1>4, <1>5, SettleTyped
<1>7. onHold' \in [Rounds -> Int]
  BY <1>1, <1>2, CostIsNat, PointsAreNat DEF TypeOK
<1>8. plan' \in [Rounds -> PlanRow]
  BY <1>1, <1>2, PlanTyped, TimesAreNat DEF TypeOK, SetPlan
<1>9. granted \in [Rounds -> SponsorshipRow]
      /\ \A s \in Rounds : granted[s].perks = sponsorship[s].perks
                           /\ granted[s].asked = sponsorship[s].asked
  <2>1. [sponsorship[r] EXCEPT !.granted = @ + 1] \in SponsorshipRow
        /\ [sponsorship[r] EXCEPT !.granted = @ + 1].perks = sponsorship[r].perks
        /\ [sponsorship[r] EXCEPT !.granted = @ + 1].asked = sponsorship[r].asked
    <3>1. sponsorship[r] \in SponsorshipRow /\ sponsorship[r].granted + 1 \in Nat
      BY <1>2 DEF TypeOK, SponsorshipRow
    <3>2. ASSUME NEW s \in SponsorshipRow, NEW n \in Nat
          PROVE  /\ [s EXCEPT !.granted = n] \in SponsorshipRow
                 /\ [s EXCEPT !.granted = n].perks = s.perks
                 /\ [s EXCEPT !.granted = n].asked = s.asked
      BY DEF SponsorshipRow
    <3> QED BY <3>1, <3>2, Zenon
  <2> QED BY <1>2, <2>1 DEF TypeOK
<1> HIDE DEF granted
<1>10. sponsorship' \in [Rounds -> SponsorshipRow] /\ PerksAreNamed'
  <2>1. NoSponsorship \in SponsorshipRow /\ NoSponsorship.perks = 0
    BY DEF NoSponsorship, SponsorshipRow, NoOffer
  <2> QED BY <1>1, <1>2, <1>9, <2>1 DEF PerksAreNamed
<1>11. redeemed' \subseteq Travelers \X Vouchers
  <2>1. PerkDue(r) => sponsorship[r].perks > 0
    BY <1>2 DEF PerkDue, TypeOK, SponsorshipRow
  <2>2. PerkDue(r) => perk \in Travelers \X Vouchers
    BY <1>2, <2>1 DEF PerksAreNamed
  <2> QED BY <1>1, <2>2 DEF TypeOK
<1>12. hold' \in [Holds -> HoldRow]
  BY <1>1, ResolvedTyped DEF TypeOK
<1>13. /\ hold'[h].status = "paid" /\ hold'[h].user = hold[h].user
       /\ \A g \in Holds \ {h} : hold'[g] = hold[g]
  BY <1>1 DEF Resolved, TypeOK, HoldRow
<1>14. HeldRows'
  BY <1>13, HeldRowsKept
<1>15. ProofsNameHolds' /\ PendingProofIsPayable'
  <2>1. \A g \in Holds : hold[g].status = "paid" =>
           hold'[g].status = "paid" /\ hold'[g].user = hold[g].user
    BY <1>13
  <2>2. \A g \in Holds : hold[g].status = "held" /\ HasPendingReview(g) =>
           /\ hold'[g].user = hold[g].user
           /\ \/ hold'[g].status = "paid"
              \/ hold'[g].status = "held" /\ hold'[g].expires = hold[g].expires
    BY <1>13
  <2> QED BY <2>1, <2>2, ProofsKept
<1>16. now' \in Nat
  BY DEF TypeOK
<1> QED BY <1>6, <1>7, <1>8, <1>10, <1>11, <1>12, <1>14, <1>15, <1>16 DEF TypeOK

LEMMA TravelerRows ==
  ASSUME Rows, NEW u \in Travelers, TravelerStep(u)
  PROVE  Rows'
<1> USE DEF Rows
<1>1. ASSUME NEW r \in Rounds, StartFundedAttempt(r, u)
      PROVE  Rows'
  BY <1>1, StartRows
<1>2. CASE PostProof(u)
  <2>1. PICK h \in HeldBy(u) :
          /\ ~Expired(h)
          /\ proof' = [proof EXCEPT ![u] = [status |-> "pending", hold |-> h, at |-> now]]
          /\ SetAttempt(h, "submitted")
    BY <1>2 DEF PostProof
  <2>2. h \in Holds /\ hold[h].status = "held" /\ hold[h].user = u
    BY DEF HeldBy
  <2>3. hold' \in [Holds -> HoldRow] /\ HeldRows'
    <3>1. \A g \in Holds : /\ hold'[g].status = hold[g].status /\ hold'[g].user = hold[g].user
                           /\ hold'[g].round = hold[g].round /\ hold'[g].reward = hold[g].reward
                           /\ hold'[g].fee = hold[g].fee
      BY <2>1, <2>2 DEF SetAttempt, TypeOK, HoldRow
    <3>2. HeldRows'
      BY <3>1, HeldRowsKept
    <3>3. [hold[h] EXCEPT !.attempt = "submitted"] \in HoldRow
      <4>1. hold[h] \in HoldRow
        BY <2>2 DEF TypeOK
      <4> HIDE DEF Points
      <4> QED BY <4>1 DEF HoldRow
    <3>4. hold' \in [Holds -> HoldRow]
      BY <2>1, <3>3 DEF SetAttempt, TypeOK
    <3> QED BY <3>2, <3>4
  <2>4. \A g \in Holds : /\ hold'[g].status = hold[g].status /\ hold'[g].user = hold[g].user
                         /\ hold'[g].expires = hold[g].expires
    BY <2>1, <2>2 DEF SetAttempt, TypeOK, HoldRow
  <2>5. /\ proof'[u] = [status |-> "pending", hold |-> h, at |-> now]
        /\ \A t \in Travelers \ {u} : proof'[t] = proof[t]
    BY <2>1 DEF TypeOK
  <2>6. ProofsNameHolds'
    BY <2>2, <2>5 DEF ProofsNameHolds
  <2>7. PendingProofIsPayable'
    <3>1. ASSUME NEW t \in Travelers, proof'[t].status = "pending"
          PROVE  LET g == proof'[t].hold IN
                 /\ hold'[g].user = t
                 /\ \/ hold'[g].status = "paid"
                    \/ hold'[g].status = "held" /\ proof'[t].at <= hold'[g].expires
      <4>1. CASE t = u
        <5>1. now <= hold[h].expires
          BY <2>1, <2>2 DEF Expired, TypeOK, HoldRow
        <5> QED BY <2>2, <2>4, <2>5, <4>1, <5>1
      <4>2. CASE t # u
        <5>1. proof[t].status = "pending" /\ proof'[t] = proof[t]
          BY <2>5, <3>1, <4>2
        <5>2. proof[t].hold \in Holds
          BY <5>1 DEF ProofsNameHolds
        <5> QED BY <2>4, <5>1, <5>2 DEF PendingProofIsPayable
      <4> QED BY <4>1, <4>2
    <3> QED BY <3>1 DEF PendingProofIsPayable
  <2>8. proof' \in [Travelers -> ProofRow]
    BY <2>1, <2>2 DEF TypeOK, ProofRow
  <2>9. UNCHANGED <<now, redeemed, plan, sponsorship, books, reading>>
    BY <1>2 DEF PostProof
  <2> QED BY <2>3, <2>6, <2>7, <2>8, <2>9 DEF TypeOK, PerksAreNamed, books
<1>3. CASE ReadAttempt(u) \/ DropRequest(u)
  <2>1. reading' \in [Travelers -> Holds \cup {None}]
    BY <1>3 DEF ReadAttempt, DropRequest, AttemptsOf, TypeOK
  <2>2. UNCHANGED <<now, redeemed, plan, sponsorship, books, hold, proof>>
    BY <1>3 DEF ReadAttempt, DropRequest
  <2> QED BY <2>1, <2>2, UnchangedRows DEF TypeOK, PerksAreNamed, books
<1>4. CASE SubmitAttempt(u)
  <2>1. reading[u] \in Holds
    BY <1>4 DEF SubmitAttempt, TypeOK
  <2>2. /\ SetAttempt(reading[u], "submitted") /\ reading' = [reading EXCEPT ![u] = None]
        /\ UNCHANGED <<now, redeemed, plan, sponsorship, books, proof>>
    BY <1>4 DEF SubmitAttempt
  <2>3. /\ hold' \in [Holds -> HoldRow]
        /\ HeldRows' /\ ProofsNameHolds' /\ PendingProofIsPayable'
    BY <2>1, <2>2, SetAttemptRows
  <2> QED BY <2>2, <2>3 DEF TypeOK, PerksAreNamed, books
<1>5. CASE CompleteAttempt(u)
  <2>1. /\ reading[u] \in Holds /\ PayHold(reading[u]) /\ now' = now /\ proof' = proof
        /\ reading' = [reading EXCEPT ![u] = None]
    BY <1>5 DEF CompleteAttempt, HeldBy
  <2>2. reading' \in [Travelers -> Holds \cup {None}] /\ proof' \in [Travelers -> ProofRow]
    BY <2>1 DEF TypeOK
  <2> QED BY <2>1, <2>2, PayRows
<1> QED BY <1>1, <1>2, <1>3, <1>4, <1>5 DEF TravelerStep

LEMMA ReviewRows ==
  ASSUME Rows, ReviewStep
  PROVE  Rows'
<1> USE DEF Rows
<1>1. ASSUME NEW h \in Holds, ApproveAttempt(h)
      PROVE  Rows'
  BY <1>1, PayRows DEF ApproveAttempt, TypeOK
<1>2. ASSUME NEW h \in Holds, ReopenAttempt(h)
      PROVE  Rows'
  <2>1. /\ SetAttempt(h, "in_progress")
        /\ UNCHANGED <<now, redeemed, plan, sponsorship, books, proof, reading>>
    BY <1>2 DEF ReopenAttempt
  <2>2. /\ hold' \in [Holds -> HoldRow]
        /\ HeldRows' /\ ProofsNameHolds' /\ PendingProofIsPayable'
    BY <2>1, SetAttemptRows
  <2> QED BY <2>1, <2>2 DEF TypeOK, PerksAreNamed, books
<1>3. ASSUME NEW u \in Travelers, NEW status \in {"approved", "rejected"},
             proof' = [proof EXCEPT ![u] = Reviewed(status)]
      PROVE  /\ proof' \in [Travelers -> ProofRow]
             /\ \A t \in Travelers : proof'[t].status = "pending" => proof'[t] = proof[t]
  BY <1>3 DEF Reviewed, TypeOK, ProofRow
<1>4. ASSUME NEW u \in Travelers, ApproveProof(u)
      PROVE  Rows'
  <2>1. PICK h \in HeldBy(u) : PayHold(h)
    BY <1>4 DEF ApproveProof
  <2>2. /\ h \in Holds /\ proof' = [proof EXCEPT ![u] = Reviewed("approved")]
        /\ now' = now /\ reading' = reading
    BY <1>4 DEF ApproveProof, HeldBy
  <2> QED BY <1>3, <2>1, <2>2, PayRows DEF TypeOK
<1>5. ASSUME NEW u \in Travelers, RejectProof(u)
      PROVE  Rows'
  <2>1. /\ proof' = [proof EXCEPT ![u] = Reviewed("rejected")]
        /\ SetAttempt(proof[u].hold, "in_progress") \/ UNCHANGED hold
        /\ UNCHANGED <<now, redeemed, plan, sponsorship, books, reading>>
    BY <1>5 DEF RejectProof
  <2>2. proof[u].hold \in Holds
    BY <1>5 DEF RejectProof, ProofsNameHolds
  <2>3. /\ proof' \in [Travelers -> ProofRow]
        /\ \A t \in Travelers : proof'[t].status = "pending" => proof'[t] = proof[t]
    BY <1>3, <2>1
  <2>4. /\ hold' \in [Holds -> HoldRow]
        /\ HeldRows' /\ ProofsNameHolds' /\ PendingProofIsPayable'
    <3>1. CASE SetAttempt(proof[u].hold, "in_progress")
      BY <2>2, <2>3, <3>1, SetAttemptRows
    <3>2. CASE UNCHANGED hold
      <4>1. HeldRows'
        BY <3>2 DEF HeldRows, Reserves
      <4>2. ProofsNameHolds' /\ PendingProofIsPayable'
        BY <2>3, <3>2, ProofsKept
      <4> QED BY <3>2, <4>1, <4>2 DEF TypeOK
    <3> QED BY <2>1, <3>1, <3>2
  <2> QED BY <2>1, <2>3, <2>4 DEF TypeOK, PerksAreNamed, books
<1> QED BY <1>1, <1>2, <1>4, <1>5 DEF ReviewStep

LEMMA FunderRows ==
  ASSUME Rows, NEW r \in Rounds, AuthorStep(r) \/ SponsorStep(r)
  PROVE  Rows'
<1> USE DEF Rows
<1>1. TypeOK'
  BY AuthorStepTyped, SponsorStepTyped
<1>2. UNCHANGED <<hold, proof>>
  BY DEF AuthorStep, SponsorStep, CreatePlan, UpdatePlan, Contribute, SubmitPlan, ClosePlan,
         CancelPlan, ExtendPlan, RequestSponsor, CounterOffer, AcceptSponsor, AcceptCounter,
         AcceptTerms, DecideSponsor, TopUp
<1>3. HeldRows' /\ ProofsNameHolds' /\ PendingProofIsPayable'
  BY <1>2, UnchangedRows
<1>4. PerksAreNamed'
  <2>1. CASE AuthorStep(r)
    <3>1. CASE UNCHANGED sponsorship
      BY <3>1 DEF PerksAreNamed
    <3>2. CASE ClosePlan(r) \/ CancelPlan(r)
      BY <3>2, PerksKept DEF ClosePlan, CancelPlan
    <3> QED BY <2>1, <3>1, <3>2 DEF AuthorStep, CreatePlan, UpdatePlan, Contribute, SubmitPlan, ExtendPlan
  <2>2. ASSUME NEW row, row.perks > 0 => row.asked.voucher \in Vouchers,
               sponsorship' = [sponsorship EXCEPT ![r] = row]
        PROVE  PerksAreNamed'
    BY <2>2 DEF PerksAreNamed, TypeOK
  <2>3. NoSponsorship.perks = 0
    BY DEF NoSponsorship
  <2>4. ASSUME NEW offer \in Offers, RequestSponsor(r, offer)
        PROVE  PerksAreNamed'
    <3> DEFINE due == IF plan[r].status = "pending_sponsors" THEN plan[r].deadline ELSE plan[r].ends
               row == [NoSponsorship EXCEPT !.status = "requested", !.asked = offer, !.expires = due]
    <3>1. sponsorship' = [sponsorship EXCEPT ![r] = row]
      BY <2>4 DEF RequestSponsor
    <3>2. ~(row.perks > 0)
      BY DEF NoSponsorship
    <3> HIDE DEF row
    <3> QED BY <2>2, <3>1, <3>2
  <2>5. ASSUME NEW offer \in Offers, CounterOffer(r, offer)
        PROVE  PerksAreNamed'
    <3> DEFINE row == [sponsorship[r] EXCEPT !.status = "countered", !.countered = offer]
    <3>1. row.perks = sponsorship[r].perks /\ row.asked = sponsorship[r].asked
      BY DEF TypeOK, SponsorshipRow
    <3>2. sponsorship' = [sponsorship EXCEPT ![r] = row]
      BY <2>5 DEF CounterOffer
    <3> HIDE DEF row
    <3> QED BY <2>2, <3>1, <3>2 DEF PerksAreNamed
  <2>6. ASSUME NEW points, NEW perks, AcceptTerms(r, points, perks)
        PROVE  PerksAreNamed'
    <3>1. sponsorship[r].asked.voucher \in Vouchers \cup {None}
      BY DEF TypeOK, SponsorshipRow
    <3> DEFINE row == [NoSponsorship EXCEPT !.status = "accepted", !.perks = perks,
          !.asked.voucher = IF perks > 0 THEN sponsorship[r].asked.voucher ELSE None]
    <3>2. row.perks = perks /\ row.asked.voucher =
            IF perks > 0 THEN sponsorship[r].asked.voucher ELSE None
      BY DEF NoSponsorship, NoOffer
    <3>3. sponsorship' = [sponsorship EXCEPT ![r] = row]
      BY <2>6 DEF AcceptTerms
    <3>4. perks > 0 => sponsorship[r].asked.voucher # None
      BY <2>6 DEF AcceptTerms
    <3> HIDE DEF row
    <3> QED BY <2>2, <3>1, <3>2, <3>3, <3>4
  <2>7. CASE DecideSponsor(r)
    <3>1. sponsorship' = [sponsorship EXCEPT ![r] = NoSponsorship]
      BY <2>7 DEF DecideSponsor
    <3>2. ~(NoSponsorship.perks > 0)
      BY <2>3
    <3> QED BY <2>2, <3>1, <3>2
  <2>8. ASSUME NEW points \in Amounts, TopUp(r, points)
        PROVE  PerksAreNamed'
    BY <2>8 DEF TopUp, PerksAreNamed
  <2> QED BY <2>1, <2>4, <2>5, <2>6, <2>7, <2>8 DEF SponsorStep, AcceptSponsor, AcceptCounter
<1> QED BY <1>1, <1>3, <1>4

LEMMA RowsAtStart == Init => Rows
<1> SUFFICES ASSUME Init PROVE Rows
  OBVIOUS
<1>1. TypeOK
  BY TypesAtStart
<1>2. HeldRows /\ PerksAreNamed /\ ProofsNameHolds /\ PendingProofIsPayable
  BY DEF Init, NoHold, NoSponsorship, Reviewed, HeldRows, PerksAreNamed, ProofsNameHolds,
         PendingProofIsPayable
<1> QED BY <1>1, <1>2 DEF Rows

LEMMA StepKeepsRows ==
  ASSUME Rows, [Next]_fundingVars
  PROVE  Rows'
<1>1. ASSUME NEW r \in Rounds, AuthorStep(r) \/ SponsorStep(r) \/ RunFundingScheduler(r)
      PROVE  Rows'
  BY <1>1, FunderRows, SchedulerRows
<1>2. ASSUME NEW f \in Funders, NEW points \in Amounts, SpendElsewhere(f, points)
      PROVE  Rows'
  <2>1. wallet' \in [Funders -> Int]
    <3>1. wallet[f] - points \in Int
      BY PointsAreNat DEF Rows, TypeOK
    <3> QED BY <1>2, <3>1 DEF SpendElsewhere, Rows, TypeOK
  <2>2. UNCHANGED <<now, redeemed, plan, sponsorship, contribution, budget, onHold, hold, proof, reading>>
    BY <1>2 DEF SpendElsewhere
  <2> QED BY <2>1, <2>2, UnchangedRows DEF Rows, TypeOK, PerksAreNamed
<1>3. ASSUME NEW u \in Travelers, TravelerStep(u)
      PROVE  Rows'
  BY <1>3, TravelerRows
<1>4. ASSUME NEW u \in Travelers, NEW v \in Vouchers, RedeemVoucher(u, v)
      PROVE  Rows'
  <2>1. redeemed' \subseteq Travelers \X Vouchers
    BY <1>4 DEF RedeemVoucher, Rows, TypeOK
  <2>2. UNCHANGED <<now, plan, sponsorship, books, hold, proof, reading>>
    BY <1>4 DEF RedeemVoucher
  <2> QED BY <2>1, <2>2, UnchangedRows DEF Rows, TypeOK, PerksAreNamed, books
<1>5. ASSUME NEW h \in Holds, AbandonFundedAttempt(h)
      PROVE  Rows'
  BY <1>5, AbandonRows
<1>6. CASE ReviewStep
  BY <1>6, ReviewRows
<1>7. CASE Tick
  <2>1. now' \in Nat /\ UNCHANGED <<redeemed, plan, sponsorship, books, hold, proof, reading>>
    BY <1>7 DEF Tick, Rows, TypeOK
  <2> QED BY <2>1, UnchangedRows DEF Rows, TypeOK, PerksAreNamed, books
<1>8. CASE UNCHANGED fundingVars
  BY <1>8, UnchangedRows DEF fundingVars, books, Rows, TypeOK, PerksAreNamed
<1> QED BY <1>1, <1>2, <1>3, <1>4, <1>5, <1>6, <1>7, <1>8 DEF Next

\* Every row of the funding tables has the columns and values its table
\* allows, for any number of rounds, holds and travelers.
THEOREM FundingTypes == Spec => []TypeOK
<1>1. Rows => TypeOK
  BY DEF Rows
<1> QED BY RowsAtStart, StepKeepsRows, <1>1, PTL DEF Spec

\* A proof that waits for its review can always be paid from the hold it was
\* posted for: neither the scheduler, nor an abandoned attempt, nor another
\* start releases it in the meantime.
THEOREM ProofsArePayable == Spec => []PendingProofIsPayable
<1>1. Rows => PendingProofIsPayable
  BY DEF Rows
<1> QED BY RowsAtStart, StepKeepsRows, <1>1, PTL DEF Spec

-----------------------------------------------------------------------------
(* The books *)

Accounted(row) ==
  row.committed = row.remaining + row.held + row.reward + row.fee + row.refunded

\* What the hold h took of the funder f, and the holds of a round together.
Took(f) == [h \in Holds |-> hold[h].reward[f] + hold[h].fee[f]]
HeldSum(r, f) == SumFunctionOnSet(Took(f), HeldIn(r))

BudgetAgrees(r) ==
  budget[r] = IF plan[r].mode = "budget"
              THEN contribution[r]["author"].remaining + contribution[r]["merchant"].remaining
              ELSE 0

Balanced(r) ==
  /\ \A f \in Funders : /\ Accounted(contribution[r][f]) /\ contribution[r][f].remaining >= 0
                        /\ contribution[r][f].held = HeldSum(r, f)
  /\ BudgetAgrees(r)
  /\ onHold[r] = contribution[r]["author"].held + contribution[r]["merchant"].held

\* What the status of a round says of its books: until it opens nothing was
\* held or spent; an active or scheduled budget can pay; once it has ended
\* nothing remains.
Staged(r) ==
  /\ plan[r].status # "none" => plan[r].target >= Cost
  /\ plan[r].status \in {"none", "draft", "pending_sponsors", "scheduled"} =>
       \A f \in Funders : contribution[r][f].committed = contribution[r][f].remaining
  /\ plan[r].status = "none" => \A f \in Funders : contribution[r][f].remaining = 0
  /\ plan[r].status \in {"active", "scheduled"} /\ plan[r].mode = "budget" =>
       contribution[r]["author"].remaining + contribution[r]["merchant"].remaining >= Cost
  /\ plan[r].status \in Terminal =>
       /\ \A f \in Funders : contribution[r][f].remaining = 0
       /\ sponsorship[r].status \notin {"requested", "countered"}
  /\ HeldIn(r) # {} => plan[r].status \in {"active", "closing"}

WalletsCover == \A f \in Funders : wallet[f] >= 0

Books == Rows /\ WalletsCover /\ \A r \in Rounds : Balanced(r) /\ Staged(r)

LEMMA HeldInIsFinite ==
  ASSUME NEW r
  PROVE  HeldIn(r) \subseteq Holds /\ IsFiniteSet(HeldIn(r))
BY HoldsAreFinite, FS_Subset DEF HeldIn

LEMMA TookIsNat ==
  ASSUME TypeOK, NEW h \in Holds, NEW f \in Funders
  PROVE  /\ hold[h].reward[f] \in Nat /\ hold[h].fee[f] \in Nat
         /\ Took(f)[h] = hold[h].reward[f] + hold[h].fee[f] /\ Took(f)[h] \in Nat
<1>1. hold[h].reward \in Points /\ hold[h].fee \in Points
  BY DEF TypeOK, HoldRow
<1> QED BY <1>1 DEF Points, Took

\* The sum the model writes with MapThenSumSet.
LEMMA TookInSum ==
  ASSUME NEW f, NEW hs \in SUBSET Holds
  PROVE  SumFunctionOnSet(Took(f), hs) =
           MapThenSumSet(LAMBDA h : hold[h].reward[f] + hold[h].fee[f], hs)
BY ZenonT(40) DEF Took, MapThenSumSet, MapThenFoldSet, SumFunctionOnSet, FoldFunctionOnSet

LEMMA HeldSumIsSum ==
  ASSUME NEW r, NEW f
  PROVE  HeldSum(r, f) =
           MapThenSumSet(LAMBDA h : hold[h].reward[f] + hold[h].fee[f], HeldIn(r))
<1>1. HeldIn(r) \subseteq Holds
  BY HeldInIsFinite
<1> QED BY <1>1, ZenonT(40) DEF HeldSum, Took, MapThenSumSet, MapThenFoldSet, SumFunctionOnSet,
                    FoldFunctionOnSet

\* The books say what FundingBooks says.
LEMMA BooksSuffice == Books => FundingBooks
<1> SUFFICES ASSUME Books PROVE FundingBooks
  OBVIOUS
<1> USE DEF Books
<1>1. ContributionsAccounted
  BY DEF ContributionsAccounted, Balanced, Accounted
<1>2. ASSUME NEW r \in Rounds
      PROVE  Both(Remaining(contribution[r])) =
               contribution[r]["author"].remaining + contribution[r]["merchant"].remaining
  BY DEF Both, Remaining, Funders
<1>3. ASSUME NEW r \in Rounds, NEW f \in Funders
      PROVE  HeldSum(r, f) =
        MapThenSumSet(LAMBDA h : hold[h].reward[f] + hold[h].fee[f], HeldIn(r))
  BY HeldSumIsSum
<1>4. ASSUME NEW r \in Rounds
      PROVE  onHold[r] = Cost * Cardinality(HeldIn(r))
  <2> DEFINE total == [h \in Holds |-> Took("author")[h] + Took("merchant")[h]]
  <2>1. \A h \in HeldIn(r) : /\ Took("author")[h] \in Int /\ Took("merchant")[h] \in Int
                             /\ total[h] = Took("author")[h] + Took("merchant")[h]
    BY TookIsNat DEF Rows, HeldIn, Funders
  <2>2. \A h \in HeldIn(r) : total[h] = Cost
    <3> TAKE h \in HeldIn(r)
    <3>1. h \in Holds /\ Both(hold[h].reward) = Reward /\ Both(hold[h].fee) = Fee
      BY DEF HeldIn, Rows, HeldRows, Reserves
    <3>2. \A f \in Funders : /\ hold[h].reward[f] \in Nat /\ hold[h].fee[f] \in Nat
                             /\ Took(f)[h] = hold[h].reward[f] + hold[h].fee[f]
      BY <3>1, TookIsNat DEF Rows
    <3> QED BY <3>1, <3>2 DEF Both, Cost, Funders
  <2> HIDE DEF total
  <2>3. SumFunctionOnSet(total, HeldIn(r)) = HeldSum(r, "author") + HeldSum(r, "merchant")
    BY <2>1, HeldInIsFinite, SumOfSums DEF HeldSum
  <2>4. SumFunctionOnSet(total, HeldIn(r)) = Cost * Cardinality(HeldIn(r))
    BY <2>2, HeldInIsFinite, SumOfConstant, CostIsNat
  <2> QED BY <2>3, <2>4 DEF Balanced, Funders
<1>5. \A h \in Holds : hold[h].status = "held" =>
        /\ Both(hold[h].reward) = Reward /\ Both(hold[h].fee) = Fee
        /\ plan[hold[h].round].status \in {"active", "closing"}
  <2> SUFFICES ASSUME NEW h \in Holds, hold[h].status = "held"
      PROVE  /\ Both(hold[h].reward) = Reward /\ Both(hold[h].fee) = Fee
             /\ plan[hold[h].round].status \in {"active", "closing"}
    OBVIOUS
  <2>1. /\ hold[h].round \in Rounds /\ Both(hold[h].reward) = Reward /\ Both(hold[h].fee) = Fee
    BY DEF Rows, HeldRows, Reserves
  <2>2. HeldIn(hold[h].round) # {}
    BY DEF HeldIn
  <2> QED BY <2>1, <2>2 DEF Staged
<1>6. ActiveBudgetsCanPay
  BY <1>2 DEF ActiveBudgetsCanPay, Staged
<1>7. BooksMatchHolds
  <2>1. \A r \in Rounds : budget[r] = IF plan[r].mode = "budget"
                      THEN Both(Remaining(contribution[r])) ELSE 0
    BY <1>2 DEF Balanced, BudgetAgrees
  <2>2. \A r \in Rounds, f \in Funders : /\ contribution[r][f].remaining >= 0
             /\ contribution[r][f].held =
                 MapThenSumSet(LAMBDA h : hold[h].reward[f] + hold[h].fee[f], HeldIn(r))
    <3> TAKE r \in Rounds, f \in Funders
    <3>1. contribution[r][f].remaining >= 0 /\ contribution[r][f].held = HeldSum(r, f)
      BY DEF Balanced
    <3> QED BY <1>3, <3>1
  <2> QED BY <1>4, <1>5, <1>6, <2>1, <2>2 DEF BooksMatchHolds, WalletsCover
<1>8. EndedRoundsAreSettled
  BY <1>5 DEF EndedRoundsAreSettled, Staged
<1> QED BY <1>1, <1>7, <1>8 DEF FundingBooks

LEMMA SettleBalances ==
  ASSUME TypeOK, WalletsCover, NEW r \in Rounds, BudgetAgrees(r),
         NEW c \in [Funders -> ContributionRow], NEW freed \in [Funders -> Int],
         NEW closes \in BOOLEAN, Settle(r, c, freed, closes),
         plan'[r].mode = plan[r].mode,
         \A f \in Funders : Accounted(c[f]) /\ c[f].remaining >= 0,
         \A f \in Funders : c[f].remaining = contribution[r][f].remaining + freed[f]
                            \/ plan[r].mode = "window",
         plan[r].mode = "window" => \A f \in Funders : wallet[f] + freed[f] >= 0
  PROVE  /\ \A s \in Rounds \ {r} : contribution'[s] = contribution[s] /\ budget'[s] = budget[s]
         /\ \A f \in Funders :
              /\ Accounted(contribution'[r][f]) /\ contribution'[r][f].remaining >= 0
              /\ contribution'[r][f].held = c[f].held
              /\ contribution'[r][f].committed = c[f].committed
              /\ contribution'[r][f].remaining = IF closes THEN 0 ELSE c[f].remaining
         /\ BudgetAgrees(r)' /\ WalletsCover'
<1>1. ASSUME NEW f \in Funders
      PROVE  c[f] \in ContributionRow /\ c[f].committed \in Int /\ c[f].remaining \in Int
             /\ c[f].held \in Int /\ c[f].reward \in Int /\ c[f].fee \in Int
             /\ c[f].refunded \in Int
  BY RowTyped
<1>2. ASSUME NEW f \in Funders
      PROVE  /\ Refunded(c)[f].committed = c[f].committed
             /\ Refunded(c)[f].remaining = 0 /\ Refunded(c)[f].held = c[f].held
             /\ Refunded(c)[f].reward = c[f].reward /\ Refunded(c)[f].fee = c[f].fee
             /\ Refunded(c)[f].refunded = c[f].refunded + c[f].remaining
  <2>1. c[f] \in ContributionRow
    BY <1>1
  <2> QED BY <2>1 DEF Refunded, ContributionRow
<1>3. contribution'[r] = IF closes THEN Refunded(c) ELSE c
  BY DEF Settle, TypeOK
<1>4. \A s \in Rounds \ {r} : contribution'[s] = contribution[s] /\ budget'[s] = budget[s]
  BY DEF Settle, TypeOK
<1>5. ASSUME NEW f \in Funders
      PROVE  /\ Accounted(contribution'[r][f]) /\ contribution'[r][f].remaining >= 0
             /\ contribution'[r][f].held = c[f].held
             /\ contribution'[r][f].committed = c[f].committed
             /\ contribution'[r][f].remaining = IF closes THEN 0 ELSE c[f].remaining
  <2>1. Accounted(c[f]) /\ c[f].remaining >= 0
    OBVIOUS
  <2>2. CASE closes
    BY <1>1, <1>2, <1>3, <2>1, <2>2 DEF Accounted
  <2>3. CASE ~closes
    BY <1>3, <2>1, <2>3
  <2> QED BY <2>2, <2>3
<1> DEFINE refund == IF closes THEN Remaining(c) ELSE NoPoints
<1>6. \A f \in Funders : refund[f] \in Int /\ refund[f] >= 0
                         /\ refund[f] = IF closes THEN c[f].remaining ELSE 0
  BY <1>1 DEF Remaining, NoPoints
<1>7. Both(refund) = refund["author"] + refund["merchant"]
      /\ Both(freed) = freed["author"] + freed["merchant"]
  BY DEF Both
<1>8. /\ wallet' = [f \in Funders |->
                  wallet[f] + IF plan[r].mode = "budget" THEN refund[f] ELSE freed[f]]
      /\ plan[r].mode = "budget" =>
           budget' = [budget EXCEPT ![r] = @ + Both(freed) - Both(refund)]
      /\ plan[r].mode # "budget" => budget' = budget
  BY DEF Settle
<1> HIDE DEF refund
<1>9. plan[r].mode \in {"budget", "window"}
  BY DEF TypeOK, PlanRow
<1>10. WalletsCover'
  <2>1. \A f \in Funders : wallet[f] \in Int /\ wallet[f] >= 0
    BY DEF TypeOK, WalletsCover
  <2> QED BY <1>6, <1>8, <1>9, <2>1 DEF WalletsCover
<1>11. BudgetAgrees(r)'
  <2>1. CASE plan[r].mode = "budget"
    <3>1. \A f \in Funders : c[f].remaining = contribution[r][f].remaining + freed[f]
      BY <2>1
    <3>2. budget'[r] = budget[r] + Both(freed) - Both(refund)
      BY <1>8, <2>1 DEF TypeOK
    <3>3. budget[r] = contribution[r]["author"].remaining + contribution[r]["merchant"].remaining
      BY <2>1 DEF BudgetAgrees
    <3>4. \A f \in Funders : contribution[r][f].remaining \in Int /\ freed[f] \in Int
      <4>1. \A f \in Funders : contribution[r][f] \in ContributionRow
        BY DEF TypeOK
      <4> QED BY <4>1, RowTyped
    <3>5. \A f \in Funders : contribution'[r][f].remaining =
            contribution[r][f].remaining + freed[f] - refund[f]
      BY <1>5, <1>6, <3>1, <3>4
    <3>6. "author" \in Funders /\ "merchant" \in Funders
      BY DEF Funders
    <3>7. budget'[r] = contribution'[r]["author"].remaining + contribution'[r]["merchant"].remaining
      BY <1>6, <1>7, <3>2, <3>3, <3>4, <3>5, <3>6
    <3> QED BY <2>1, <3>7 DEF BudgetAgrees
  <2>2. CASE plan[r].mode = "window"
    BY <1>8, <2>2 DEF BudgetAgrees
  <2> QED BY <1>9, <2>1, <2>2
<1> QED BY <1>4, <1>5, <1>10, <1>11

LEMMA FreedIsSum ==
  ASSUME TypeOK, NEW hs, hs \in SUBSET Holds, NEW freed \in FreedBy(hs)
  PROVE  /\ freed \in Points
         /\ \A f \in Funders : freed[f] = SumFunctionOnSet(Took(f), hs)
<1>1. freed \in Points
        /\ freed = [f \in Funders |->
             MapThenSumSet(LAMBDA h : hold[h].reward[f] + hold[h].fee[f], hs)]
  BY DEF FreedBy
<1>2. ASSUME NEW f \in Funders
      PROVE  freed[f] = SumFunctionOnSet(Took(f), hs)
  <2>1. freed[f] = MapThenSumSet(LAMBDA h : hold[h].reward[f] + hold[h].fee[f], hs)
    BY <1>1, Zenon
  <2>2. SumFunctionOnSet(Took(f), hs) =
          MapThenSumSet(LAMBDA h : hold[h].reward[f] + hold[h].fee[f], hs)
    BY ZenonT(40) DEF Took, MapThenSumSet, MapThenFoldSet, SumFunctionOnSet, FoldFunctionOnSet
  <2> QED BY <2>1, <2>2, Zenon
<1> QED BY <1>1, <1>2

\* A round nothing of which changes.
LEMMA RoundKept ==
  ASSUME NEW s \in Rounds, Balanced(s), Staged(s),
         contribution'[s] = contribution[s], budget'[s] = budget[s], onHold'[s] = onHold[s],
         plan'[s] = plan[s], sponsorship'[s] = sponsorship[s], HeldIn(s)' = HeldIn(s),
         \A h \in HeldIn(s) : hold'[h].reward = hold[h].reward /\ hold'[h].fee = hold[h].fee
  PROVE  Balanced(s)' /\ Staged(s)'
<1>1. ASSUME NEW f \in Funders
      PROVE  HeldSum(s, f)' = HeldSum(s, f)
  <2>1. \A h \in HeldIn(s) : Took(f)'[h] = Took(f)[h]
    BY HeldInIsFinite DEF Took
  <2>2. SumFunctionOnSet(Took(f)', HeldIn(s)) = SumFunctionOnSet(Took(f), HeldIn(s))
    BY <2>1, HeldInIsFinite, SumOfEqual
  <2> QED BY <2>2 DEF HeldSum
<1> QED BY <1>1 DEF Balanced, BudgetAgrees, Staged

\* A step by which the points x leave the hold account of the round, to the
\* budget, to the funders or to the traveler.
Moves(r, c, freed, x, closes) ==
  /\ Settle(r, c, freed, closes) /\ plan'[r].mode = plan[r].mode
  /\ onHold' = [onHold EXCEPT ![r] = @ - Both(x)]
  /\ \A f \in Funders : Accounted(c[f]) /\ c[f].remaining >= 0
  /\ \A f \in Funders : c[f].held = contribution[r][f].held - x[f]
  /\ \A f \in Funders : \/ c[f].remaining = contribution[r][f].remaining + freed[f]
                         \/ plan[r].mode = "window"
  /\ plan[r].mode = "window" => \A f \in Funders : wallet[f] + freed[f] >= 0
  /\ \A f \in Funders : HeldSum(r, f)' = HeldSum(r, f) - x[f]

OthersStay(r) ==
  \A s \in Rounds \ {r} :
    /\ plan'[s] = plan[s] /\ sponsorship'[s] = sponsorship[s] /\ HeldIn(s)' = HeldIn(s)
    /\ \A h \in HeldIn(s) : hold'[h].reward = hold[h].reward /\ hold'[h].fee = hold[h].fee

LEMMA BooksMove ==
  ASSUME Books, NEW r \in Rounds, NEW c \in [Funders -> ContributionRow],
         NEW freed \in [Funders -> Int], NEW x \in [Funders -> Int], NEW closes \in BOOLEAN,
         Moves(r, c, freed, x, closes), OthersStay(r)
  PROVE  /\ WalletsCover' /\ Balanced(r)'
         /\ \A s \in Rounds \ {r} : Balanced(s)' /\ Staged(s)'
         /\ \A f \in Funders :
              /\ contribution'[r][f].committed = c[f].committed
              /\ contribution'[r][f].remaining = IF closes THEN 0 ELSE c[f].remaining
<1> USE DEF Moves, OthersStay
<1>1. TypeOK /\ WalletsCover /\ Balanced(r)
  BY DEF Books, Rows
<1>2. /\ \A s \in Rounds \ {r} : contribution'[s] = contribution[s] /\ budget'[s] = budget[s]
      /\ \A f \in Funders :
              /\ Accounted(contribution'[r][f]) /\ contribution'[r][f].remaining >= 0
              /\ contribution'[r][f].held = c[f].held
              /\ contribution'[r][f].committed = c[f].committed
              /\ contribution'[r][f].remaining = IF closes THEN 0 ELSE c[f].remaining
      /\ BudgetAgrees(r)' /\ WalletsCover'
  BY <1>1, SettleBalances DEF Balanced
<1>3. \A s \in Rounds \ {r} : Balanced(s)' /\ Staged(s)'
  BY <1>1, <1>2, RoundKept DEF Books, TypeOK
<1>4. ASSUME NEW f \in Funders
      PROVE  contribution'[r][f].held = HeldSum(r, f)'
  BY <1>1, <1>2 DEF Balanced
<1>5. onHold'[r] = contribution'[r]["author"].held + contribution'[r]["merchant"].held
  <2>1. onHold'[r] = onHold[r] - Both(x)
    BY <1>1 DEF TypeOK
  <2>2. Both(x) = x["author"] + x["merchant"]
    BY DEF Both
  <2>3. \A f \in Funders : contribution[r][f].held \in Int /\ x[f] \in Int
    <3>1. \A f \in Funders : contribution[r][f] \in ContributionRow
      BY <1>1 DEF TypeOK
    <3> QED BY <3>1, RowTyped
  <2>4. "author" \in Funders /\ "merchant" \in Funders
    BY DEF Funders
  <2>5. onHold[r] = contribution[r]["author"].held + contribution[r]["merchant"].held
    BY <1>1 DEF Balanced
  <2>6. \A f \in Funders : contribution'[r][f].held = contribution[r][f].held - x[f]
    BY <1>2
  <2> QED BY <2>1, <2>2, <2>3, <2>4, <2>5, <2>6
<1>6. Balanced(r)'
  BY <1>2, <1>4, <1>5 DEF Balanced
<1> QED BY <1>2, <1>3, <1>6

\* The sums of a round once the rows hs of it are no longer held.
LEMMA SumsAfter ==
  ASSUME TypeOK, NEW r \in Rounds, NEW hs, hs \subseteq HeldIn(r), NEW f \in Funders,
         HeldIn(r)' = HeldIn(r) \ hs,
         \A h \in HeldIn(r) \ hs : hold'[h] = hold[h]
  PROVE  HeldSum(r, f)' = HeldSum(r, f) - SumFunctionOnSet(Took(f), hs)
<1>1. HeldIn(r) \subseteq Holds /\ IsFiniteSet(HeldIn(r))
  BY HeldInIsFinite
<1>2. \A h \in HeldIn(r) : Took(f)[h] \in Int
  BY <1>1, TookIsNat
<1>3. SumFunctionOnSet(Took(f), HeldIn(r) \ hs) =
        SumFunctionOnSet(Took(f), HeldIn(r)) - SumFunctionOnSet(Took(f), hs)
  BY <1>1, <1>2, SumOfRest
<1>4. \A h \in HeldIn(r) \ hs : Took(f)'[h] = Took(f)[h]
  BY <1>1 DEF Took
<1>5. IsFiniteSet(HeldIn(r) \ hs)
  BY <1>1, FS_Subset
<1>6. SumFunctionOnSet(Took(f)', HeldIn(r) \ hs) = SumFunctionOnSet(Took(f), HeldIn(r) \ hs)
  BY <1>4, <1>5, SumOfEqual
<1> QED BY <1>3, <1>6 DEF HeldSum

LEMMA ReleasedIsNotHeld ==
  ASSUME TypeOK, NEW hs, hold' = Released(hs), NEW s \in Rounds
  PROVE  HeldIn(s)' = HeldIn(s) \ hs /\ \A h \in Holds \ hs : hold'[h] = hold[h]
BY ReleasedRow DEF HeldIn

\* Returned points stay accounted for.
LEMMA ReturnedRow ==
  ASSUME NEW c \in [Funders -> ContributionRow], NEW freed \in Points, NEW f \in Funders
  PROVE  /\ Returned(c, freed)[f] \in ContributionRow
         /\ Returned(c, freed)[f].committed = c[f].committed
         /\ Returned(c, freed)[f].remaining = c[f].remaining + freed[f]
         /\ Returned(c, freed)[f].held = c[f].held - freed[f]
         /\ Accounted(c[f]) => Accounted(Returned(c, freed)[f])
         /\ freed[f] \in Nat
<1>1. freed[f] \in Nat /\ freed[f] \in Int
  BY DEF Points
<1>2. c[f] \in ContributionRow
  OBVIOUS
<1>3. /\ c[f].committed \in Int /\ c[f].remaining \in Int /\ c[f].held \in Int
      /\ c[f].reward \in Int /\ c[f].fee \in Int /\ c[f].refunded \in Int
  BY <1>2, ColumnsAreInts
<1> DEFINE row == Returned(c, freed)[f]
<1>4. row = [c[f] EXCEPT !.remaining = @ + freed[f], !.held = @ - freed[f]]
  BY DEF Returned
<1>5. row \in ContributionRow
  BY <1>1, <1>2, <1>4, RowTyped
<1>6. /\ row.committed = c[f].committed /\ row.remaining = c[f].remaining + freed[f]
      /\ row.held = c[f].held - freed[f] /\ row.reward = c[f].reward
      /\ row.fee = c[f].fee /\ row.refunded = c[f].refunded
  BY <1>2, <1>4 DEF ContributionRow
<1> HIDE DEF row
<1>7. Accounted(c[f]) => Accounted(row)
  BY <1>1, <1>3, <1>6 DEF Accounted
<1> QED BY <1>1, <1>5, <1>6, <1>7 DEF row

\* A release, after which the round has the status `status`.
LEMMA ReleaseBooks ==
  ASSUME Books, Rows', NEW r \in Rounds, NEW hs, hs \subseteq HeldIn(r), NEW freed \in FreedBy(hs),
         NEW closes \in BOOLEAN, NEW status,
         hold' = Released(hs), Settle(r, Returned(contribution[r], freed), freed, closes),
         onHold' = [onHold EXCEPT ![r] = @ - Both(freed)], SetPlan(r, status),
         ExpireSponsorship(r, closes),
         closes => HeldIn(r) \subseteq hs /\ status \in Terminal /\ plan[r].status # "none",
         \/ closes \/ status = plan[r].status
         \/ status = "closing" /\ plan[r].status \in {"active", "closing"}
         \/ status = "closing" /\ plan[r].status = "scheduled"
         \/ status = "active" /\ plan[r].status = "scheduled"
  PROVE  Books'
<1>1. TypeOK /\ hs \in SUBSET Holds /\ WalletsCover /\ Balanced(r) /\ Staged(r)
  BY HeldInIsFinite DEF Books, Rows
<1>2. /\ freed \in Points /\ freed \in [Funders -> Int]
      /\ \A f \in Funders : freed[f] = SumFunctionOnSet(Took(f), hs) /\ freed[f] \in Nat
  <2>1. freed \in Points /\ \A f \in Funders : freed[f] = SumFunctionOnSet(Took(f), hs)
    BY <1>1, FreedIsSum
  <2> QED BY <2>1 DEF Points
<1> DEFINE c == Returned(contribution[r], freed)
<1>3. contribution[r] \in [Funders -> ContributionRow]
  BY <1>1 DEF TypeOK
<1>4. \A f \in Funders : contribution[r][f].remaining \in Int /\ contribution[r][f].remaining >= 0
  BY <1>1, <1>3, ColumnsAreInts DEF Balanced
<1>5. /\ c \in [Funders -> ContributionRow]
      /\ \A f \in Funders : /\ Accounted(c[f]) /\ c[f].remaining >= 0
                            /\ c[f].held = contribution[r][f].held - freed[f]
                            /\ c[f].remaining = contribution[r][f].remaining + freed[f]
                            /\ c[f].committed = contribution[r][f].committed
  <2>1. c \in [Funders -> ContributionRow]
    BY <1>2, <1>3, ReturnedTyped
  <2>2. ASSUME NEW f \in Funders
        PROVE  /\ Accounted(c[f]) /\ c[f].remaining >= 0
               /\ c[f].held = contribution[r][f].held - freed[f]
               /\ c[f].remaining = contribution[r][f].remaining + freed[f]
               /\ c[f].committed = contribution[r][f].committed
    <3>1. Accounted(contribution[r][f])
      BY <1>1 DEF Balanced
    <3>2. /\ Accounted(c[f]) /\ c[f].held = contribution[r][f].held - freed[f]
          /\ c[f].remaining = contribution[r][f].remaining + freed[f]
          /\ c[f].committed = contribution[r][f].committed
      BY <1>2, <1>3, <3>1, ReturnedRow
    <3>3. freed[f] \in Nat
      BY <1>2
    <3> HIDE DEF c
    <3> QED BY <1>4, <3>2, <3>3
  <2> QED BY <2>1, <2>2
<1>6. /\ \A s \in Rounds : HeldIn(s)' = HeldIn(s) \ hs
      /\ \A h \in Holds \ hs : hold'[h] = hold[h]
  BY <1>1, ReleasedIsNotHeld
<1>7. \A f \in Funders : HeldSum(r, f)' = HeldSum(r, f) - freed[f]
  <2>1. \A h \in HeldIn(r) \ hs : hold'[h] = hold[h]
    BY <1>6, HeldInIsFinite
  <2> QED BY <1>1, <1>2, <1>6, <2>1, SumsAfter
<1>8. OthersStay(r)
  <2> SUFFICES ASSUME NEW s \in Rounds \ {r}
      PROVE  /\ plan'[s] = plan[s] /\ sponsorship'[s] = sponsorship[s] /\ HeldIn(s)' = HeldIn(s)
             /\ \A h \in HeldIn(s) : hold'[h].reward = hold[h].reward /\ hold'[h].fee = hold[h].fee
    BY DEF OthersStay
  <2>1. HeldIn(s) \cap HeldIn(r) = {}
    BY DEF HeldIn
  <2>2. HeldIn(s)' = HeldIn(s) /\ \A h \in HeldIn(s) : hold'[h] = hold[h]
    BY <1>6, <2>1, HeldInIsFinite
  <2>3. plan'[s] = plan[s] /\ sponsorship'[s] = sponsorship[s]
    BY <1>1 DEF SetPlan, ExpireSponsorship, TypeOK
  <2> QED BY <2>2, <2>3
<1>9. plan'[r].mode = plan[r].mode /\ plan'[r].status = status /\ plan'[r].target = plan[r].target
  BY <1>1 DEF SetPlan, TypeOK, PlanRow
<1>10. \A f \in Funders : wallet[f] + freed[f] >= 0
  <2>1. \A f \in Funders : wallet[f] \in Int /\ wallet[f] >= 0
    BY <1>1 DEF TypeOK, WalletsCover
  <2> QED BY <1>2, <2>1
<1> HIDE DEF c
<1>11. /\ WalletsCover' /\ Balanced(r)'
       /\ \A s \in Rounds \ {r} : Balanced(s)' /\ Staged(s)'
       /\ \A f \in Funders :
            /\ contribution'[r][f].committed = c[f].committed
            /\ contribution'[r][f].remaining = IF closes THEN 0 ELSE c[f].remaining
  <2>1. Moves(r, c, freed, freed, closes)
    BY <1>5, <1>7, <1>9, <1>10 DEF c, Moves
  <2> QED BY <1>2, <1>5, <1>8, <2>1, BooksMove
<1>12. hs = {} => \A f \in Funders : freed[f] = 0
  BY <1>2, SumOfEmpty
<1>13. sponsorship'[r] = sponsorship[r] \/ sponsorship'[r].status = "none"
  BY <1>1 DEF ExpireSponsorship, NoSponsorship, TypeOK
<1>14. closes => sponsorship'[r].status \notin {"requested", "countered"}
  BY <1>1 DEF ExpireSponsorship, NoSponsorship, TypeOK
<1>15. Staged(r)'
  <2>1. CASE closes
    <3>1. HeldIn(r)' = {} /\ status \in Terminal
      BY <1>6, <2>1
    <3>2. \A f \in Funders : contribution'[r][f].remaining = 0
      BY <1>11, <2>1
    <3>3. plan'[r].target >= Cost
      BY <1>1, <1>9, <2>1 DEF Staged
    <3> QED BY <1>9, <1>14, <2>1, <3>1, <3>2, <3>3 DEF Staged, Terminal
  <2>2. CASE ~closes
    <3>1. \A f \in Funders :
            /\ contribution'[r][f].committed = contribution[r][f].committed
            /\ contribution'[r][f].remaining = contribution[r][f].remaining + freed[f]
            /\ contribution[r][f].remaining \in Int /\ freed[f] \in Nat
      BY <1>2, <1>4, <1>5, <1>11, <2>2
    <3>2. HeldIn(r) = {} => \A f \in Funders :
            contribution'[r][f].remaining = contribution[r][f].remaining
      BY <1>12, <3>1
    <3>3. HeldIn(r) # {} => plan[r].status \in {"active", "closing"}
      BY <1>1 DEF Staged
    <3>4. "author" \in Funders /\ "merchant" \in Funders
      BY DEF Funders
    <3>5. plan'[r].status # "none" => plan'[r].target >= Cost
      BY <1>1, <1>9, <2>2 DEF Staged
    <3>6. plan'[r].status \in {"none", "draft", "pending_sponsors", "scheduled"} =>
            \A f \in Funders : contribution'[r][f].committed = contribution'[r][f].remaining
      BY <1>1, <1>9, <2>2, <3>1, <3>2, <3>3 DEF Staged
    <3>7. plan'[r].status = "none" => \A f \in Funders : contribution'[r][f].remaining = 0
      BY <1>1, <1>9, <2>2, <3>2, <3>3 DEF Staged
    <3>8. plan'[r].status \in {"active", "scheduled"} /\ plan'[r].mode = "budget" =>
       contribution'[r]["author"].remaining + contribution'[r]["merchant"].remaining >= Cost
      <4>1. SUFFICES ASSUME plan'[r].status \in {"active", "scheduled"}, plan'[r].mode = "budget"
            PROVE  contribution'[r]["author"].remaining + contribution'[r]["merchant"].remaining >= Cost
        OBVIOUS
      <4>2. plan[r].status \in {"active", "scheduled"} /\ plan[r].mode = "budget"
        BY <1>9, <2>2, <4>1
      <4>3. contribution[r]["author"].remaining + contribution[r]["merchant"].remaining >= Cost
        BY <1>1, <4>2 DEF Staged
      <4> QED BY <3>1, <3>4, <4>3, CostIsNat
    <3>9. plan'[r].status \in Terminal =>
       /\ \A f \in Funders : contribution'[r][f].remaining = 0
       /\ sponsorship'[r].status \notin {"requested", "countered"}
      BY <1>1, <1>9, <1>13, <2>2, <3>2, <3>3 DEF Staged, Terminal
    <3>10. HeldIn(r)' # {} => plan'[r].status \in {"active", "closing"}
      BY <1>6, <1>9, <2>2, <3>3
    <3> QED BY <3>5, <3>6, <3>7, <3>8, <3>9, <3>10 DEF Staged
  <2> QED BY <2>1, <2>2
<1> QED BY <1>11, <1>15 DEF Books

LEMMA AbandonBooks ==
  ASSUME Books, NEW h \in Holds, AbandonFundedAttempt(h)
  PROVE  Books'
<1>1. Rows'
  BY AbandonRows DEF Books
<1>2. hold[h].status = "held" /\ hold[h].round \in Rounds
  BY DEF AbandonFundedAttempt, Books, Rows, HeldRows, Reserves
<1>3. PICK r \in Rounds : r = hold[h].round
  BY <1>2
<1> DEFINE closes == plan[r].status = "closing" /\ Finalizable(r, {h})
           status == IF closes THEN "closed" ELSE plan[r].status
<1>4. PICK freed \in FreedBy({h}) :
       /\ hold' = Released({h})
       /\ Settle(r, Returned(contribution[r], freed), freed, closes)
       /\ onHold' = [onHold EXCEPT ![r] = @ - Both(freed)]
       /\ SetPlan(r, status)
       /\ ExpireSponsorship(r, closes)
  BY <1>3 DEF AbandonFundedAttempt
<1>5. {h} \subseteq HeldIn(r)
  BY <1>2, <1>3 DEF HeldIn
<1>6. closes \in BOOLEAN /\ (closes => HeldIn(r) \subseteq {h} /\ plan[r].status = "closing")
  BY DEF Finalizable
<1>7. closes => status = "closed"
  OBVIOUS
<1>8. ~closes => status = plan[r].status
  OBVIOUS
<1>9. "closed" \in Terminal
  BY DEF Terminal
<1> HIDE DEF closes, status
<1> QED BY <1>1, <1>4, <1>5, <1>6, <1>7, <1>8, <1>9, ReleaseBooks

LEMMA SchedulerBooks ==
  ASSUME Books, NEW r \in Rounds, RunFundingScheduler(r)
  PROVE  Books'
<1>1. Rows'
  BY SchedulerRows DEF Books
<1> DEFINE closes == NextStatus(r) \in Terminal /\ plan[r].status \in OpenStates
<1>2. PICK freed \in FreedBy(Lapsed(r)) :
       /\ hold' = Released(Lapsed(r))
       /\ Settle(r, Returned(contribution[r], freed), freed, closes)
       /\ onHold' = [onHold EXCEPT ![r] = @ - Both(freed)]
  BY DEF RunFundingScheduler
<1>3. SetPlan(r, NextStatus(r)) /\ ExpireSponsorship(r, closes)
  BY DEF RunFundingScheduler
<1>4. Lapsed(r) \subseteq HeldIn(r)
  BY DEF Lapsed
<1>5. closes => HeldIn(r) \subseteq Lapsed(r) /\ NextStatus(r) \in Terminal /\ plan[r].status # "none"
  BY DEF NextStatus, Terminal, OpenStates, Finalizable
<1>6. \/ closes \/ NextStatus(r) = plan[r].status
      \/ NextStatus(r) = "closing" /\ plan[r].status \in {"active", "closing"}
      \/ NextStatus(r) = "closing" /\ plan[r].status = "scheduled"
      \/ NextStatus(r) = "active" /\ plan[r].status = "scheduled"
  BY DEF NextStatus, Terminal, OpenStates, PendingIsOver, WindowIsOver, MayOpen
<1>7. closes \in BOOLEAN
  OBVIOUS
<1> HIDE DEF closes
<1> QED BY <1>1, <1>2, <1>3, <1>4, <1>5, <1>6, <1>7, ReleaseBooks

\* A paid hold takes its reward and its fee out of the contributions.
Paid(row, x, y) == [row EXCEPT !.held = @ - x - y, !.reward = @ + x, !.fee = @ + y]

LEMMA PaidRow ==
  ASSUME NEW row \in ContributionRow, NEW x \in Int, NEW y \in Int, Accounted(row), NEW paid,
         paid = Paid(row, x, y)
  PROVE  /\ paid \in ContributionRow /\ Accounted(paid)
         /\ paid.held = row.held - (x + y) /\ paid.remaining = row.remaining
         /\ paid.committed = row.committed
<1>1. /\ row.committed \in Int /\ row.remaining \in Int /\ row.held \in Int
      /\ row.reward \in Int /\ row.fee \in Int /\ row.refunded \in Int
  BY ColumnsAreInts
<1>2. row.held - x - y \in Int /\ row.reward + x \in Int /\ row.fee + y \in Int
      /\ row.held - x - y = row.held - (x + y)
  BY <1>1
<1> DEFINE With(a, b, d) == [row EXCEPT !.held = a, !.reward = b, !.fee = d]
<1>3. ASSUME NEW a \in Int, NEW b \in Int, NEW d \in Int
      PROVE  /\ With(a, b, d) \in ContributionRow
             /\ With(a, b, d).held = a /\ With(a, b, d).reward = b /\ With(a, b, d).fee = d
             /\ With(a, b, d).remaining = row.remaining
             /\ With(a, b, d).committed = row.committed
             /\ With(a, b, d).refunded = row.refunded
  BY DEF ContributionRow
<1>4. /\ paid \in ContributionRow
      /\ paid.held = row.held - x - y /\ paid.reward = row.reward + x /\ paid.fee = row.fee + y
      /\ paid.remaining = row.remaining /\ paid.committed = row.committed
      /\ paid.refunded = row.refunded
  <2>1. PICK a \in Int, b \in Int, d \in Int :
          a = row.held - x - y /\ b = row.reward + x /\ d = row.fee + y
    BY <1>2
  <2>2. paid = With(a, b, d)
    BY <2>1 DEF Paid
  <2> HIDE DEF With
  <2> QED BY <1>3, <2>1, <2>2
<1>5. Accounted(paid)
  BY <1>1, <1>4 DEF Accounted
<1>6. paid.held = row.held - (x + y)
  BY <1>2, <1>4
<1> QED BY <1>4, <1>5, <1>6

LEMMA PayBooks ==
  ASSUME Books, Rows', NEW h \in Holds, PayHold(h)
  PROVE  Books'
<1>1. hold[h].status = "held" /\ hold[h].round \in Rounds
  BY DEF PayHold, Books, Rows, HeldRows, Reserves
<1>2. PICK r \in Rounds : r = hold[h].round
  BY <1>1
<1> DEFINE x == [f \in Funders |-> hold[h].reward[f] + hold[h].fee[f]]
           c == [f \in Funders |-> [contribution[r][f] EXCEPT
              !.held = @ - hold[h].reward[f] - hold[h].fee[f],
              !.reward = @ + hold[h].reward[f], !.fee = @ + hold[h].fee[f]]]
           closes == plan[r].status = "closing" /\ Finalizable(r, {h})
           status == IF closes THEN "closed" ELSE plan[r].status
           granted == IF PerkDue(r)
                 THEN [sponsorship EXCEPT ![r].granted = @ + 1] ELSE sponsorship
<1>3. /\ hold' = [hold EXCEPT ![h] = Resolved(h, "paid", "completed")]
      /\ Settle(r, c, NoPoints, closes)
      /\ onHold' = [onHold EXCEPT ![r] = @ - Both(hold[h].reward) - Both(hold[h].fee)]
      /\ SetPlan(r, status)
      /\ sponsorship' = IF closes /\ granted[r].status \in {"requested", "countered"}
                        THEN [granted EXCEPT ![r] = NoSponsorship] ELSE granted
  BY <1>2 DEF PayHold
<1>4. TypeOK /\ WalletsCover /\ Balanced(r) /\ Staged(r)
  BY DEF Books, Rows
<1>5. /\ hold[h].reward \in Points /\ hold[h].fee \in Points
      /\ \A f \in Funders : hold[h].reward[f] \in Nat /\ hold[h].fee[f] \in Nat
  <2>1. hold[h].reward \in Points /\ hold[h].fee \in Points
    BY <1>4 DEF TypeOK, HoldRow
  <2> QED BY <1>4, <2>1, TookIsNat
<1>6. x \in [Funders -> Int] /\ \A f \in Funders : x[f] = hold[h].reward[f] + hold[h].fee[f]
  BY <1>5
<1>7. Both(x) = Both(hold[h].reward) + Both(hold[h].fee) /\ Both(hold[h].reward) \in Int
      /\ Both(hold[h].fee) \in Int
  BY <1>5, <1>6 DEF Both, Funders
<1>8. contribution[r] \in [Funders -> ContributionRow]
  BY <1>4 DEF TypeOK
<1>9. /\ c \in [Funders -> ContributionRow]
      /\ \A f \in Funders : /\ Accounted(c[f]) /\ c[f].held = contribution[r][f].held - x[f]
                            /\ c[f].remaining = contribution[r][f].remaining
                            /\ c[f].committed = contribution[r][f].committed
  <2>1. ASSUME NEW f \in Funders
        PROVE  /\ c[f] \in ContributionRow
               /\ Accounted(c[f]) /\ c[f].held = contribution[r][f].held - x[f]
               /\ c[f].remaining = contribution[r][f].remaining
               /\ c[f].committed = contribution[r][f].committed
    <3>1. /\ contribution[r][f] \in ContributionRow /\ Accounted(contribution[r][f])
          /\ hold[h].reward[f] \in Int /\ hold[h].fee[f] \in Int
      BY <1>4, <1>5, <1>8 DEF Balanced
    <3>2. c[f] = [contribution[r][f] EXCEPT
              !.held = @ - hold[h].reward[f] - hold[h].fee[f],
              !.reward = @ + hold[h].reward[f], !.fee = @ + hold[h].fee[f]]
      OBVIOUS
    <3> HIDE DEF c, x
    <3>3. /\ c[f] \in ContributionRow /\ Accounted(c[f])
          /\ c[f].held = contribution[r][f].held - (hold[h].reward[f] + hold[h].fee[f])
          /\ c[f].remaining = contribution[r][f].remaining
          /\ c[f].committed = contribution[r][f].committed
      <4>1. PICK row \in ContributionRow, p \in Int, q \in Int :
              row = contribution[r][f] /\ p = hold[h].reward[f] /\ q = hold[h].fee[f]
        BY <3>1
      <4>2. c[f] = Paid(row, p, q)
        BY <3>2, <4>1 DEF Paid
      <4>3. Accounted(row)
        BY <3>1, <4>1
      <4>4. /\ c[f] \in ContributionRow /\ Accounted(c[f])
            /\ c[f].held = row.held - (p + q)
            /\ c[f].remaining = row.remaining /\ c[f].committed = row.committed
        BY <4>2, <4>3, PaidRow
      <4> QED BY <4>1, <4>4
    <3> QED BY <1>6, <3>3
  <2>2. c = [f \in Funders |-> c[f]]
    OBVIOUS
  <2> HIDE DEF c
  <2> QED BY <2>1, <2>2
<1> HIDE DEF c, x
<1>10. \A f \in Funders : c[f].remaining >= 0 /\ c[f].remaining \in Int
                          /\ c[f].remaining = contribution[r][f].remaining + NoPoints[f]
  <2>1. \A f \in Funders : contribution[r][f].remaining >= 0 /\ contribution[r][f].remaining \in Int
    BY <1>4, <1>8, ColumnsAreInts DEF Balanced
  <2> QED BY <1>9, <2>1 DEF NoPoints
<1>11. NoPoints \in [Funders -> Int] /\ \A f \in Funders : wallet[f] + NoPoints[f] >= 0
  BY <1>4 DEF NoPoints, TypeOK, WalletsCover
<1>12. onHold' = [onHold EXCEPT ![r] = @ - Both(x)]
  <2>1. onHold[r] - Both(hold[h].reward) - Both(hold[h].fee) = onHold[r] - Both(x)
    BY <1>4, <1>7 DEF TypeOK
  <2> QED BY <1>3, <2>1
<1>13. h \in HeldIn(r) /\ \A s \in Rounds \ {r} : h \notin HeldIn(s)
  BY <1>1, <1>2 DEF HeldIn
<1>14. hold'[h].status = "paid" /\ \A g \in Holds \ {h} : hold'[g] = hold[g]
  BY <1>3, <1>4 DEF Resolved, TypeOK, HoldRow
<1>15. \A s \in Rounds : HeldIn(s)' = HeldIn(s) \ {h}
  BY <1>14 DEF HeldIn
<1>16. \A f \in Funders : HeldSum(r, f)' = HeldSum(r, f) - x[f]
  <2> SUFFICES ASSUME NEW f \in Funders PROVE HeldSum(r, f)' = HeldSum(r, f) - x[f]
    OBVIOUS
  <2>1. Took(f)[h] = x[f] /\ x[f] \in Int
    BY <1>4, <1>6, TookIsNat
  <2>2. SumFunctionOnSet(Took(f), {h}) = x[f]
    <3>1. IsFiniteSet({h}) /\ {h} \ {h} = {}
      BY FS_Singleton
    <3>2. SumFunctionOnSet(Took(f), {h}) = Took(f)[h] + SumFunctionOnSet(Took(f), {h} \ {h})
      BY <2>1, <3>1, SumWithout
    <3>3. SumFunctionOnSet(Took(f), {h} \ {h}) = 0
      BY <3>1, SumOfEmpty, Zenon
    <3> QED BY <2>1, <3>1, <3>2, <3>3
  <2>3. \A g \in HeldIn(r) \ {h} : hold'[g] = hold[g]
    BY <1>14, HeldInIsFinite
  <2>4. HeldSum(r, f)' = HeldSum(r, f) - SumFunctionOnSet(Took(f), {h})
    BY <1>4, <1>13, <1>15, <2>3, SumsAfter
  <2> QED BY <2>2, <2>4
<1>17. granted \in [Rounds -> SponsorshipRow] /\ granted[r].status = sponsorship[r].status
       /\ \A s \in Rounds \ {r} : granted[s] = sponsorship[s]
  <2>1. sponsorship[r] \in SponsorshipRow /\ sponsorship[r].granted + 1 \in Nat
    BY <1>4 DEF TypeOK, SponsorshipRow
  <2>2. ASSUME NEW s \in SponsorshipRow, NEW n \in Nat
        PROVE  [s EXCEPT !.granted = n] \in SponsorshipRow /\ [s EXCEPT !.granted = n].status = s.status
    BY DEF SponsorshipRow
  <2>3. /\ [sponsorship[r] EXCEPT !.granted = @ + 1] \in SponsorshipRow
        /\ [sponsorship[r] EXCEPT !.granted = @ + 1].status = sponsorship[r].status
    BY <2>1, <2>2, Zenon
  <2> QED BY <1>4, <2>3 DEF TypeOK
<1> HIDE DEF granted
<1>18. OthersStay(r)
  <2> SUFFICES ASSUME NEW s \in Rounds \ {r}
      PROVE  /\ plan'[s] = plan[s] /\ sponsorship'[s] = sponsorship[s] /\ HeldIn(s)' = HeldIn(s)
             /\ \A g \in HeldIn(s) : hold'[g].reward = hold[g].reward /\ hold'[g].fee = hold[g].fee
    BY DEF OthersStay
  <2>1. HeldIn(s)' = HeldIn(s) /\ \A g \in HeldIn(s) : hold'[g] = hold[g]
    BY <1>13, <1>14, <1>15, HeldInIsFinite, SMTT(40)
  <2>2. plan'[s] = plan[s] /\ sponsorship'[s] = sponsorship[s]
    BY <1>3, <1>4, <1>17 DEF SetPlan, TypeOK
  <2> QED BY <2>1, <2>2
<1>19. plan'[r].mode = plan[r].mode /\ plan'[r].status = status /\ plan'[r].target = plan[r].target
  BY <1>3, <1>4 DEF SetPlan, TypeOK, PlanRow
<1>20. closes \in BOOLEAN /\ (closes => HeldIn(r) \subseteq {h})
  BY DEF Finalizable
<1>21. plan[r].status \in {"active", "closing"}
  BY <1>4, <1>13 DEF Staged
<1>22. status = IF closes THEN "closed" ELSE plan[r].status
  OBVIOUS
<1>23. closes => plan[r].status = "closing"
  OBVIOUS
<1> HIDE DEF closes, status
<1>24. /\ WalletsCover' /\ Balanced(r)'
       /\ \A s \in Rounds \ {r} : Balanced(s)' /\ Staged(s)'
       /\ \A f \in Funders :
            /\ contribution'[r][f].committed = c[f].committed
            /\ contribution'[r][f].remaining = IF closes THEN 0 ELSE c[f].remaining
  <2>1. Moves(r, c, NoPoints, x, closes)
    BY <1>3, <1>9, <1>10, <1>11, <1>12, <1>16, <1>19 DEF Moves
  <2> QED BY <1>6, <1>9, <1>11, <1>18, <1>20, <2>1, BooksMove
<1>25. Staged(r)'
  <2>1. plan'[r].target >= Cost /\ plan'[r].status # "none"
    BY <1>4, <1>19, <1>21, <1>22 DEF Staged
  <2>2. CASE closes
    <3>1. HeldIn(r)' = {}
      BY <1>15, <1>20, <2>2
    <3>2. \A f \in Funders : contribution'[r][f].remaining = 0
      BY <1>24, <2>2
    <3>3. sponsorship'[r].status \notin {"requested", "countered"}
      BY <1>3, <1>17, <2>2 DEF NoSponsorship
    <3> QED BY <1>19, <1>22, <2>1, <2>2, <3>1, <3>2, <3>3 DEF Staged
  <2>3. CASE ~closes
    <3>1. \A f \in Funders : contribution'[r][f].remaining = contribution[r][f].remaining
      BY <1>9, <1>24, <2>3
    <3>2. plan'[r].status = plan[r].status
      BY <1>19, <1>22, <2>3
    <3>3. plan'[r].status = "active" /\ plan'[r].mode = "budget" =>
       contribution'[r]["author"].remaining + contribution'[r]["merchant"].remaining >= Cost
      BY <1>4, <1>19, <3>1, <3>2 DEF Staged, Funders
    <3> QED BY <1>21, <2>1, <3>2, <3>3 DEF Staged, Terminal
  <2> QED BY <2>2, <2>3
<1> QED BY <1>24, <1>25 DEF Books

LEMMA ChargedRow ==
  ASSUME NEW c \in [Funders -> ContributionRow], NEW points \in Points, NEW f \in Funders
  PROVE  /\ Charged(c, points)[f].committed = c[f].committed
         /\ Charged(c, points)[f].remaining = c[f].remaining - points[f]
         /\ Charged(c, points)[f].held = c[f].held + points[f]
         /\ Accounted(c[f]) => Accounted(Charged(c, points)[f])
         /\ c[f].remaining \in Int /\ c[f].held \in Int /\ points[f] \in Nat
<1>1. points[f] \in Nat /\ points[f] \in Int
  BY DEF Points
<1>2. c[f] \in ContributionRow
  OBVIOUS
<1>3. /\ c[f].committed \in Int /\ c[f].remaining \in Int /\ c[f].held \in Int
      /\ c[f].reward \in Int /\ c[f].fee \in Int /\ c[f].refunded \in Int
  BY <1>2, ColumnsAreInts
<1> DEFINE row == Charged(c, points)[f]
<1>4. row = [c[f] EXCEPT !.remaining = @ - points[f], !.held = @ + points[f]]
  BY DEF Charged
<1>5. /\ row.committed = c[f].committed /\ row.remaining = c[f].remaining - points[f]
      /\ row.held = c[f].held + points[f] /\ row.reward = c[f].reward
      /\ row.fee = c[f].fee /\ row.refunded = c[f].refunded
  BY <1>2, <1>4 DEF ContributionRow
<1> HIDE DEF row
<1>6. Accounted(c[f]) => Accounted(row)
  BY <1>1, <1>3, <1>5 DEF Accounted
<1> QED BY <1>1, <1>3, <1>5, <1>6 DEF row

\* What the funders can cover is theirs, and a budget's is what remains of it.
LEMMA CapacityIsCovered ==
  ASSUME NEW r \in Rounds, NEW c, NEW freed, NEW f \in Funders,
         wallet[f] \in Int, freed[f] \in Int, c[f].remaining \in Int
  PROVE  /\ Capacity(r, c, freed)[f] <= c[f].remaining
         /\ plan[r].mode = "budget" => Capacity(r, c, freed)[f] = c[f].remaining
         /\ plan[r].mode # "budget" => Capacity(r, c, freed)[f] <= wallet[f] + freed[f]
         /\ Capacity(r, c, freed)[f] \in Int
BY DEF Capacity

LEMMA StartBooks ==
  ASSUME Books, NEW r \in Rounds, NEW u \in Travelers, StartFundedAttempt(r, u)
  PROVE  Books'
<1>1. Rows'
  BY StartRows DEF Books
<1>2. PICK lapsed \in Replaceable(r, u) :
        \E freed \in FreedBy(lapsed), older \in Funders : HoldReward(r, u, lapsed, freed, older)
  BY DEF StartFundedAttempt
<1>3. PICK freed \in FreedBy(lapsed), older \in Funders : HoldReward(r, u, lapsed, freed, older)
  BY <1>2
<1> DEFINE b == Returned(contribution[r], freed)
           capacity == Capacity(r, b, freed)
           points == Allocate(Cost, capacity, older)
           fee == Allocate(Fee, points, older)
           spent == [f \in Funders |-> freed[f] - points[f]]
           c == Charged(b, points)
           slot == CHOOSE h \in NextHold : TRUE
           row == HeldFor(r, u, points, fee)
<1>4. /\ points \in Points /\ fee \in Points /\ Both(points) = Cost
      /\ \A f \in Funders : points[f] <= capacity[f]
      /\ \A f \in Funders : fee[f] <= points[f]
  BY <1>3 DEF HoldReward, Distributed
<1>5. /\ hold' = [Released(lapsed) EXCEPT ![slot] = row]
      /\ Settle(r, c, spent, FALSE)
      /\ onHold' = [onHold EXCEPT ![r] = @ - Both(spent)]
      /\ IF plan[r].mode = "budget" /\ Both(capacity) - Cost < Cost
         THEN SetPlan(r, "closing") ELSE UNCHANGED plan
  BY <1>3 DEF HoldReward
<1>6. slot \in Holds /\ hold[slot].status = "none"
  BY DEF NextHold, StartFundedAttempt
<1>7. TypeOK /\ WalletsCover /\ Balanced(r) /\ Staged(r)
  BY DEF Books, Rows
<1>8. lapsed \subseteq HeldIn(r) /\ lapsed \in SUBSET Holds
  BY DEF Replaceable, HeldIn
<1>9. plan[r].status = "active" /\ proof' = proof /\ sponsorship' = sponsorship
  BY DEF StartFundedAttempt, MayStart
<1>10. /\ freed \in Points
       /\ \A f \in Funders : freed[f] = SumFunctionOnSet(Took(f), lapsed)
  BY <1>7, <1>8, FreedIsSum
<1>11. \A f \in Funders : freed[f] \in Nat /\ freed[f] \in Int /\ points[f] \in Nat
                          /\ points[f] \in Int /\ fee[f] \in Nat
  BY <1>4, <1>10 DEF Points
<1> HIDE DEF points, fee, slot
<1>12. contribution[r] \in [Funders -> ContributionRow]
  BY <1>7 DEF TypeOK
<1>13. /\ b \in [Funders -> ContributionRow]
       /\ \A f \in Funders : /\ Accounted(b[f])
                             /\ b[f].remaining = contribution[r][f].remaining + freed[f]
                             /\ b[f].held = contribution[r][f].held - freed[f]
                             /\ b[f].remaining \in Int
                             /\ contribution[r][f].remaining \in Int
                             /\ contribution[r][f].held \in Int
  <2>1. b \in [Funders -> ContributionRow]
    BY <1>10, <1>11, <1>12, ReturnedTyped, PointsAreInts
  <2>2. \A f \in Funders : b[f].remaining \in Int /\ contribution[r][f].remaining \in Int
                           /\ contribution[r][f].held \in Int
    BY <1>12, <2>1, ColumnsAreInts
  <2>3. \A f \in Funders : Accounted(contribution[r][f])
    BY <1>7 DEF Balanced
  <2>4. \A f \in Funders : /\ Accounted(b[f])
                           /\ b[f].remaining = contribution[r][f].remaining + freed[f]
                           /\ b[f].held = contribution[r][f].held - freed[f]
    BY <1>10, <1>12, <2>3, ReturnedRow
  <2> QED BY <2>1, <2>2, <2>4
<1> HIDE DEF b
<1>14. \A f \in Funders : wallet[f] \in Int /\ wallet[f] >= 0
  BY <1>7 DEF TypeOK, WalletsCover
<1>15. \A f \in Funders :
         /\ points[f] <= b[f].remaining
         /\ plan[r].mode # "budget" => points[f] <= wallet[f] + freed[f]
         /\ plan[r].mode = "budget" => capacity[f] = b[f].remaining
  <2>1. ASSUME NEW f \in Funders
        PROVE  /\ capacity[f] <= b[f].remaining
               /\ plan[r].mode = "budget" => capacity[f] = b[f].remaining
               /\ plan[r].mode # "budget" => capacity[f] <= wallet[f] + freed[f]
               /\ capacity[f] \in Int
    BY <1>11, <1>13, <1>14, CapacityIsCovered
  <2> HIDE DEF capacity
  <2> QED BY <1>4, <1>11, <1>13, <1>14, <2>1
<1>16. spent \in [Funders -> Int] /\ \A f \in Funders : spent[f] = freed[f] - points[f]
  BY <1>11
<1>17. /\ c \in [Funders -> ContributionRow]
       /\ \A f \in Funders : /\ Accounted(c[f]) /\ c[f].remaining >= 0
                             /\ c[f].remaining = b[f].remaining - points[f]
                             /\ c[f].remaining = contribution[r][f].remaining + spent[f]
                             /\ c[f].held = contribution[r][f].held - spent[f]
  <2>1. c \in [Funders -> ContributionRow]
    BY <1>4, <1>13, ChargedTyped, PointsAreInts
  <2>2. \A f \in Funders : /\ Accounted(c[f])
                           /\ c[f].remaining = b[f].remaining - points[f]
                           /\ c[f].held = b[f].held + points[f]
    BY <1>4, <1>13, ChargedRow
  <2> HIDE DEF c, spent
  <2> QED BY <1>11, <1>13, <1>15, <1>16, <2>1, <2>2
<1> HIDE DEF c, spent
<1>18. Released(lapsed) \in [Holds -> HoldRow]
  BY <1>7, ReleasedTyped
<1>19. /\ hold'[slot] = row
       /\ \A h \in Holds \ {slot} : hold'[h] = Released(lapsed)[h]
  BY <1>5, <1>6, <1>18
<1>20. row.status = "held" /\ row.round = r
       /\ \A f \in Funders : row.reward[f] + row.fee[f] = points[f]
  BY <1>11 DEF HeldFor
<1> HIDE DEF row
<1>21. slot \notin lapsed /\ \A s \in Rounds : slot \notin HeldIn(s)
  BY <1>6, <1>8 DEF HeldIn
<1>22. HeldIn(r)' = (HeldIn(r) \ lapsed) \cup {slot}
       /\ \A s \in Rounds \ {r} : HeldIn(s)' = HeldIn(s)
  <2>1. \A h \in Holds \ {slot} : /\ h \in lapsed => hold'[h].status = "released"
                                  /\ h \notin lapsed => hold'[h] = hold[h]
    BY <1>7, <1>19, ReleasedRow
  <2>2. HeldIn(r)' = (HeldIn(r) \ lapsed) \cup {slot}
    BY <1>6, <1>19, <1>20, <2>1 DEF HeldIn
  <2>3. \A s \in Rounds \ {r} : HeldIn(s)' = HeldIn(s)
    BY <1>6, <1>8, <1>19, <1>20, <2>1 DEF HeldIn
  <2> QED BY <2>2, <2>3
<1>23. \A h \in Holds \ {slot} : h \notin lapsed => hold'[h] = hold[h]
  BY <1>7, <1>19, ReleasedRow
<1>24. \A f \in Funders : HeldSum(r, f)' = HeldSum(r, f) - spent[f]
  <2> SUFFICES ASSUME NEW f \in Funders PROVE HeldSum(r, f)' = HeldSum(r, f) - spent[f]
    OBVIOUS
  <2> DEFINE rest == HeldIn(r) \ lapsed
  <2>1. HeldIn(r) \subseteq Holds /\ IsFiniteSet(HeldIn(r)) /\ IsFiniteSet(rest)
    BY HeldInIsFinite, FS_Subset
  <2>2. \A h \in HeldIn(r) : Took(f)[h] \in Int
    BY <1>7, <2>1, TookIsNat
  <2>3. SumFunctionOnSet(Took(f), rest) = HeldSum(r, f) - freed[f]
    BY <1>8, <1>10, <2>1, <2>2, SumOfRest DEF HeldSum
  <2>4. \A h \in rest : Took(f)'[h] = Took(f)[h]
    BY <1>21, <1>23, <2>1 DEF Took
  <2>5. SumFunctionOnSet(Took(f)', rest) = SumFunctionOnSet(Took(f), rest)
    BY <2>1, <2>4, SumOfEqual
  <2>6. Took(f)'[slot] = points[f]
    BY <1>6, <1>19, <1>20 DEF Took
  <2>7. SumFunctionOnSet(Took(f)', rest \cup {slot}) = points[f] + SumFunctionOnSet(Took(f)', rest)
    <3>1. slot \notin rest /\ \A h \in rest \cup {slot} : Took(f)'[h] \in Int
      BY <1>11, <1>21, <2>2, <2>4, <2>6
    <3> HIDE DEF rest
    <3> QED BY <2>1, <2>6, <3>1, SumWith
  <2>8. HeldSum(r, f)' = SumFunctionOnSet(Took(f)', rest \cup {slot})
    BY <1>22 DEF HeldSum
  <2>9. HeldSum(r, f) \in Int
    BY <2>1, <2>2, SumIsInt DEF HeldSum
  <2> HIDE DEF rest
  <2> QED BY <1>11, <1>16, <2>3, <2>5, <2>7, <2>8, <2>9
<1>25. OthersStay(r)
  <2> SUFFICES ASSUME NEW s \in Rounds \ {r}
      PROVE  /\ plan'[s] = plan[s] /\ sponsorship'[s] = sponsorship[s] /\ HeldIn(s)' = HeldIn(s)
             /\ \A g \in HeldIn(s) : hold'[g].reward = hold[g].reward /\ hold'[g].fee = hold[g].fee
    BY DEF OthersStay
  <2>1. \A g \in HeldIn(s) : g \in Holds /\ g # slot /\ g \notin lapsed
    BY <1>8, <1>21 DEF HeldIn
  <2>2. \A g \in HeldIn(s) : hold'[g] = hold[g]
    BY <1>23, <2>1
  <2>3. plan'[s] = plan[s]
    BY <1>5, <1>7 DEF SetPlan, TypeOK
  <2> QED BY <1>9, <1>22, <2>2, <2>3
<1>26. plan'[r].mode = plan[r].mode /\ plan'[r].status \in {"active", "closing"}
       /\ plan'[r].target = plan[r].target
       /\ (plan'[r].status = "active" /\ plan[r].mode = "budget" => Both(capacity) - Cost >= Cost)
  <2>1. Both(capacity) \in Int
    <3>1. \A f \in Funders : capacity[f] \in Int
      BY <1>11, <1>13, <1>14, CapacityIsCovered
    <3> QED BY <3>1 DEF Both, Funders
  <2> HIDE DEF capacity
  <2> QED BY <1>5, <1>7, <1>9, <2>1, CostIsNat DEF SetPlan, TypeOK, PlanRow
<1>27. plan[r].mode \in {"budget", "window"}
  BY <1>7 DEF TypeOK, PlanRow
<1>28. plan[r].mode = "window" => \A f \in Funders : wallet[f] + spent[f] >= 0
  BY <1>11, <1>14, <1>15, <1>16
<1>29. /\ WalletsCover' /\ Balanced(r)'
       /\ \A s \in Rounds \ {r} : Balanced(s)' /\ Staged(s)'
       /\ \A f \in Funders : contribution'[r][f].remaining = c[f].remaining
  <2>1. Moves(r, c, spent, spent, FALSE)
    BY <1>5, <1>17, <1>24, <1>26, <1>28 DEF Moves
  <2> QED BY <1>16, <1>17, <1>25, <2>1, BooksMove
<1>30. Staged(r)'
  <2>1. plan'[r].target >= Cost
    BY <1>7, <1>9, <1>26 DEF Staged
  <2>2. plan'[r].status = "active" /\ plan'[r].mode = "budget" =>
       contribution'[r]["author"].remaining + contribution'[r]["merchant"].remaining >= Cost
    <3> SUFFICES ASSUME plan'[r].status = "active", plan[r].mode = "budget"
        PROVE  contribution'[r]["author"].remaining + contribution'[r]["merchant"].remaining >= Cost
      BY <1>26
    <3>1. "author" \in Funders /\ "merchant" \in Funders
      BY DEF Funders
    <3>2. Both(capacity) = b["author"].remaining + b["merchant"].remaining
      BY <1>15, <3>1 DEF Both
    <3>3. points["author"] + points["merchant"] = Cost
      BY <1>4 DEF Both
    <3>4. Both(capacity) - Cost >= Cost
      BY <1>26
    <3> HIDE DEF capacity
    <3> QED BY <1>11, <1>13, <1>17, <1>29, <3>1, <3>2, <3>3, <3>4, CostIsNat
  <2> QED BY <1>26, <2>1, <2>2 DEF Staged, Terminal
<1> QED BY <1>1, <1>29, <1>30 DEF Books

\* A step that leaves the funding tables alone and no row's amounts keeps the
\* books.
LEMMA BooksStay ==
  ASSUME Books, Rows', WalletsCover',
         UNCHANGED <<plan, sponsorship, contribution, budget, onHold>>,
         \A h \in Holds : /\ hold'[h].status = hold[h].status /\ hold'[h].round = hold[h].round
                          /\ hold'[h].reward = hold[h].reward /\ hold'[h].fee = hold[h].fee
  PROVE  Books'
<1>1. ASSUME NEW s \in Rounds
      PROVE  Balanced(s)' /\ Staged(s)'
  <2>1. HeldIn(s)' = HeldIn(s)
    BY DEF HeldIn
  <2>2. \A h \in HeldIn(s) : hold'[h].reward = hold[h].reward /\ hold'[h].fee = hold[h].fee
    BY DEF HeldIn
  <2>3. Balanced(s) /\ Staged(s)
    BY DEF Books
  <2> QED BY <2>1, <2>2, <2>3, RoundKept
<1> QED BY <1>1 DEF Books

LEMMA SetAttemptKeepsAmounts ==
  ASSUME TypeOK, NEW h \in Holds, NEW status, SetAttempt(h, status)
  PROVE  \A g \in Holds : /\ hold'[g].status = hold[g].status /\ hold'[g].round = hold[g].round
                          /\ hold'[g].reward = hold[g].reward /\ hold'[g].fee = hold[g].fee
BY DEF SetAttempt, TypeOK, HoldRow

LEMMA HeldInStays ==
  ASSUME UNCHANGED hold, NEW s, NEW f
  PROVE  HeldIn(s)' = HeldIn(s) /\ HeldSum(s, f)' = HeldSum(s, f)
BY DEF HeldIn, HeldSum, Took

\* finalizePlan without a release: closePlan and cancelPlan.
LEMMA CloseBooks ==
  ASSUME Books, Rows', NEW r \in Rounds, ClosePlan(r) \/ CancelPlan(r)
  PROVE  Books'
<1> DEFINE closes == Finalizable(r, {})
<1>1. TypeOK /\ WalletsCover /\ Balanced(r) /\ Staged(r)
  BY DEF Books, Rows
<1>2. PICK status : /\ SetPlan(r, status) /\ status # "none" /\ plan[r].status # "none"
                    /\ closes => status \in {"closed", "cancelled"}
                    /\ ~closes => \/ status = "closing" /\ plan[r].status \in {"active", "closing"}
                                  \/ status = plan[r].status
  BY DEF ClosePlan, CancelPlan
<1>3. /\ Settle(r, contribution[r], NoPoints, closes) /\ ExpireSponsorship(r, closes)
      /\ UNCHANGED <<onHold, hold>>
  BY DEF ClosePlan, CancelPlan
<1>4. closes \in BOOLEAN /\ (closes => HeldIn(r) = {})
  BY DEF Finalizable
<1> HIDE DEF closes
<1>5. /\ contribution[r] \in [Funders -> ContributionRow] /\ NoPoints \in [Funders -> Int]
      /\ Both(NoPoints) = 0 /\ \A f \in Funders : NoPoints[f] = 0
  BY <1>1 DEF TypeOK, NoPoints, Both, Funders
<1>6. \A f \in Funders : /\ contribution[r][f].remaining \in Int /\ contribution[r][f].held \in Int
                         /\ wallet[f] \in Int
  BY <1>1, <1>5, ColumnsAreInts DEF TypeOK
<1>7. /\ plan'[r].mode = plan[r].mode /\ plan'[r].status = status
      /\ plan'[r].target = plan[r].target
  BY <1>1, <1>2 DEF SetPlan, TypeOK, PlanRow
<1>8. \A f \in Funders : HeldSum(r, f)' = HeldSum(r, f) - NoPoints[f]
  <2>1. \A f \in Funders : HeldSum(r, f)' = HeldSum(r, f)
    BY <1>3, HeldInStays
  <2>2. \A f \in Funders : HeldSum(r, f) = contribution[r][f].held
    BY <1>1 DEF Balanced
  <2> QED BY <1>5, <1>6, <2>1, <2>2
<1>9. onHold' = [onHold EXCEPT ![r] = @ - Both(NoPoints)]
  <2>1. onHold \in [Rounds -> Int]
    BY <1>1 DEF TypeOK
  <2>2. onHold[r] - Both(NoPoints) = onHold[r]
    BY <1>5, <2>1
  <2> QED BY <1>3, <2>1, <2>2
<1>10. Moves(r, contribution[r], NoPoints, NoPoints, closes)
  <2>1. \A f \in Funders : Accounted(contribution[r][f]) /\ contribution[r][f].remaining >= 0
    BY <1>1 DEF Balanced
  <2>2. \A f \in Funders : wallet[f] >= 0
    BY <1>1 DEF WalletsCover
  <2>3. \A f \in Funders :
          /\ contribution[r][f].held = contribution[r][f].held - NoPoints[f]
          /\ contribution[r][f].remaining = contribution[r][f].remaining + NoPoints[f]
          /\ wallet[f] + NoPoints[f] >= 0
    BY <1>5, <1>6, <2>2
  <2> HIDE DEF NoPoints
  <2> QED BY <1>3, <1>7, <1>8, <1>9, <2>1, <2>3 DEF Moves
<1>11. OthersStay(r)
  <2>1. \A s \in Rounds \ {r} : HeldIn(s)' = HeldIn(s)
    BY <1>3, HeldInStays
  <2> QED BY <1>1, <1>2, <1>3, <2>1 DEF OthersStay, SetPlan, ExpireSponsorship, TypeOK
<1>12. /\ WalletsCover' /\ Balanced(r)'
       /\ \A s \in Rounds \ {r} : Balanced(s)' /\ Staged(s)'
       /\ \A f \in Funders :
            /\ contribution'[r][f].committed = contribution[r][f].committed
            /\ contribution'[r][f].remaining = IF closes THEN 0 ELSE contribution[r][f].remaining
  BY <1>4, <1>5, <1>10, <1>11, BooksMove
<1>13. HeldIn(r)' = HeldIn(r)
  BY <1>3, HeldInStays
<1>14. closes => sponsorship'[r].status \notin {"requested", "countered"}
  BY <1>1, <1>3 DEF ExpireSponsorship, NoSponsorship, TypeOK
<1>15. ~closes => sponsorship' = sponsorship
  BY <1>3 DEF ExpireSponsorship
<1>16. Staged(r)'
  <2>1. plan'[r].target >= Cost
    BY <1>1, <1>2, <1>7 DEF Staged
  <2>2. CASE closes
    BY <1>2, <1>4, <1>7, <1>12, <1>13, <1>14, <2>1, <2>2 DEF Staged, Terminal
  <2>3. CASE ~closes
    <3>1. \A f \in Funders : contribution'[r][f].remaining = contribution[r][f].remaining
                             /\ contribution'[r][f].committed = contribution[r][f].committed
      BY <1>12, <2>3
    <3>2. "author" \in Funders /\ "merchant" \in Funders
      BY DEF Funders
    <3>3. CASE status = "closing" /\ plan[r].status \in {"active", "closing"}
      BY <1>7, <2>1, <3>3 DEF Staged, Terminal
    <3>4. CASE status = plan[r].status
      BY <1>1, <1>2, <1>7, <1>13, <1>15, <2>1, <2>3, <3>1, <3>2, <3>4 DEF Staged
    <3> QED BY <1>2, <2>3, <3>3, <3>4
  <2> QED BY <2>2, <2>3
<1> QED BY <1>12, <1>16 DEF Books

\* A pending round whose books show that nothing was spent may open.
LEMMA ActivationStaged ==
  ASSUME NEW r \in Rounds, NEW row \in PlanRow, row.status = "pending_sponsors",
         row.target >= Cost, NEW c, contribution'[r] = c, plan'[r] = Activated(row, c),
         \A f \in Funders : c[f] \in ContributionRow /\ c[f].committed = c[f].remaining,
         HeldIn(r)' = {}
  PROVE  Staged(r)' /\ plan'[r].mode = row.mode
<1>1. /\ plan'[r].status \in {"pending_sponsors", "active", "scheduled"}
      /\ plan'[r].target = row.target /\ plan'[r].mode = row.mode
      /\ plan'[r].status # "pending_sponsors" =>
           ~(c["author"].committed + c["merchant"].committed < row.target)
  BY DEF Activated, PlanRow
<1>2. "author" \in Funders /\ "merchant" \in Funders
  BY DEF Funders
<1>3. /\ c["author"].remaining \in Int /\ c["merchant"].remaining \in Int /\ row.target \in Int
      /\ Cost \in Int
  BY <1>2, ColumnsAreInts, CostIsNat DEF PlanRow
<1>4. plan'[r].status # "pending_sponsors" => c["author"].remaining + c["merchant"].remaining >= Cost
  BY <1>1, <1>2, <1>3
<1> QED BY <1>1, <1>2, <1>4 DEF Staged, Terminal

\* A contribution or its increase: committed and remaining grow alike.
LEMMA CommitBooks ==
  ASSUME Books, NEW r \in Rounds, NEW f \in Funders, NEW points \in Nat, Commit(r, f, points),
         plan'[r].mode = plan[r].mode, UNCHANGED hold,
         \A s \in Rounds \ {r} : plan'[s] = plan[s] /\ sponsorship'[s] = sponsorship[s]
  PROVE  /\ WalletsCover' /\ Balanced(r)'
         /\ \A s \in Rounds \ {r} : Balanced(s)' /\ Staged(s)'
         /\ HeldIn(r)' = HeldIn(r)
         /\ \A g \in Funders :
              /\ contribution'[r][g] \in ContributionRow
              /\ contribution'[r][g].remaining >= contribution[r][g].remaining
              /\ contribution[r][g].committed = contribution[r][g].remaining
                   => contribution'[r][g].committed = contribution'[r][g].remaining
<1>1. TypeOK /\ WalletsCover /\ Balanced(r) /\ Staged(r)
  BY DEF Books, Rows
<1>2. \A g \in Funders : /\ contribution[r][g] \in ContributionRow
                         /\ contribution[r][g].committed \in Int /\ contribution[r][g].remaining \in Int
                         /\ contribution[r][g].held \in Int /\ contribution[r][g].reward \in Int
                         /\ contribution[r][g].fee \in Int /\ contribution[r][g].refunded \in Int
                         /\ wallet[g] \in Int
  BY <1>1, ColumnsAreInts DEF TypeOK
<1> DEFINE row == [contribution[r][f] EXCEPT !.committed = @ + points, !.remaining = @ + points]
<1>3. contribution' = [contribution EXCEPT ![r] = [contribution[r] EXCEPT ![f] = row]]
  BY <1>1 DEF Commit, TypeOK
<1>4. /\ row \in ContributionRow
      /\ row.committed = contribution[r][f].committed + points
      /\ row.remaining = contribution[r][f].remaining + points
      /\ row.held = contribution[r][f].held /\ row.reward = contribution[r][f].reward
      /\ row.fee = contribution[r][f].fee /\ row.refunded = contribution[r][f].refunded
  <2>1. points \in Int /\ contribution[r][f] \in ContributionRow
    BY <1>2
  <2>2. row \in ContributionRow
    BY <2>1, RowTyped
  <2> QED BY <2>1, <2>2 DEF ContributionRow
<1> HIDE DEF row
<1>5. /\ contribution'[r][f] = row
      /\ \A g \in Funders \ {f} : contribution'[r][g] = contribution[r][g]
      /\ \A s \in Rounds \ {r} : contribution'[s] = contribution[s]
  BY <1>1, <1>3 DEF TypeOK
<1>6. ASSUME NEW g \in Funders
      PROVE  /\ contribution'[r][g] \in ContributionRow /\ Accounted(contribution'[r][g])
             /\ contribution'[r][g].held = contribution[r][g].held
             /\ contribution'[r][g].remaining >= contribution[r][g].remaining
             /\ contribution'[r][g].remaining =
                  contribution[r][g].remaining + IF g = f THEN points ELSE 0
             /\ contribution[r][g].committed = contribution[r][g].remaining
                   => contribution'[r][g].committed = contribution'[r][g].remaining
  <2>1. Accounted(contribution[r][g])
    BY <1>1 DEF Balanced
  <2>2. CASE g = f
    BY <1>2, <1>4, <1>5, <2>1, <2>2 DEF Accounted
  <2>3. CASE g # f
    BY <1>2, <1>5, <2>1, <2>3
  <2> QED BY <2>2, <2>3
<1>7. \A s \in Rounds, g \in Funders : HeldIn(s)' = HeldIn(s) /\ HeldSum(s, g)' = HeldSum(s, g)
  BY HeldInStays
<1>8. plan[r].mode \in {"budget", "window"}
  BY <1>1 DEF TypeOK, PlanRow
<1>9. WalletsCover'
  <2>1. \A g \in Funders : wallet[g] >= 0
    BY <1>1 DEF WalletsCover
  <2>2. plan[r].mode = "budget" => wallet[f] >= points
    BY <1>2 DEF Commit
  <2>3. wallet' = IF plan[r].mode = "budget" THEN [wallet EXCEPT ![f] = @ - points] ELSE wallet
    BY DEF Commit
  <2>4. wallet \in [Funders -> Int]
    BY <1>1 DEF TypeOK
  <2> QED BY <1>2, <2>1, <2>2, <2>3, <2>4 DEF WalletsCover
<1>10. BudgetAgrees(r)'
  <2>1. budget' = IF plan[r].mode = "budget" THEN [budget EXCEPT ![r] = @ + points] ELSE budget
    BY DEF Commit
  <2>2. budget \in [Rounds -> Int] /\ BudgetAgrees(r)
    BY <1>1 DEF TypeOK, Balanced
  <2>3. f = "author" \/ f = "merchant"
    BY DEF Funders
  <2>4. contribution'[r]["author"].remaining + contribution'[r]["merchant"].remaining =
          contribution[r]["author"].remaining + contribution[r]["merchant"].remaining + points
    <3>1. "author" \in Funders /\ "merchant" \in Funders
      BY DEF Funders
    <3> QED BY <1>2, <1>6, <2>3, <3>1
  <2> QED BY <2>1, <2>2, <2>4 DEF BudgetAgrees
<1>11. Balanced(r)'
  <2>1. onHold' = onHold
    BY DEF Commit
  <2>2. \A g \in Funders : contribution[r][g].remaining >= 0 /\ contribution[r][g].held = HeldSum(r, g)
    BY <1>1 DEF Balanced
  <2>3. \A g \in Funders : /\ Accounted(contribution'[r][g]) /\ contribution'[r][g].remaining >= 0
                           /\ contribution'[r][g].held = HeldSum(r, g)'
    BY <1>2, <1>6, <1>7, <2>2
  <2>4. onHold[r] = contribution[r]["author"].held + contribution[r]["merchant"].held
    BY <1>1 DEF Balanced
  <2>5. onHold'[r] = contribution'[r]["author"].held + contribution'[r]["merchant"].held
    BY <1>6, <2>1, <2>4 DEF Funders
  <2> QED BY <1>10, <2>3, <2>5 DEF Balanced
<1>12. \A s \in Rounds \ {r} : Balanced(s)' /\ Staged(s)'
  <2> SUFFICES ASSUME NEW s \in Rounds \ {r} PROVE Balanced(s)' /\ Staged(s)'
    OBVIOUS
  <2>1. budget'[s] = budget[s] /\ onHold'[s] = onHold[s]
    BY <1>1 DEF Commit, TypeOK
  <2>2. Balanced(s) /\ Staged(s)
    BY DEF Books
  <2>3. HeldIn(s)' = HeldIn(s)
    BY <1>7
  <2>4. /\ contribution'[s] = contribution[s] /\ plan'[s] = plan[s]
        /\ sponsorship'[s] = sponsorship[s]
        /\ \A h \in HeldIn(s) : hold'[h].reward = hold[h].reward /\ hold'[h].fee = hold[h].fee
    BY <1>5
  <2>5. s \in Rounds
    OBVIOUS
  <2> QED BY <2>1, <2>2, <2>3, <2>4, <2>5, RoundKept
<1> QED BY <1>6, <1>7, <1>9, <1>11, <1>12

\* An active round stays staged when its contributions grow.
LEMMA ActiveStaged ==
  ASSUME Books, NEW r \in Rounds, plan[r].status \in {"active"}, plan'[r] = plan[r],
         HeldIn(r)' = HeldIn(r), \A g \in Funders : contribution'[r][g] \in ContributionRow,
         \A g \in Funders : contribution'[r][g].remaining >= contribution[r][g].remaining
  PROVE  Staged(r)'
<1>1. TypeOK /\ Staged(r) /\ "author" \in Funders /\ "merchant" \in Funders
  BY DEF Books, Rows, Funders
<1>2. \A g \in Funders : contribution'[r][g].remaining \in Int /\ contribution[r][g].remaining \in Int
  BY <1>1, ColumnsAreInts DEF TypeOK
<1>3. plan[r].mode = "budget" =>
        contribution'[r]["author"].remaining + contribution'[r]["merchant"].remaining >= Cost
  <2>1. plan[r].mode = "budget" =>
          contribution[r]["author"].remaining + contribution[r]["merchant"].remaining >= Cost
    BY <1>1 DEF Staged
  <2> QED BY <1>1, <1>2, <2>1, CostIsNat
<1> QED BY <1>1, <1>3 DEF Staged, Terminal

LEMMA ContributeBooks ==
  ASSUME Books, Rows', NEW r \in Rounds, NEW points \in Amounts, Contribute(r, points)
  PROVE  Books'
<1>1. TypeOK /\ Staged(r)
  BY DEF Books, Rows
<1>2. plan[r] \in PlanRow /\ points \in Nat /\ "author" \in Funders
  BY <1>1, PointsAreNat DEF TypeOK, Funders
<1>3. /\ Commit(r, "author", points) /\ UNCHANGED <<sponsorship, hold>>
      /\ plan[r].status \in {"draft", "pending_sponsors", "active"}
      /\ IF plan[r].status = "pending_sponsors"
         THEN plan' = [plan EXCEPT ![r] = Activated(plan[r], contribution'[r])]
         ELSE plan' = plan
  BY DEF Contribute, ActivateIfFunded
<1>4. Activated(plan[r], contribution'[r]).mode = plan[r].mode
  BY <1>2 DEF Activated, PlanRow
<1>5. plan'[r].mode = plan[r].mode /\ \A s \in Rounds \ {r} : plan'[s] = plan[s]
  BY <1>1, <1>3, <1>4 DEF TypeOK
<1>6. /\ WalletsCover' /\ Balanced(r)'
      /\ \A s \in Rounds \ {r} : Balanced(s)' /\ Staged(s)'
      /\ HeldIn(r)' = HeldIn(r)
      /\ \A g \in Funders :
           /\ contribution'[r][g] \in ContributionRow
           /\ contribution'[r][g].remaining >= contribution[r][g].remaining
           /\ contribution[r][g].committed = contribution[r][g].remaining
                => contribution'[r][g].committed = contribution'[r][g].remaining
  BY <1>2, <1>3, <1>5, CommitBooks
<1>7. Staged(r)'
  <2>1. CASE plan[r].status = "active"
    BY <1>3, <1>6, <2>1, ActiveStaged
  <2>2. CASE plan[r].status = "pending_sponsors"
    <3>1. /\ plan'[r] = Activated(plan[r], contribution'[r]) /\ plan[r].target >= Cost
          /\ HeldIn(r)' = {}
          /\ \A g \in Funders : contribution'[r][g].committed = contribution'[r][g].remaining
      BY <1>1, <1>3, <1>6, <2>2 DEF Staged, TypeOK
    <3> QED BY <1>2, <1>6, <2>2, <3>1, ActivationStaged
  <2>3. CASE plan[r].status = "draft"
    BY <1>1, <1>3, <1>6, <2>3 DEF Staged, Terminal
  <2> QED BY <1>3, <2>1, <2>2, <2>3
<1> QED BY <1>6, <1>7 DEF Books

LEMMA AcceptBooks ==
  ASSUME Books, Rows', NEW r \in Rounds, NEW points \in Nat, NEW perks,
         AcceptTerms(r, points, perks)
  PROVE  Books'
<1>1. TypeOK /\ Staged(r) /\ Balanced(r) /\ WalletsCover
  BY DEF Books, Rows
<1>2. plan[r] \in PlanRow /\ "merchant" \in Funders
  BY <1>1 DEF TypeOK, Funders
<1>3. /\ IF points > 0 THEN Commit(r, "merchant", points) ELSE UNCHANGED books
      /\ UNCHANGED hold /\ plan[r].status \in {"pending_sponsors", "active"}
      /\ \A s \in Rounds \ {r} : sponsorship'[s] = sponsorship[s]
      /\ IF plan[r].status = "pending_sponsors"
         THEN plan' = [plan EXCEPT ![r] = Activated(plan[r], contribution'[r])]
         ELSE plan' = plan
  BY <1>1 DEF AcceptTerms, ActivateIfFunded, Sponsorable, TypeOK
<1>4. Activated(plan[r], contribution'[r]).mode = plan[r].mode
  BY <1>2 DEF Activated, PlanRow
<1>5. plan'[r].mode = plan[r].mode /\ \A s \in Rounds \ {r} : plan'[s] = plan[s]
  BY <1>1, <1>3, <1>4 DEF TypeOK
<1>6. /\ WalletsCover' /\ Balanced(r)'
      /\ \A s \in Rounds \ {r} : Balanced(s)' /\ Staged(s)'
      /\ HeldIn(r)' = HeldIn(r)
      /\ \A g \in Funders :
           /\ contribution'[r][g] \in ContributionRow
           /\ contribution'[r][g].remaining >= contribution[r][g].remaining
           /\ contribution[r][g].committed = contribution[r][g].remaining
                => contribution'[r][g].committed = contribution'[r][g].remaining
  <2>1. CASE points > 0
    BY <1>2, <1>3, <1>5, <2>1, CommitBooks
  <2>2. CASE ~(points > 0)
    <3>1. UNCHANGED <<contribution, wallet, budget, onHold, hold>>
      BY <1>3, <2>2 DEF books
    <3>2. \A s \in Rounds, g \in Funders : HeldIn(s)' = HeldIn(s) /\ HeldSum(s, g)' = HeldSum(s, g)
      BY <3>1, HeldInStays
    <3>3. \A g \in Funders : contribution[r][g] \in ContributionRow
                             /\ contribution[r][g].remaining \in Int
      BY <1>1, ColumnsAreInts DEF TypeOK
    <3>4. Balanced(r)' /\ WalletsCover'
      BY <1>1, <1>5, <3>1, <3>2 DEF Balanced, BudgetAgrees, WalletsCover
    <3>5. \A s \in Rounds \ {r} : Balanced(s)' /\ Staged(s)'
      <4> SUFFICES ASSUME NEW s \in Rounds \ {r} PROVE Balanced(s)' /\ Staged(s)'
        OBVIOUS
      <4>1. Balanced(s) /\ Staged(s) /\ HeldIn(s)' = HeldIn(s)
        BY <1>2, <3>2 DEF Books
      <4>2. plan'[s] = plan[s] /\ sponsorship'[s] = sponsorship[s]
        BY <1>3, <1>5
      <4> QED BY <3>1, <4>1, <4>2, RoundKept
    <3>6. HeldIn(r)' = HeldIn(r)
      BY <1>2, <3>2
    <3> QED BY <3>1, <3>3, <3>4, <3>5, <3>6
  <2> QED BY <2>1, <2>2
<1>7. Staged(r)'
  <2>1. CASE plan[r].status = "active"
    BY <1>3, <1>6, <2>1, ActiveStaged
  <2>2. CASE plan[r].status = "pending_sponsors"
    <3>1. /\ plan'[r] = Activated(plan[r], contribution'[r]) /\ plan[r].target >= Cost
          /\ HeldIn(r)' = {}
          /\ \A g \in Funders : contribution'[r][g].committed = contribution'[r][g].remaining
      BY <1>1, <1>3, <1>6, <2>2 DEF Staged, TypeOK
    <3> QED BY <1>2, <1>6, <2>2, <3>1, ActivationStaged
  <2> QED BY <1>3, <2>1, <2>2
<1> QED BY <1>6, <1>7 DEF Books

\* A step that changes the plan or the sponsorship of one round only.
LEMMA RowBooks ==
  ASSUME Books, Rows', NEW r \in Rounds, UNCHANGED <<contribution, wallet, budget, onHold, hold>>,
         \A s \in Rounds \ {r} : plan'[s] = plan[s] /\ sponsorship'[s] = sponsorship[s],
         BudgetAgrees(r)', Staged(r)'
  PROVE  Books'
<1>1. \A s \in Rounds, g \in Funders : HeldIn(s)' = HeldIn(s) /\ HeldSum(s, g)' = HeldSum(s, g)
  BY HeldInStays
<1>2. Balanced(r)'
  BY <1>1 DEF Books, Balanced
<1>3. ASSUME NEW s \in Rounds \ {r}
      PROVE  Balanced(s)' /\ Staged(s)'
  <2>1. Balanced(s) /\ Staged(s) /\ HeldIn(s)' = HeldIn(s)
    BY <1>1 DEF Books, Funders
  <2> QED BY <2>1, RoundKept
<1>4. WalletsCover'
  BY DEF Books, WalletsCover
<1> QED BY <1>2, <1>3, <1>4 DEF Books

LEMMA AuthorBooks ==
  ASSUME Books, NEW r \in Rounds, AuthorStep(r)
  PROVE  Books'
<1>0. /\ Rows' /\ TypeOK /\ Staged(r) /\ Balanced(r) /\ plan[r] \in PlanRow
      /\ HeldIn(r)' = HeldIn(r) /\ \A f \in Funders : contribution[r][f] \in ContributionRow
  <2>1. Rows'
    BY FunderRows DEF Books
  <2>2. UNCHANGED hold
    BY DEF AuthorStep, CreatePlan, UpdatePlan, Contribute, SubmitPlan, ClosePlan,
           CancelPlan, ExtendPlan
  <2> QED BY <2>1, <2>2, HeldInStays DEF Books, Rows, TypeOK
<1>1. ASSUME NEW terms \in Terms, CreatePlan(r, terms)
      PROVE  Books'
  <2>1. /\ plan'[r].status = "draft" /\ plan'[r].target >= Cost /\ plan[r].status = "none"
        /\ UNCHANGED <<contribution, wallet, budget, onHold, hold>>
        /\ \A s \in Rounds \ {r} : plan'[s] = plan[s] /\ sponsorship'[s] = sponsorship[s]
    BY <1>0, <1>1, TargetsCover DEF CreatePlan, TypeOK, books
  <2>2. \A f \in Funders : contribution[r][f].remaining = 0
                           /\ contribution[r][f].committed = contribution[r][f].remaining
    BY <1>0, <2>1 DEF Staged
  <2>3. BudgetAgrees(r)'
    BY <1>0, <2>1, <2>2 DEF Balanced, BudgetAgrees, Funders
  <2>4. Staged(r)'
    BY <1>0, <2>1, <2>2 DEF Staged, Terminal
  <2> QED BY <1>0, <2>1, <2>3, <2>4, RowBooks
<1>2. ASSUME NEW terms \in Terms, UpdatePlan(r, terms)
      PROVE  Books'
  <2>1. /\ plan'[r].status = "draft" /\ plan'[r].target >= Cost /\ plan[r].status = "draft"
        /\ plan'[r].mode = terms.mode
        /\ (\E f \in Funders : contribution[r][f].committed > 0) => terms.mode = plan[r].mode
        /\ UNCHANGED <<contribution, wallet, budget, onHold, hold>>
        /\ \A s \in Rounds \ {r} : plan'[s] = plan[s] /\ sponsorship'[s] = sponsorship[s]
    BY <1>0, <1>2, TargetsCover DEF UpdatePlan, TypeOK, PlanRow, books
  <2>2. \A f \in Funders : /\ contribution[r][f].committed = contribution[r][f].remaining
                           /\ contribution[r][f].remaining >= 0
                           /\ contribution[r][f].remaining \in Int
    BY <1>0, <2>1, ColumnsAreInts DEF Staged, Balanced
  <2>3. BudgetAgrees(r)'
    <3>1. CASE terms.mode = plan[r].mode
      BY <1>0, <2>1, <3>1 DEF Balanced, BudgetAgrees
    <3>2. CASE terms.mode # plan[r].mode
      <4>1. \A f \in Funders : contribution[r][f].remaining = 0
        BY <2>1, <2>2, <3>2
      <4> QED BY <1>0, <2>1, <4>1 DEF Balanced, BudgetAgrees, Funders
    <3> QED BY <3>1, <3>2
  <2>4. Staged(r)'
    BY <1>0, <2>1, <2>2 DEF Staged, Terminal
  <2> QED BY <1>0, <2>1, <2>3, <2>4, RowBooks
<1>3. ASSUME NEW points \in Amounts, Contribute(r, points)
      PROVE  Books'
  BY <1>0, <1>3, ContributeBooks
<1>4. CASE SubmitPlan(r)
  <2> DEFINE row == [plan[r] EXCEPT !.status = "pending_sponsors", !.deadline = now + SponsorDays]
  <2>1. /\ row \in PlanRow /\ row.status = "pending_sponsors" /\ row.mode = plan[r].mode
        /\ row.target = plan[r].target
    <3>1. "pending_sponsors" \in OpenStates /\ now + SponsorDays \in Nat
      BY <1>0, TimesAreNat DEF OpenStates, TypeOK
    <3>2. row \in PlanRow
      BY <1>0, <3>1, PlanTyped
    <3> QED BY <1>0, <3>2 DEF PlanRow
  <2>2. /\ plan' = [plan EXCEPT ![r] = Activated(row, contribution[r])]
        /\ plan[r].status = "draft"
        /\ UNCHANGED <<contribution, wallet, budget, onHold, hold, sponsorship>>
    BY <1>4 DEF SubmitPlan, ActivateIfFunded, books
  <2> HIDE DEF row
  <2>3. plan'[r] = Activated(row, contribution[r]) /\ \A s \in Rounds \ {r} : plan'[s] = plan[s]
    BY <1>0, <2>2 DEF TypeOK
  <2>4. /\ plan[r].target >= Cost /\ HeldIn(r) = {}
        /\ \A f \in Funders : contribution[r][f].committed = contribution[r][f].remaining
    BY <1>0, <2>2 DEF Staged
  <2>5. Staged(r)' /\ plan'[r].mode = plan[r].mode
    BY <1>0, <2>1, <2>2, <2>3, <2>4, ActivationStaged
  <2>6. BudgetAgrees(r)'
    BY <1>0, <2>2, <2>5 DEF Balanced, BudgetAgrees
  <2> QED BY <1>0, <2>2, <2>3, <2>5, <2>6, RowBooks
<1>5. CASE ClosePlan(r) \/ CancelPlan(r)
  BY <1>0, <1>5, CloseBooks
<1>6. ASSUME NEW ends \in 1..MaxTime, ExtendPlan(r, ends)
      PROVE  Books'
  <2>1. /\ plan'[r].status = plan[r].status /\ plan'[r].mode = plan[r].mode
        /\ plan'[r].target = plan[r].target
        /\ UNCHANGED <<contribution, wallet, budget, onHold, hold, sponsorship>>
        /\ \A s \in Rounds \ {r} : plan'[s] = plan[s]
    BY <1>0, <1>6 DEF ExtendPlan, TypeOK, PlanRow, books
  <2>2. Staged(r)'
    BY <1>0, <2>1 DEF Staged
  <2>3. BudgetAgrees(r)'
    BY <1>0, <2>1 DEF Balanced, BudgetAgrees
  <2> QED BY <1>0, <2>1, <2>2, <2>3, RowBooks
<1> QED BY <1>1, <1>2, <1>3, <1>4, <1>5, <1>6 DEF AuthorStep

LEMMA SponsorBooks ==
  ASSUME Books, NEW r \in Rounds, SponsorStep(r)
  PROVE  Books'
<1>0. /\ Rows' /\ TypeOK /\ Staged(r) /\ Balanced(r) /\ plan[r] \in PlanRow
      /\ UNCHANGED hold /\ HeldIn(r)' = HeldIn(r)
  <2>1. Rows'
    BY FunderRows DEF Books
  <2>2. UNCHANGED hold
    BY DEF SponsorStep, RequestSponsor, CounterOffer, AcceptSponsor, AcceptCounter,
           AcceptTerms, DecideSponsor, TopUp
  <2> QED BY <2>1, <2>2, HeldInStays DEF Books, Rows, TypeOK
<1>1. ASSUME NEW row, sponsorship' = [sponsorship EXCEPT ![r] = row],
             plan[r].status \in {"pending_sponsors", "active"} \/ row.status = "none",
             UNCHANGED <<plan, books>>
      PROVE  Books'
  <2>1. sponsorship'[r] = row /\ \A s \in Rounds \ {r} : sponsorship'[s] = sponsorship[s]
    BY <1>0, <1>1 DEF TypeOK
  <2>2. Staged(r)'
    BY <1>0, <1>1, <2>1 DEF Staged, Terminal, books
  <2>3. BudgetAgrees(r)'
    BY <1>0, <1>1 DEF Balanced, BudgetAgrees, books
  <2> QED BY <1>0, <1>1, <2>1, <2>2, <2>3, RowBooks DEF books
<1>2. ASSUME NEW offer \in Offers, RequestSponsor(r, offer)
      PROVE  Books'
  BY <1>1, <1>2 DEF RequestSponsor, Sponsorable
<1>3. ASSUME NEW offer \in Offers, CounterOffer(r, offer)
      PROVE  Books'
  BY <1>1, <1>3 DEF CounterOffer, Sponsorable
<1>4. CASE AcceptSponsor(r) \/ AcceptCounter(r)
  <2>1. sponsorship[r].asked.points \in Nat /\ sponsorship[r].countered.points \in Nat
    BY <1>0 DEF TypeOK, SponsorshipRow
  <2> QED BY <1>0, <1>4, <2>1, AcceptBooks DEF AcceptSponsor, AcceptCounter
<1>5. CASE DecideSponsor(r)
  <2>1. NoSponsorship.status = "none"
    BY DEF NoSponsorship
  <2> QED BY <1>1, <1>5, <2>1 DEF DecideSponsor
<1>6. ASSUME NEW points \in Amounts, TopUp(r, points)
      PROVE  Books'
  <2>1. /\ Commit(r, "merchant", points) /\ plan' = plan /\ plan[r].status = "active"
        /\ sponsorship' = sponsorship /\ points \in Nat /\ "merchant" \in Funders
    BY <1>6, PointsAreNat DEF TopUp, Funders
  <2>2. /\ WalletsCover' /\ Balanced(r)'
        /\ \A s \in Rounds \ {r} : Balanced(s)' /\ Staged(s)'
        /\ HeldIn(r)' = HeldIn(r)
        /\ \A g \in Funders :
             /\ contribution'[r][g] \in ContributionRow
             /\ contribution'[r][g].remaining >= contribution[r][g].remaining
    BY <1>0, <2>1, CommitBooks
  <2>3. Staged(r)'
    BY <2>1, <2>2, ActiveStaged
  <2> QED BY <1>0, <2>2, <2>3 DEF Books
<1> QED BY <1>2, <1>3, <1>4, <1>5, <1>6 DEF SponsorStep

LEMMA TravelerBooks ==
  ASSUME Books, NEW u \in Travelers, TravelerStep(u)
  PROVE  Books'
<1>0. Rows' /\ TypeOK /\ WalletsCover /\ ProofsNameHolds
  BY TravelerRows DEF Books, Rows
<1>1. ASSUME NEW r \in Rounds, StartFundedAttempt(r, u)
      PROVE  Books'
  BY <1>1, StartBooks
<1>2. CASE PostProof(u)
  <2>1. PICK h \in Holds : SetAttempt(h, "submitted")
    BY <1>2 DEF PostProof, HeldBy
  <2>2. UNCHANGED <<plan, sponsorship, contribution, wallet, budget, onHold>>
    BY <1>2 DEF PostProof, books
  <2> QED BY <1>0, <2>1, <2>2, SetAttemptKeepsAmounts, BooksStay DEF WalletsCover
<1>3. CASE ReadAttempt(u) \/ DropRequest(u)
  <2>1. UNCHANGED <<plan, sponsorship, contribution, wallet, budget, onHold, hold>>
    BY <1>3 DEF ReadAttempt, DropRequest, books
  <2> QED BY <1>0, <2>1, BooksStay DEF WalletsCover
<1>4. CASE SubmitAttempt(u)
  <2>1. reading[u] \in Holds
    BY <1>0, <1>4 DEF SubmitAttempt, TypeOK
  <2>2. PICK h \in Holds : SetAttempt(h, "submitted")
    BY <1>4, <2>1 DEF SubmitAttempt
  <2>3. UNCHANGED <<plan, sponsorship, contribution, wallet, budget, onHold>>
    BY <1>4 DEF SubmitAttempt, books
  <2> QED BY <1>0, <2>2, <2>3, SetAttemptKeepsAmounts, BooksStay DEF WalletsCover
<1>5. CASE CompleteAttempt(u)
  BY <1>0, <1>5, PayBooks DEF CompleteAttempt, HeldBy
<1> QED BY <1>1, <1>2, <1>3, <1>4, <1>5 DEF TravelerStep

LEMMA ReviewBooks ==
  ASSUME Books, ReviewStep
  PROVE  Books'
<1>0. Rows' /\ TypeOK /\ WalletsCover /\ ProofsNameHolds
  BY ReviewRows DEF Books, Rows
<1>1. ASSUME NEW h \in Holds, ApproveAttempt(h)
      PROVE  Books'
  BY <1>0, <1>1, PayBooks DEF ApproveAttempt
<1>2. ASSUME NEW h \in Holds, ReopenAttempt(h)
      PROVE  Books'
  <2>1. /\ SetAttempt(h, "in_progress")
        /\ UNCHANGED <<plan, sponsorship, contribution, wallet, budget, onHold>>
    BY <1>2 DEF ReopenAttempt, books
  <2> QED BY <1>0, <2>1, SetAttemptKeepsAmounts, BooksStay DEF WalletsCover
<1>3. ASSUME NEW u \in Travelers, ApproveProof(u)
      PROVE  Books'
  <2>1. PICK h \in HeldBy(u) : PayHold(h)
    BY <1>3 DEF ApproveProof
  <2>2. h \in Holds
    BY DEF HeldBy
  <2> QED BY <1>0, <2>1, <2>2, PayBooks
<1>4. ASSUME NEW u \in Travelers, RejectProof(u)
      PROVE  Books'
  <2>1. /\ SetAttempt(proof[u].hold, "in_progress") \/ UNCHANGED hold
        /\ UNCHANGED <<plan, sponsorship, contribution, wallet, budget, onHold>>
    BY <1>4 DEF RejectProof, books
  <2>2. proof[u].hold \in Holds
    BY <1>0, <1>4 DEF RejectProof, ProofsNameHolds
  <2>3. \A g \in Holds : /\ hold'[g].status = hold[g].status /\ hold'[g].round = hold[g].round
                         /\ hold'[g].reward = hold[g].reward /\ hold'[g].fee = hold[g].fee
    <3>1. CASE SetAttempt(proof[u].hold, "in_progress")
      <4>1. PICK h \in Holds : SetAttempt(h, "in_progress")
        BY <2>2, <3>1
      <4> QED BY <1>0, <4>1, SetAttemptKeepsAmounts
    <3>2. CASE UNCHANGED hold
      BY <3>2
    <3> QED BY <2>1, <3>1, <3>2
  <2> QED BY <1>0, <2>1, <2>3, BooksStay DEF WalletsCover
<1> QED BY <1>1, <1>2, <1>3, <1>4 DEF ReviewStep

LEMMA BooksAtStart == Init => Books
<1> SUFFICES ASSUME Init PROVE Books
  OBVIOUS
<1>1. Rows
  BY RowsAtStart
<1>2. WalletsCover
  BY WalletsAreTyped DEF Init, WalletsCover
<1>3. ASSUME NEW r \in Rounds
      PROVE  Balanced(r) /\ Staged(r)
  <2>1. HeldIn(r) = {}
    BY DEF Init, HeldIn, NoHold
  <2>2. \A f \in Funders : HeldSum(r, f) = 0
    BY <2>1, SumOfEmpty DEF HeldSum
  <2>3. /\ \A f \in Funders : contribution[r][f] = NoContribution
        /\ plan[r].status = "none" /\ budget[r] = 0 /\ onHold[r] = 0
    BY DEF Init
  <2>4. Balanced(r)
    BY <2>2, <2>3 DEF Balanced, BudgetAgrees, Accounted, NoContribution, Funders
  <2>5. Staged(r)
    BY <2>1, <2>3 DEF Staged, NoContribution, Terminal
  <2> QED BY <2>4, <2>5
<1> QED BY <1>1, <1>2, <1>3 DEF Books

LEMMA StepKeepsBooks ==
  ASSUME Books, [Next]_fundingVars
  PROVE  Books'
<1>0. Rows' /\ WalletsCover /\ TypeOK
  BY StepKeepsRows DEF Books, Rows
<1>1. ASSUME NEW r \in Rounds, AuthorStep(r) \/ SponsorStep(r) \/ RunFundingScheduler(r)
      PROVE  Books'
  BY <1>1, AuthorBooks, SponsorBooks, SchedulerBooks
<1>2. ASSUME NEW f \in Funders, NEW points \in Amounts, SpendElsewhere(f, points)
      PROVE  Books'
  <2>1. UNCHANGED <<plan, sponsorship, contribution, budget, onHold, hold>>
    BY <1>2 DEF SpendElsewhere
  <2>2. WalletsCover'
    <3>1. /\ wallet' = [wallet EXCEPT ![f] = @ - points] /\ wallet[f] >= points
          /\ wallet \in [Funders -> Int] /\ points \in Int
      BY <1>0, <1>2, PointsAreNat DEF SpendElsewhere, TypeOK
    <3> QED BY <1>0, <3>1 DEF WalletsCover
  <2> QED BY <1>0, <2>1, <2>2, BooksStay
<1>3. ASSUME NEW u \in Travelers, TravelerStep(u)
      PROVE  Books'
  BY <1>3, TravelerBooks
<1>4. ASSUME NEW u \in Travelers, NEW v \in Vouchers, RedeemVoucher(u, v)
      PROVE  Books'
  BY <1>0, <1>4, BooksStay DEF RedeemVoucher, books, WalletsCover
<1>5. ASSUME NEW h \in Holds, AbandonFundedAttempt(h)
      PROVE  Books'
  BY <1>5, AbandonBooks
<1>6. CASE ReviewStep
  BY <1>6, ReviewBooks
<1>7. CASE Tick
  BY <1>0, <1>7, BooksStay DEF Tick, books, WalletsCover
<1>8. CASE UNCHANGED fundingVars
  BY <1>0, <1>8, BooksStay DEF fundingVars, books, WalletsCover
<1> QED BY <1>1, <1>2, <1>3, <1>4, <1>5, <1>6, <1>7, <1>8 DEF Next

\* No point a funder commits is lost, held twice or kept by a round that
\* ended: what the contributions, the budget and hold accounts and the held
\* rewards say of a round always agrees, and an active budget can pay one
\* more reward.
THEOREM BooksAgree == Spec => []FundingBooks
BY BooksAtStart, StepKeepsBooks, BooksSuffice, PTL DEF Spec
=============================================================================
