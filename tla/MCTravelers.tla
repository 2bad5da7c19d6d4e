----------------------------- MODULE MCTravelers -----------------------------
(***************************************************************************)
(* The traveler's own side: accounts and sessions, trails and their weekly *)
(* batch, the route solver, destinations and their photos, follows,        *)
(* cosmetics and businesses; and what every request relies on, the schema  *)
(* and the rate limits.  They share no row, so a behaviour has a focus, a  *)
(* part of one of them, and leaves the others at rest.                     *)
(***************************************************************************)
EXTENDS TravelersSide, TLC

VARIABLE focus

platformVars == <<limitVars, migrationVars>>

mcVars == <<focus, accountVars, sessionVars, trailVars, trendVars, solverVars, spotVars,
            followVars, cosmeticVars, affiliateVars, platformVars>>

-----------------------------------------------------------------------------
(* Constants *)

MCPrice == [t \in Tiers |-> CASE t = "signature" -> 5 [] t = "legendary" -> 8 [] OTHER -> 0]
MCReward == [t \in Tiers \union {"personal"} |->
  CASE t = "explorer" -> 2 [] t = "signature" -> 3 [] t = "legendary" -> 4 [] OTHER -> 1]

MCRank == [u \in Travelers |-> CASE u = "ann" -> 1 [] u = "bob" -> 2 [] u = "cat" -> 3 [] OTHER -> 4]

MCPieceCost == [p \in Pieces |-> IF p = "hat" THEN 1 ELSE 2]

\* A release that lacks the last file, one that has it, and one whose second was edited.
MCContent ==
  [p \in Boots |-> [f \in 1..LastFile |->
     CASE p = "old" /\ f = 3 -> NoFile [] p = "edited" /\ f = 2 -> "b" [] OTHER -> "a"]]

MCAreas == <<"alaminos", "bolinao">>
MCDigests == {<<"food">>, <<"sea">>}

\* Four destinations along a road of ten minutes a leg, other legs longer; the
\* first two may keep hours; two are churches, and two categories are one each.
Nearby == {"a", "b", "c", "d"}
MCProblems ==
  {[value |-> [n \in Nearby |-> IF n = "d" THEN 60 ELSE 50],
    dwell |-> [n \in Nearby |-> 45],
    window |-> [n \in Nearby |-> IF n = "a" THEN wa ELSE IF n = "b" THEN wb ELSE {}],
    category |-> [n \in Nearby |-> IF n \in {"a", "d"} THEN "church" ELSE "food"],
    leg |-> [x \in Nearby \X Nearby |->
               IF x[1] = x[2] THEN 0
               ELSE IF x \in {<<"a", "b">>, <<"b", "c">>, <<"c", "d">>} THEN 10 ELSE far],
    exclude |-> {}, must |-> must, start |-> start, budget |-> budget,
    min |-> 2, max |-> 3, maxLeg |-> 30, maxPerCategory |-> 1] :
     wa \in {{}, 40..120, 100..160}, wb \in {{}, 0..20}, far \in {20, 40},
     must \in {{}, {"c"}}, start \in {NoStart, "b"}, budget \in {100, 200}}

-----------------------------------------------------------------------------

MCInit ==
  /\ focus \in {"mail", "google", "wallets", "revocations", "logins", "catalog",
                "personal", "trends", "solver", "photos", "quests", "follows", "profiles", "coins", "shop",
                "affiliates", "limits", "boots"}
  /\ AccountsInit /\ SessionInit /\ TrailInit /\ TrendInit /\ SolverInit /\ SpotsInit
  /\ FollowsInit /\ CosmeticsInit /\ AffiliatesInit /\ LimitInit /\ MigrationInit
  /\ focus # "wallets" => accounts = 0
  /\ focus # "catalog" => perks = {}
  /\ stock["i1"].kind = "banner" /\ stock["i2"].kind = "frame"
  /\ focus # "solver" => problem = CHOOSE p \in Problems : TRUE

InFocus(name, others) == focus = name /\ UNCHANGED <<focus, others>>

restOfAccounts == <<sessionVars, trailVars, trendVars, solverVars, spotVars, followVars, cosmeticVars, affiliateVars, platformVars>>
restOfSessions == <<accountVars, trailVars, trendVars, solverVars, spotVars, followVars, cosmeticVars, affiliateVars, platformVars>>
restOfTrails == <<accountVars, sessionVars, trendVars, solverVars, spotVars, followVars, cosmeticVars, affiliateVars, platformVars>>
restOfTrends == <<accountVars, sessionVars, trailVars, solverVars, spotVars, followVars, cosmeticVars, affiliateVars, platformVars>>
restOfSolver == <<accountVars, sessionVars, trailVars, trendVars, spotVars, followVars, cosmeticVars, affiliateVars, platformVars>>
restOfFollows == <<accountVars, sessionVars, trailVars, trendVars, solverVars, spotVars, cosmeticVars, affiliateVars, platformVars>>
restOfCosmetics == <<accountVars, sessionVars, trailVars, trendVars, solverVars, spotVars, followVars, affiliateVars, platformVars>>
restOfAffiliates == <<accountVars, sessionVars, trailVars, trendVars, solverVars, spotVars, followVars, cosmeticVars, platformVars>>
restOfSpots == <<accountVars, sessionVars, trailVars, trendVars, solverVars, followVars, cosmeticVars, affiliateVars, platformVars>>

restOfLimits == <<accountVars, sessionVars, trailVars, trendVars, solverVars, spotVars,
                  followVars, cosmeticVars, affiliateVars, migrationVars>>
restOfBoots == <<accountVars, sessionVars, trailVars, trendVars, solverVars, spotVars,
                 followVars, cosmeticVars, affiliateVars, limitVars>>

\* Ids are taken in order.
InOrder(order, taken(_)) ==
  \A i \in 2..Len(order) : taken(order[i]) => taken(order[i - 1])

AccountFocus ==
  \/ /\ InFocus("mail", restOfAccounts)
     /\ \/ Statement("r1")
        \/ Statement("r2") /\ UNCHANGED breaks
        \/ \E r \in Visits, e \in Emails,
              op \in {"register", "resend", "forgot", "verify", "verifyCode", "reset"} :
             /\ op \in IF r = "r1" THEN {"register", "resend", "verify"}
                       ELSE {"forgot", "verifyCode", "reset"}
             /\ Arrive(r, op, e, NoWallet)
        \/ \E c \in Codes : CodeExpires(c)
  \/ /\ InFocus("google", restOfAccounts)
     /\ \/ \E r \in Visits : Statement(r)
        \/ \E r \in Visits, e \in Emails, op \in {"register", "verify", "google"} :
             Arrive(r, op, e, NoWallet)
  \/ /\ InFocus("wallets", restOfAccounts)
     /\ \/ \E r \in Visits : Statement(r)
        \/ \E r \in Visits, e \in Emails, w \in Wallets :
             IF r = "r1" THEN Arrive(r, "wallet", "none", w) ELSE Arrive(r, "complete", e, w)
        \/ \E w \in Wallets : WalletChallenge(w)
        \/ \E u \in Rows, w \in Wallets : Bind(u, w)
        \/ \E u \in Rows : Unbind(u)
        \/ ServerRestarts

\* "revocations": one process signs out everywhere while the requests of the
\* other are looked up; "logins": one process and one request at a time.
SessionFocus ==
  \/ /\ InFocus("revocations", restOfSessions)
     /\ \/ \E op \in {"visit", "revoke"} : Authenticate("c1", "s1", op, 0)
        \/ \E p \in Processes : Authenticate("c2", p, "visit", 0)
        \/ LookupStep \/ SessionTick
        \/ BumpSessionEpoch("c1") \/ InvalidateSessionScopeCache("c1")
  \/ /\ InFocus("logins", restOfSessions)
     /\ SessionNext
     /\ call'["c2"] = Idle /\ call'["c1"].at # "s2" /\ failures'["s2"] = NoFailure

TrailFocus ==
  \/ /\ InFocus("catalog", restOfTrails)
     /\ \/ \E u \in Guests : TravelerOnTrail(u) \/ ReachLevel(u)
        \/ TrailAdmin
        \/ NextTrailWeek({"bonus"})
  \/ /\ InFocus("personal", restOfTrails)
     /\ \/ \E d \in Drafts : DraftStep(d) \/ \E u \in Guests, s \in Stops : CheckIn(u, d, s)
        \/ NextTrailWeek({"bonus"})
     /\ InOrder(<<"d1", "d2", "d3">>, LAMBDA d : draft'[d] # NoDraft)

\* Ticks begin on the first Monday; the window of the second is shut.
TrendFocus ==
  /\ InFocus("trends", restOfTrends)
  /\ \/ \E p \in Tickers :
          /\ ticker[p] = NoTick => monday = 0 /\ (p = "t2" => made # {})
          /\ TrendStep(p)
     \/ TrendClock

\* "photos": destinations posted with their photos; "quests": the quests of
\* destinations, the second posted with a quest of the first, and reviews.
SpotFocus ==
  \/ /\ InFocus("photos", restOfSpots)
     /\ SpotStep
     /\ UNCHANGED <<make, reviews>> /\ \A s \in Places : post'[s].quest = NoQuest
     /\ post'["p1"].by \in {Nobody, "ana"} /\ photo'["f1"].by \in {Nobody, "ana"}
     /\ InOrder(<<"p1", "p2">>, LAMBDA s : post'[s].at # "idle")
     /\ InOrder(<<"f1", "f2">>, LAMBDA a : photo'[a].by # Nobody)
  \/ /\ InFocus("quests", restOfSpots)
     /\ SpotStep
     /\ UNCHANGED photo
     /\ \A s \in Places : post'[s].photos = <<>>
     /\ post'["p1"].by \in {Nobody, "ana"} /\ post'["p1"].quest = NoQuest
     /\ post'["p2"].at # "idle" => post'["p2"].by = "ben" /\ post'["p2"].quest = "q1"
     /\ post'["p2"].at # "idle" => post'["p1"].at = "posted" /\ UNCHANGED reviews
     /\ InOrder(<<"q1", "q2">>, LAMBDA q : make'[q].at # "idle")
     /\ Cardinality(reviews') <= 1

\* "follows": others follow the profile while a reader walks through who does;
\* "profiles": profiles change, and one is followed, while the profile follows.
FollowFocus ==
  \/ /\ InFocus("follows", restOfFollows)
     /\ FollowsStep
     /\ UNCHANGED <<mirror, notices>>
     /\ edit'["e2"] = NoEdit /\ edit'["e1"] \in {NoEdit, [of |-> "bob", row |-> FALSE]}
     /\ walk'.at \in {"more", "done"} => ask'["w2"].at # "begun"
     /\ ask'["w1"].from \in {NoTraveler, "bob"} /\ ask'["w2"].from \in {NoTraveler, "cat"}
     /\ \A a \in FollowAsks : ask'[a].to \in {NoTraveler, Profile}
     /\ walk'.list \in {"none", "followers"}
     /\ (walk'.at # "done" \/ walk.at = "more")
     /\ walk'.at # "idle" => \A a \in FollowAsks : ask'[a].at # "begun" \/ ask[a].at = "begun"
  \/ /\ InFocus("profiles", restOfFollows)
     /\ FollowsStep
     /\ instant' = 0 /\ ask'["w2"].at = "idle"
     /\ ask'["w1"].from \in {NoTraveler, Profile} /\ ask'["w1"].to \in {NoTraveler, "bob"}
     /\ edit'["e1"].of \in {NoTraveler, Profile, "bob"} /\ edit'["e2"].of \in {NoTraveler, "bob"}
     /\ edit'["e2"] # edit["e2"] => UNCHANGED public
     /\ walk'.at = "idle" \/ edit'["e2"] = NoEdit
     /\ walk'.list # "followers" /\ (walk'.at \notin {"done", "refused"} \/ walk.at = "more")

\* "coins": the pilot; "shop": one traveler, two items, one of a badge.
CosmeticsFocus ==
  \/ InFocus("coins", restOfCosmetics) /\ CoinStep
  \/ /\ InFocus("shop", restOfCosmetics)
     /\ ShopStep
     /\ stock'["i2"] = stock["i2"] /\ stock'["i1"].kind = "banner"
     /\ purse'["ann"] + takings' <= 2 /\ closet'["ann"]["i2"].key # "k2"
     /\ closet'["ann"]["i2"].source # "grant"
     /\ \A r \in Wears, s \in Slots : wear'[r].next[s] \in {NoItem, IF s = "banner" THEN "i1" ELSE "i2"}
     /\ wear'["w2"].at = "idle" \/ wear["w2"].at # "idle" \/ wear["w1"].at # "idle"

\* The first request files the first application and may review it without naming a
\* version; the second files the other one, once, and reviews the first by its version.
AffiliateFocus ==
  /\ InFocus("affiliates", restOfAffiliates)
  /\ AffiliateStep
  /\ request'["r1"].app \in {NoBusiness, "a1"} /\ request'["r1"].expected = 0
  /\ request'["r1"].row.version = 1 => request'["r1"].row.town = "alaminos"
  /\ IF request'["r2"].app = "a2" THEN request'["r2"].row.town = "anda"
     ELSE request'["r2"].app = "a1" => request'["r2"].expected # 0
  /\ Len(audits'["a2"]) <= 1 /\ request'["r2"].row.status # "in_review"
  /\ (request["r2"].at = "committed" /\ request'["r2"].at = "idle" => known' # known)
  /\ {m.id : m \in request'["r1"].opens} \subseteq {"m1"}
  /\ {m.id : m \in request'["r2"].opens} \subseteq {"m2"}

MCNext ==
  \/ AccountFocus \/ SessionFocus \/ TrailFocus \/ TrendFocus
  \/ InFocus("solver", restOfSolver) /\ SolverStep
  \/ SpotFocus \/ FollowFocus \/ CosmeticsFocus \/ AffiliateFocus
  \/ InFocus("limits", restOfLimits) /\ LimitNext
  \/ InFocus("boots", restOfBoots) /\ MigrationNext

MCSpec == MCInit /\ [][MCNext]_mcVars

=============================================================================
