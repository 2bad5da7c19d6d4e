------------------------------ MODULE Affiliates ------------------------------
(***************************************************************************)
(* How a business joins (routes/affiliates.ts and the affiliate functions  *)
(* of db/index.ts).  A traveler applies, reviewers ask for changes, reject *)
(* or approve, and an approval opens a merchant with the traveler as its   *)
(* owner.  Requests decide from the copy the server keeps in memory, write *)
(* one transaction, and change the copy when it has committed; the tables  *)
(* keep an audit of every decision.                                        *)
(***************************************************************************)
EXTENDS Naturals, Sequences, FiniteSets, SequencesExt

CONSTANTS Applicants,
          Applications,  \* ids of merchant_affiliate_applications
          Requests,
          MerchantIds,
          Towns,         \* municipalities
          AreaTowns,     \* those whose name belongs to exactly one area
          NoBusiness,
          MaxAudits      \* bound: decisions about one application

ASSUME AffiliatesAssumption == AreaTowns \subseteq Towns /\ MaxAudits \in Nat \ {0}

VARIABLES filed,      \* merchant_affiliate_applications
          audits,     \* merchant_application_audits, by application
          merchants,  \* merchants that came from an application
          owners,     \* merchant_memberships
          known,      \* the copy in memory: applications, merchants, owners
          request     \* by request: what it decided

affiliateTables == <<filed, audits, merchants, owners>>
affiliateVars == <<affiliateTables, known, request>>

UnderWay == {"received", "in_review", "needs_changes"}
Decisions == {"in_review", "approved", "rejected", "needs_changes"}
NoApplication == [of |-> NoBusiness, status |-> "draft", version |-> 0, town |-> NoBusiness]
NoRequest == [at |-> "idle", app |-> NoBusiness, row |-> NoApplication, from |-> "draft",
              opens |-> {}, joins |-> {}, expected |-> 0, area |-> NoBusiness]

Audit(r) == [from |-> request[r].from, to |-> request[r].row.status,
             revision |-> request[r].row.version]

Ask(r, task) == request' = [request EXCEPT ![r] = task]

-----------------------------------------------------------------------------
(* Decided from memory *)

\* An applicant may have one application under way, as far as the memory knows.
CreateApplication(r, u, a, town) ==
  /\ request[r] = NoRequest
  /\ filed[a] = NoApplication /\ \A q \in Requests : request[q].app # a
  /\ \A b \in Applications : known.filed[b].of = u => known.filed[b].status \notin UnderWay
  /\ Ask(r, [NoRequest EXCEPT !.at = "begun", !.app = a,
               !.row = [of |-> u, status |-> "received", version |-> 1, town |-> town]])
  /\ UNCHANGED <<affiliateTables, known>>

ResubmitApplication(r, a, town) ==
  /\ request[r] = NoRequest
  /\ known.filed[a].status = "needs_changes"
  /\ Ask(r, [NoRequest EXCEPT !.at = "begun", !.app = a, !.from = "needs_changes",
               !.row = [known.filed[a] EXCEPT !.status = "received", !.version = @ + 1,
                                              !.town = town]])
  /\ UNCHANGED <<affiliateTables, known>>

\* The route looks up the area of the town first; a reviewer may name the version read.
ReviewRequested(r, a, to, expected) ==
  /\ request[r] = NoRequest
  /\ known.filed[a] # NoApplication /\ expected \in {0, known.filed[a].version}
  /\ Ask(r, [NoRequest EXCEPT !.at = "asked", !.app = a, !.row.status = to,
               !.expected = expected,
               !.area = IF known.filed[a].town \in AreaTowns THEN known.filed[a].town ELSE NoBusiness])
  /\ UNCHANGED <<affiliateTables, known>>

\* An approval opens a merchant unless the memory knows one of this application.
MerchantOf(a) == {m \in known.merchants : m.source = a}

BuildMerchantProvision(a, id) ==
  IF MerchantOf(a) = {} THEN {[id |-> id, source |-> a, town |-> known.filed[a].town, area |-> NoBusiness]}
  ELSE {}

UpdateApplicationStatus(r, id) ==
  LET a == request[r].app
      app == known.filed[a]
      to == request[r].row.status
      opens == IF to = "approved" THEN BuildMerchantProvision(a, id) ELSE {}
      joins == IF to = "approved"
               THEN {<<m.id, app.of>> : m \in opens \cup MerchantOf(a)} \ known.owners ELSE {}
  IN /\ request[r].at = "asked"
     /\ id \notin {m.id : m \in merchants \cup UNION {request[q].opens : q \in Requests}}
     /\ IF request[r].expected \notin {0, app.version} THEN Ask(r, NoRequest)
        ELSE Ask(r, [request[r] EXCEPT !.at = "begun", !.from = app.status,
                       !.row = [app EXCEPT !.status = to], !.opens = opens, !.joins = joins])
     /\ UNCHANGED <<affiliateTables, known>>

-----------------------------------------------------------------------------
(* One transaction, then the memory *)

\* A review writes the status only; a submission writes the whole row.
Written(r, row) ==
  IF request[r].row.status = "received" THEN request[r].row
  ELSE [row EXCEPT !.status = request[r].row.status]

\* idx_user_active_affiliate_app
OneUnderReview(a, row) ==
  row.status \in {"received", "in_review"} =>
    \A b \in Applications \ {a} :
      filed[b].of = row.of => filed[b].status \notin {"received", "in_review"}

\* merchants.source_application_id is unique.
OneMerchantEach(r) ==
  \A m \in request[r].opens : \A n \in merchants : n.source # m.source

\* A constraint that fails, or a database that does, rolls everything back.
RunDurableTransaction(r) ==
  LET a == request[r].app
      row == Written(r, filed[a])
  IN
  /\ request[r].at = "begun" /\ Len(audits[a]) < MaxAudits
  /\ \/ /\ OneUnderReview(a, row) /\ OneMerchantEach(r)
        /\ filed' = [filed EXCEPT ![a] = row]
        /\ audits' = [audits EXCEPT ![a] = Append(@, Audit(r))]
        /\ merchants' = merchants \cup request[r].opens
        /\ owners' = owners \cup request[r].joins
        /\ Ask(r, [request[r] EXCEPT !.at = "committed"])
     \/ Ask(r, NoRequest) /\ UNCHANGED affiliateTables
  /\ UNCHANGED known

\* The answer to a COMMIT that arrived may be lost: the memory does not hear of it.
CommitAnswerLost(r) ==
  /\ request[r].at = "committed"
  /\ Ask(r, NoRequest)
  /\ UNCHANGED <<affiliateTables, known>>

\* The memory's row changes in the fields the request wrote.
PutInKnown(r) ==
  LET a == request[r].app
      row == Written(r, known.filed[a])
  IN /\ request[r].at = "committed"
     /\ known' = [filed |-> [known.filed EXCEPT ![a] = row],
                  merchants |-> known.merchants \cup request[r].opens,
                  owners |-> known.owners \cup request[r].joins]
     /\ Ask(r, IF row.status = "approved" /\ request[r].area # NoBusiness
               THEN [request[r] EXCEPT !.at = "placing"] ELSE NoRequest)
     /\ UNCHANGED affiliateTables

\* A statement of its own gives the merchant its area.
PlaceMerchant(r) ==
  /\ request[r].at = "placing"
  /\ merchants' = {IF m.source = request[r].app /\ m.area = NoBusiness
                   THEN [m EXCEPT !.area = request[r].area] ELSE m : m \in merchants}
  /\ Ask(r, NoRequest)
  /\ UNCHANGED <<filed, audits, owners, known>>

\* A restart drops the requests and reads the tables; the copy has no areas.
Unplaced == {[m EXCEPT !.area = NoBusiness] : m \in merchants}

HydrateAffiliates ==
  /\ known' = [filed |-> filed, merchants |-> Unplaced, owners |-> owners]
  /\ request' = [r \in Requests |-> NoRequest]
  /\ UNCHANGED affiliateTables

-----------------------------------------------------------------------------

AffiliatesInit ==
  /\ filed = [a \in Applications |-> NoApplication]
  /\ audits = [a \in Applications |-> <<>>]
  /\ merchants = {} /\ owners = {}
  /\ known = [filed |-> filed, merchants |-> {}, owners |-> {}]
  /\ request = [r \in Requests |-> NoRequest]

AffiliateStep ==
  \/ \E r \in Requests :
        RunDurableTransaction(r) \/ CommitAnswerLost(r) \/ PutInKnown(r) \/ PlaceMerchant(r)
  \/ \E r \in Requests, a \in Applications, town \in Towns :
        ResubmitApplication(r, a, town) \/ \E u \in Applicants : CreateApplication(r, u, a, town)
  \/ \E r \in Requests, a \in Applications, to \in Decisions, expected \in 0..MaxAudits :
        ReviewRequested(r, a, to, expected)
  \/ \E r \in Requests, id \in MerchantIds : UpdateApplicationStatus(r, id)
  \/ HydrateAffiliates

AffiliateSpec == AffiliatesInit /\ [][AffiliateStep]_affiliateVars

-----------------------------------------------------------------------------

AffiliatesTypeOK ==
  /\ \A a \in Applications : filed[a] = NoApplication \/
       /\ filed[a].of \in Applicants /\ filed[a].town \in Towns
       /\ filed[a].status \in Decisions \cup {"received"} /\ filed[a].version \in 1..MaxAudits
  /\ \A a \in Applications : Len(audits[a]) <= MaxAudits
  /\ \A m \in merchants : m.id \in MerchantIds /\ m.source \in Applications
  /\ owners \subseteq MerchantIds \X Applicants
  /\ \A r \in Requests : request[r].at \in {"idle", "asked", "begun", "committed", "placing"}

\* However reviews, resubmissions, lost answers and restarts cross: an approved
\* application has its one merchant, owned by the applicant; nobody has two applications
\* under review; the last audit of an application tells its status; and nobody is let
\* into a merchant that a restart would take away.
ApprovalsAreBacked ==
  /\ \A m, n \in merchants : m.source = n.source => m = n
  /\ \A a \in Applications : filed[a].status = "approved" =>
       \E m \in merchants : m.source = a /\ <<m.id, filed[a].of>> \in owners
  /\ \A a, b \in Applications :
       filed[a].of = filed[b].of /\ {filed[a].status, filed[b].status} \subseteq {"received", "in_review"}
         => a = b
  /\ \A a \in Applications : audits[a] # <<>> => Last(audits[a]).to = filed[a].status
  /\ known.merchants \subseteq Unplaced /\ known.owners \subseteq owners
=============================================================================
