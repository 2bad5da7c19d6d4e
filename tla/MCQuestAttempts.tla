--------------------------- MODULE MCQuestAttempts ---------------------------
(***************************************************************************)
(* One quest on a small instance, in one of two settings: "plain" is the   *)
(* quest without a reward pool, "pool" the funded quest of one traveler    *)
(* and one reviewer, who keep to the first revision and the first reward.  *)
(***************************************************************************)
EXTENDS RewardReservations, TLC

VARIABLE focus

mcVars == <<focus, vars>>

MCInit == RInit /\ focus \in {"plain", "pool"}

InFocus(name) == focus = name /\ UNCHANGED focus

Solo == CHOOSE u \in Travelers : u \notin Reviewers
Judge == CHOOSE a \in Reviewers : a \notin Travelers

PoolFocus ==
  /\ InFocus("pool")
  /\ RNext
  /\ version' = 1 /\ demoPoints'[Solo] <= 1
  /\ \A u \in Travelers \ {Solo} : posting'[u] = {} /\ reading'[u] = None
  /\ \A x \in Attempts : attempt'[x].user \in {Solo, None}
  /\ \A s \in Proofs : proof'[s].reviewer \in {Judge, None}

\* The quest is revised between the first attempt and the second.
PlainFocus ==
  /\ InFocus("plain")
  /\ Next /\ UNCHANGED economyVars
  /\ version' # version => Cardinality(Uninserted(attempt, Attempts)) = 1

MCNext ==
  \/ PlainFocus
  \/ PoolFocus

\* The clock moves and the sweep job runs every minute.
MCSpec ==
  /\ MCInit /\ [][MCNext]_mcVars
  /\ WF_mcVars(InFocus("pool") /\ Tick)
  /\ \A r \in Reservations : WF_mcVars(InFocus("pool") /\ Sweep(r))

=============================================================================
