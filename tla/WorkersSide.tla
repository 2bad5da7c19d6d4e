----------------------------- MODULE WorkersSide -----------------------------
(***************************************************************************)
(* What the background workers promise together.  They share no row: a     *)
(* property here reads the tables of several, and a specification takes    *)
(* the steps of each.                                                      *)
(***************************************************************************)
EXTENDS EconomicOutbox, Progression, Retention, ChainIndexer, PushDispatch

\* What travelers are awarded: for their visits, and for the rounds they vote in.
AwardSpec == ProgressSpec /\ RetentionSpec

\* All of them.
WorkersSpec == Spec /\ AwardSpec /\ IndexSpec /\ PushSpec

-----------------------------------------------------------------------------
(* Properties *)

\* Every table has its type.
WorkersTypeOK == TypeOK /\ ProgressTypeOK /\ RetentionTypeOK /\ IndexTypeOK /\ PushTypeOK

\* Visits are credited once, and what rounds bring was earned (progression/service.ts,
\* progression/retention.ts).
AwardsAreEarned == VisitsCreditedOnce /\ StreaksAreEarned
=============================================================================
