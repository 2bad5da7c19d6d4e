---------------------------- MODULE TravelersSide ----------------------------
(***************************************************************************)
(* What the parts of the travelers' side promise together.  The parts share *)
(* no row: a property here reads several of them, and a specification takes *)
(* the steps of each.                                                       *)
(***************************************************************************)
EXTENDS Accounts, Spots, Follows, Cosmetics, Affiliates, Migrations, Sessions, RateLimits,
        Trails, TrailTrends, TrailSolver

\* What the server serves from: its memory, and the schema below it.
MemorySpec == SpotSpec /\ AffiliateSpec /\ MigrationSpec

\* What stands before a request: its session, and its limits.
GateSpec == SessionSpec /\ LimitSpec

\* Trails that travelers walk and the batch that makes them.
TrailSpec == TrailWalkSpec /\ TrendSpec

\* The whole side.
TravelersSpec ==
  /\ AccountsSpec /\ MemorySpec /\ GateSpec /\ TrailSpec
  /\ SolverSpec /\ FollowsSpec /\ CosmeticsSpec

-----------------------------------------------------------------------------
(* Properties *)

\* The state of each part has its type.
TravelersTypeOK ==
  /\ AccountsTypeOK /\ SessionTypeOK /\ TrailTypeOK /\ TrendTypeOK
  /\ SolverTypeOK /\ SpotTypeOK /\ FollowsTypeOK /\ CosmeticsTypeOK
  /\ AffiliatesTypeOK /\ LimitTypeOK /\ MigrationTypeOK

\* Trails and their weekly batch: the rows explain every point, and a week is
\* worked off once (trails/progress.ts, trails/personal.ts, trails/jobs/weeklyTrends.ts).
TrailsHold == TrailBooksBalance /\ WeeklyBatchOnce

\* What the server relies on is in the database: the destinations and photos it shows, the
\* merchants and owners it knows, the schema it was written for (spots/store.ts,
\* routes/affiliates.ts, db/migrations.ts).
MemoryIsBacked == ShownIsStored /\ ApprovalsAreBacked /\ MigrationsHold

\* Requests that may not go on do not: those of revoked sessions, and those beyond a limit
\* (middleware/auth.ts, middleware/rateLimit.ts).
RequestsAreHeld == RevokedSessionsEnd /\ LimitsHold
=============================================================================
