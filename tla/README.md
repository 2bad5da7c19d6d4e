# JuanderQuest backend: TLA+ models, checks and proofs

The backend (`src/src`, TypeScript on Express and PostgreSQL, migrations in
`src/migrations`) runs location quests: travelers attempt a quest, post proof
or evidence, reviewers decide, and points, simulated coins, badges and perks
follow; around them there are elections, proposals, merchants, trails, stamps,
a social plaza and the workers that deliver what they produce. The parts that
can go wrong in ways a test hardly reaches are the ones where several requests,
workers and reviewers write the same rows, where something is paid once or
twice, where a check is made before a lock and used after it, where a process
stops between two statements, and where a deadline meets a late answer. These
are modelled here: 30 modules of model, 8 modules of proofs and 7 instances for
TLC.

Contents: 1 inventory, 2 modules, 3 how they correspond to the code, 4 what is
checked, 5 what is proved, 6 what is not modelled.

## 1. Inventory

| Component (source) | State | Operations | Hard behaviour | What makes it correct |
|---|---|---|---|---|
| Quest attempts and completion (`routes/quests.ts`, `routes/admin.ts`, `services/submissions.ts`, `funding/rewardSettlement.ts`) | `quest_attempts`, `submissions`, `users.demo_points`, the ledger | start, submit, complete, post a proof, review a proof, review an attempt, revise | checks read without a lock and used later; two review paths for one reward | paid once per completion; points and ledger agree |
| Evidence steps (`routes/quests.ts`, `routes/admin.ts`, `db/index.ts`) | step evidence, passes, challenges; a copy of the attempt in each process | post evidence, scan, unlock, submit, review photos | four statements, each a transaction, and requests between them; copies that lag behind the table | completed on the evidence the request could see; a pass is spent once |
| Reward pools, reservations, appeals (`economy/service.ts`, `jobs/economy-reservations.ts`) | `reward_pools`, `reward_reservations`, `reward_appeals` | fund, reserve, post, settle, hold, appeal, decide, sweep | deadlines at the very instant of an appeal; three tables that move together | balances equal the reservations; a claim ends once; nothing is held forever |
| Economic outbox (`economy/outbox.ts`, its job) | `economic_outbox`, receipts | post, claim, complete, fail, dead-letter | crashes, outlived leases, answers lost after the commit | a receipt iff completed; finality; every event settles |
| Quest funding (`funding/*`) | plans, contributions, holds, sponsorships | fund, sponsor, hold, settle, expire, refund | the last hold of a budget, expiry against review | budgets add up; a proof in review can be paid; rounds end |
| Points (`governance/*`, `funding/ledger.ts`, `funding/merchantPoints.ts`) | `users.demo_points`, the snapshot, `governance_ledger`, proposals | propose, vote, pay out, dispute, reward, redeem, merchants' purchases | three copies of each balance, fees and burns with remainders | the three copies agree; pots hold what the ledger moved |
| Badge minting (`chain/badgeMinter.ts`) | `chain_commands`, attempts; on the chain nonces and mints | enqueue, reconcile, send, retry | crash between broadcast and record, reorganisation, replaced or dropped transactions | finalized was minted; sends are counted; commands settle |
| Chain indexer (`chain/indexer.ts`) | checkpoint, stored blocks, projections | sync, store, rewind | reorganisation, two indexers | one block for each height; one branch, while one indexer runs |
| Push (`push/*`) | deliveries, preferences, caps | enqueue, tick | settings change between check and send | caps and quiet hours hold; nobody gets a push twice |
| Progression and retention (`progression/*`) | outbox, visits, XP, badges, streaks | lease, award, finalize a round | a claim taken over while its transaction runs | a visit is credited once; a streak was earned |
| Juanchoice (`juanchoice/*`) | campaigns, ballots, purses, winners | schedule, vote, moderate, cancel, finalize | scheduler, admin and voters at the same instants | ballots are paid for; rounds do not overlap; a round with ballots runs |
| Accounts (`routes/auth.ts`, `auth/*`) | users, identities, codes, grants, wallets | register, verify, reset, sign in with Google or a wallet, link, unlink | every request is several statements; two sign-ups of one address | an address, and what it signs in with, has one owner |
| Sessions (`middleware/auth.ts`, `auth/*`) | epochs, cached scopes, batches | authenticate, sign in, revoke | caches of several processes and answers under way | revoked sessions end everywhere |
| Rate limits (`middleware/rateLimit.ts`) | a bounded map of windows | count, refuse, prune, evict | keys that compete for the room | one window for a key; who must wait waits |
| Cosmetics (`economy/service.ts`, `shop/cosmetics.ts`) | accounts, transfers, entitlements, loadouts | buy, refund, top up, wear | keys looked up before locks; edits of the catalog between | coins and points add up; a refund happens once |
| Trails (`trails/*`) | trails, unlocks, check-ins, personal trails, weekly slots | unlock, check in, generate, publish; the Monday batch | quota and price read and charged around router calls; crashes of the batch | rows explain the points; a theme has one trail; the solver finds a trail that exists |
| Stamps and quizzes (`stamps/*`, `quizzes/*`) | balances, streaks, shields, attempts | claim, mission, chest, shield, start, submit | dates computed before the transaction; readers that overwrite | the ledger explains the balance; XP once per quiz |
| Plaza and standings (`social/*`, `routes/plaza.ts`, `routes/feed.ts`) | cheers, comments, reports, counters, boards | cheer, report, hide, close the week | three statements without a transaction | counters catch up with rows; boards are complete |
| Follows and profiles (`routes/users.ts`, `db/index.ts`) | follows, visibility, a mirror in memory | follow, list page by page, change visibility | paging while rows come and go; memory against table | a walk is complete; only public profiles are shown |
| Spots (`spots/*`, `routes/spots.ts`) | destinations, photos, reviews, memory | post, attach, delete, expire, reload | the process serves memory, tables follow | what is shown is stored |
| Affiliates (`routes/affiliates.ts`) | applications, audits, merchants | apply, review, approve | answers lost after the commit | approved in memory is approved in the tables |
| Migrations (`db/migrations.ts`) | the ledger of files, checksums | boot, verify, apply, sign | overlapping boots of several releases, a lock that may be missed | no file twice; who is up found its schema |
| Not modelled | economy reads and reconciliation, chain registry, quest authoring, maps and routing, middleware, configuration, storage | | | see section 6 |

Requests and jobs share PostgreSQL only. A handler opens a transaction, takes
row locks (usually the user's first), calls the services it needs inside it,
and commits; `reviewSubmission` calls `settleApprovedSubmissionInTx`, every
posting (`economic_post_transfer`) inserts an event for the economic outbox,
and every approval an event for the progression outbox. `PROJECT.json` lists
the components and, under `hazards`, every place found that is hard to test,
with the properties that watch it.

## 2. Modules

| Module | Models | Proofs in |
|---|---|---|
| `QuestAttempts` | one quest: attempts, proofs, both review paths, the reward | `RewardReservationsProofs` |
| `RewardEscrow` | abstract: an amount is held for a claimant, then paid once or returned | |
| `RewardReservations` | the funded reward of that quest; extends `QuestAttempts`, refines `RewardEscrow` | `RewardReservationsProofs` |
| `FundingPlans` | funding rounds of one quest: author, sponsor, holds, scheduler | `FundingProofs` |
| `EconomicOutbox`, `PushDispatch` | the two queues whose workers call out | `WorkersProofs` |
| `Progression`, `Retention` | approval events, visits, XP, badges; streaks of finalized rounds | `WorkersProofs` |
| `ChainIndexer` | indexers of a chain that reorganises | `WorkersProofs` |
| `WorkersSide` | what the workers promise together | `WorkersProofs` |
| `BadgeMinter` | the badge queue against a chain that reorganises and forgets | `BadgeProofs` |
| `QuestSteps` | the tasks of one attempt, statement by statement, in the table and in two processes' memories | `CommunityProofs` |
| `JuanchoiceElections` | weekly rounds and an admin's campaigns | `CommunityProofs` |
| `PointsLedger` | everything that moves points, in three copies | `CommunityProofs` |
| `PassportStamps`, `CulturalQuizzes` | daily claims, missions, shields; quizzes | `CommunityProofs` |
| `Plaza` | cheers, comments, reports, board and weekly jobs | `BadgeProofs` |
| `CommunitySide` | what the parts travelers do together promise as a whole | `CommunityProofs`, `BadgeProofs` |
| `Accounts`, `Cosmetics`, `Migrations` | ways into an account; pieces and items; overlapping boots | `TravelersProofs` |
| `Sessions`, `RateLimits` | session epochs and caches; the counters of a policy | `TrailProofs` |
| `Trails`, `TrailTrends`, `TrailSolver` | trails and their points; the Monday batch; the route search | `TrailProofs` |
| `Spots`, `Affiliates` | memory against tables | `TravelersProofs` |
| `Follows` | follows and profiles in memory and in the tables | `TrailProofs` |
| `TravelersSide` | what the parts of the travelers' side promise together | `TravelersProofs`, `TrailProofs` |
| `SumLemmas` | sums, greatest elements and ranks of finite sets, for all books | itself |

Four modules are instances for TLC: `MCQuestAttempts`, `MCRewardReservations`,
`MCBadgeMinter` and `MCFunding` for one component each, and `MCCommunity`,
`MCTravelers`, `MCWorkers` for the components with tables of their own. In the
last three a behaviour has a *focus*, one component or a part of one, and the
others do not move: the components share no row, so no behaviour of the code is
lost that a property could tell apart, and the product need not be enumerated.

Conventions. Tables are functions from row ids to rows, with status `"none"`
for a row not inserted. A handler that takes the traveler's row lock for all it
does is one action; one that reads without a lock and writes later, or runs
several statements on the pool, is split there, and a variable holds what the
request has read. Parameters are constants with named assumptions, invariants
are conjunctions of named parts, and no module uses a `RECURSIVE` operator, so
every module can be proved about. An operator `Action_Something` stands before
the action it varies: a plausible bug in it (a dropped guard, two statements
swapped) that a property is known to catch.

## 3. How the models correspond to the code

`PROJECT.json` maps every definition to its lines. In outline:

**`QuestAttempts`.** `attempt` and `proof` are `quest_attempts` and
`submissions`; `demoPoints` is `users.demo_points` in completion rewards and
`ledger` the set of `quest_reward_credit` references. `createSubmission` checks
completion and pending proofs before its transaction, so it is `CheckProof`
followed, any time later, by `PostProof`; `posting[u]` holds the requests in
between. `handleSubmitOrCompleteAttempt` reads the attempt unlocked:
`ReadAttempt`, then `SubmitAttempt` or `CompleteAttempt` with the row as read
(`reading[u]`). `reviewSubmission` and the branches of
`PATCH /admin/quest-attempts/:id` are one action each and all pay through
`SettleReward`, which, like the code, raises the points always and adds the
ledger entry unless its reference is there.

**`RewardReservations`.** `available`, `reserved`, `paid` are columns of
`reward_pools`; `timer[r]` counts down to `expires_at` or `appeal_until`, is 0
at the deadline itself and -1 after it, so that tests with `<=` on both sides
are both true at 0. The handlers of `QuestAttempts` that move money become one
transaction with it: `ApproveFunded` is `ApproveProof` with
`settleApprovedSubmissionInTx`, `RejectFunded` with
`holdRejectedSubmissionInTx`. `Sweep(r)` is `releaseExpiredReservation` called
by the job. Starting an attempt reads the pool without a lock; that race
commutes with activation and is one action.

**`FundingPlans`.** Every command runs under the governance snapshot lock
(`fundingCommand`) and is one action. `plan`, `contribution`, `sponsorship`,
`hold` are the tables; `budget`, `onHold` and `wallet` the accounts points move
between. Submit-for-review and complete read before the lock (`reading[u]`).
`RunFundingScheduler(r)` is the scheduler's work on one plan.

**`EconomicOutbox`.** `claims[w]` is the batch in a worker's hands, each claim
with the attempt it was claimed under. `Deliver` may complete, fail, or lose
its answer after the commit; `Crash` forgets the batch.

**`PushDispatch`.** A dispatcher holds an advisory lock but no transaction, so
claiming, checking a row again, calling FCM and recording the outcome are
separate actions. Time passes in thirds of a day, for quiet hours and caps.

**`Progression`, `Retention`.** Approvals emit events, awarders lease them and
write visit, XP and badges in a transaction fenced by their claim; a
finalization counts its voters' rounds in a statement that sees what others
committed.

**`ChainIndexer`, `BadgeMinter`.** The chain is external. An indexer's tick
reads the tip and the checkpoint, compares, walks back (`ReadStored` the stored
block of a height, then `ReadNetwork` the network's), rewinds or stores block by
block; `synced` is history, the indexers that ever began. A minter's tick is
`StartTick`, `Reconcile`, `Send` over `pc` with an action boundary at every
await whose answer is used later.

**`QuestSteps`.** A write of evidence is four statements: the task, the task it
unlocks, the count, the attempt; `request[r]` is where one HTTP request stands
between them, and a fault may end it there. `mirror[w]` is what process `w` has of
the attempt in its memory (`db.quest_attempts`, `db.step_evidence`): a start puts the
attempt there without its tasks, `MirrorTask` adds the tasks whose evidence that
process served, and what follows a commit (`due`, `Tell`) comes later or, after a
restart, never. `Found(w)` is what a handler of `w` takes: the attempt in progress
in the table, else the one in its memory, with the tasks it has there. `overlooked`
is history: the tasks of which a completing request had no row.

**`PointsLedger`.** `demoPoints`, `snapshot` and `ledger` are the three copies
of a traveler's points, whole, to the thousandth and as entries; proposals hold
fees and a bond; `PayoutShare` divides and leaves a remainder as the code does.

**`JuanchoiceElections`.** Publishing and reconciling hold the region's lock,
the others that of the campaign's row; the scheduler read its clock before it
waited. **`PassportStamps`, `CulturalQuizzes`**: a request's date is today's or
yesterday's; a submission of a quiz is in its transaction from `BeginSubmit` to
`Grade`, while readers mark attempts expired. **`Plaza`**: a request reads,
writes its row and adjusts the counter, three statements; the weekly jobs work
off the statements that follow from what they read, and equal ranks are in the order
of ids (`UserId`).

**`Accounts`.** A request (`visit[r]`) is a list of statements over users,
identities, mail records, codes and grants, and it may end after any.
**`Sessions`**: `scope[p]`, `queue[p]`, `flight[p]` are a process's cache, its
waiting calls and its batch under way; a call that passed is then carried on
statement by statement. **`RateLimits`**: `counters` is the policy's `Map` in
insertion order, with `WithRoom` for `ensureStoreCapacity`. **`Cosmetics`**:
`coin` accounts and transfers for the pilot, `closet` and `wear` for the shop.

**`Trails`, `TrailTrends`, `TrailSolver`.** Commands on points are one action;
preparing a personal trail calls the router and is not. A tick of the Monday
batch commits every trail and mark on its own. The solver's local search is
compared with its exhaustive one. **`Spots`, `Follows`, `Affiliates`**: what
the process keeps in memory beside the tables, with a step at each await. A post of
a spot may name a quest, any that exists (`References` is the foreign key, the only
check), and gives it no binding.
**`Migrations`**: boots verify, or look a file up and apply and record it in one
transaction, with the lock or without it.

## 4. What is checked

`CHECK_DEADLOCK FALSE` everywhere: rows are bounded, and travelers, reviewers
and workers may simply be done.

| Run | Instance | Shows |
|---|---|---|
| `MCQuestAttempts` | foci plain: 2 travelers, one also a reviewer, 2 attempts, 2 proofs, 2 revisions, 2 rewards; pool: 1 traveler, 2 reservations, 2 proofs, fair | no path pays a traveler who counts as complete, although the checks before it are stale; points cover the ledger; claims, proofs and appeals stay in step; nothing stays reserved or held forever, and a pending proof becomes decidable again |
| `MCReservationsContended` | 2 travelers, money for one | balances equal the reservations, claims end for cause and for good, the pool implements `RewardEscrow` |
| `MCFunding` | 2 rounds, 2 holds, author, merchant, 2 travelers, fair | contributions and budgets add up; a proof in review can be paid; rounds end |
| `MCBadgeMinter` | 2 badges, 2 attempts, 1 confirmation, 1 failure, 1 crash, 1 retry, fair | sends are recorded, counted and limited; finalized means minted; commands settle |
| `MCCommunity` | foci merchant, governance, claims, missions, quiz, rounds, drafts, steps, copies, cheers, reports, board, pages | the ledger matches its copies; stamps and quizzes balance; elections add up and keep their ballots; an attempt is completed on the evidence its request found; counters catch up; standings are complete |
| `MCTravelers` | foci mail, google, wallets, revocations, logins, catalog, personal, trends, solver, photos, quests, follows, profiles, coins, shop, affiliates, limits, boots | one owner of an address; revoked sessions and limits hold; trails balance; the solver finds what exists; memory is backed; coins add up; lists are walked completely |
| `MCWorkers` | foci outbox, awards, rounds, lone, pair, push, fair | receipts, leases, visits, streaks, the index, caps; every event is worked off |
| `MCRewardedOncePerQuest`, `MCUnseenTasks`, `MCBadgeDropped`, `MCPromisedPerk`, `MCChampionSitsOut` | violations | the findings below |

A run of several components states its properties as conjunctions: for instance
`TrailsHold` is `TrailBooksBalance` and `WeeklyBatchOnce`; the definitions stand
beside the properties, or at the end of the instance when their parts are of
different modules.

**Bounds.** Two rows of each table are what the hazards need: a stale request and the
row that made it stale, a first claim and a second; two workers, two processes, two
dispatchers. One tick of a deadline gives the cases before, at and after it; a lease
of two ticks can end between two deliveries of a batch; three attempts reach the dead
letter by claiming and by failing. For badges one failure is any one of: a failed
call, an empty balance, a lost answer, a revert, a replacement, a drop, a
reorganisation, a revocation. Amounts are small numbers that do not divide each other,
so that remainders and caps bite. Each focus narrows who may do what first (ids in
order, one actor per role); the comments of the instance say which. In `steps` two
requests race at a process that did not start the attempt; in `copies` the attempt is
started in one process, answered in another and submitted in either, with one update
under way and one fault. In `lone` one indexer follows any changes of the network; in
`pair` two follow a network that moves three times among the ends of three branches,
so that it leaves a branch and returns to it, which is what makes an indexer rewind to
a block that the other has replaced. The funded quest pays once in the runs (the pool
of `MCQuestAttempts` and `MCReservationsContended`), so a second payment is not
explored there: `FundedCreditsCorrect` and `FundedPaysOnlyTheUnpaid` (section 5) speak
of the funded quest for every bound. Symmetry is used where no `CHOOSE` picks an id:
travelers and reviewers of `MCReservationsContended`, two requests of `MCCommunity`
that one process serves; the live runs use none.

**Fairness.** `WF(Tick)` is time. `WF(Sweep(r))` is the 60 s interval of
`jobs/economy-reservations.ts`, for each reservation: the batch takes the 100
oldest rows and leaves a failing row where it is, so more than 100 such rows
would starve the rest, and this is not modelled. The outbox and the progression
workers run on intervals in each process: weak fairness of claiming and
processing; deliveries may fail every time and crashes never stop. The funding
scheduler runs on its interval: weak fairness for each round (it works up to 100
plans in one transaction; the batch is not modelled). The minter runs on its
interval; weak fairness of its steps, of its clocks, and of mining.
`CommandsSettle` assumes in its own statement that the network forgets no
transaction, and `RoundsEnd` allows a round to wait for a review.

**Findings.**
- `request_changes` reopens a completed attempt (`routes/admin.ts:415`), and its
  second approval pays again, against migration 048's "only once per quest"
  (`MCRewardedOncePerQuest`).
- A quest can be completed, and paid, with a required photo nobody has seen. When
  the table has no attempt in progress, `/complete` takes the one in the memory of its
  process (`routes/quests.ts:1588`), where a start puts it without its tasks and a
  submission made in another process leaves it in progress; the check of the required
  tasks then goes over an empty list. This is against the comment at
  `routes/quests.ts:1541`, "when every step was verified by the server"
  (`MCUnseenTasks`). `StepsHold` states what remains true.
- A transaction the network drops is not requeued, against the test that says
  so (`tests/chain-badge-minter.test.ts:214`): the branch needs a nonce that
  something else consumed, and while the command is `submitted` nothing else is
  sent (`MCBadgeDropped`).
- A traveler who already redeemed the voucher a sponsor promises cannot be paid
  the held reward: the settlement inserts the voucher again and a unique index
  refuses it (`funding/holds.ts:223`, `MCPromisedPerk`).
- The champion of a week can stand and win in the next one, which opens while
  its round is still undecided, against "sits out 4 weeks"
  (`juanchoice/monthly-service.ts:182`, `MCChampionSitsOut`).

A sixth divergence has no run of its own. Two indexers do not keep to one branch:
`rewindTo` compares heights only (`chain/indexer.ts:205`), so an indexer that walked
back slowly rewinds to a block the other has replaced meanwhile, the checkpoint then
names a block that is not among the canonical headers, and if the network returns to
that block's branch, the next block is stored on top of the other branch's. A command
may then stay `finalized` by a claim that the network's branch does not have,
although `tests/chain-indexer-realpg.test.ts:195` says of competing workers that "a
retry must converge without double canonical logs or settlement". With `Indexers`
of two and `headers = Lineage[checkpoint]` as an invariant, focus `pair` finds it; what
`IndexFollowsOneBranch` claims of several indexers is the part that does hold.

## 5. What is proved

TLAPS checks the theorems of eight modules for every value of the constants that
their named assumptions allow. The assumptions are types (amounts are natural
numbers, sets that are summed over are finite) and the few relations the code
fixes (shares are whole, a heavier ballot costs more, names of pots are no ids);
each is stated in the module that declares the constants, and TLC evaluates them
in the runs. `PROJECT.json` lists the theorems; this is the argument of each.

**`RewardReservationsProofs`.** Of `QuestAttempts` alone, types; `CreditsCorrect` by
`CreditInv`: types, one approved proof, sources, points, and that a request reads
its own attempt. It is needed whole: an approval is only known to be the first
because every approved proof has its credit. `PaysOnlyTheUnpaid` follows from it
step by step.

With the pool, types; `PoolCorrect` by `ClaimInv` (balances, one
claim, reviewed terms): the balances are counted through the cardinality of the
reservations in each status, and every action is a `ClaimStep` that moves one row
from one status to another. From it `ImplementsEscrow`: initial states map to
initial states and every step to `Hold`, `Pay`, `Return` or a stutter. `ClaimsAgree`
and `ClaimsEndCorrectly` by `FundedInv`, which is `ClaimInv`, `CreditInv`, the
agreement of claims and proofs, and that of appeals and claims: that a rejected
proof can be approved only through its appeal rests on the appeal's reservation
still pointing at it. The credit theorems are carried over to the composition.

**`FundingProofs`.** Types. `ProofsArePayable` by `Rows`: a held row names what it
took and a pending proof the hold that pays it. `BooksAgree` by `Books`: `Rows`,
that wallets cover what was not yet taken, that every contribution balances and
that every round's budget is what its stage says. Wallets are in it because a
window round takes its points only when a traveler starts.

**`BadgeProofs`.** Of the badge queue, types, `SendsCorrect`, `FinalityCorrect`. The
list of transactions only grows, so what a row says about one stays true; `InHand`
(in `MinterInv`) says what a tick knows between its awaits; `Limited` and `Counted`
count the transactions of a badge against its attempts.

Of the Plaza, `CountersCorrect` by `CounterInv`: for each counter, what it falls
short of its rows is at most the requests between their two statements and the ones
a failure cut short, by the cardinality of each set of requests. `StandingsCorrect`
by `WeekInv`, which speaks of the plan, the statements a tick or a recap still has to
make: a badge is written only for a winner of a week that ended, whose board nothing
moves any more, and a run is recorded only where everything it stands for is written
or stands before it (`PlanLegal`); so a process may die after any statement, and who
begins again plans at least what is missing. `FirstPass` is in it because the second
and third pass of a tick rely on the first having ended the week. That such a plan
is built by listing sets and joining lists in one order or another is what the
lemmas on `SetToSeq`, `FlattenSeq` and `InRankOrder` are for. For the pages: the rank
of a row is the place of the first of those it ties with (`BoardOrder`), so the page
that starts behind a rank starts behind everything shown before, and what no page
shows shares a rank with something that was shown.

`CommunityTyped` gathers the types of the six parts of `CommunitySide`.

**`WorkersProofs`.** Of the outbox, types, `DeliveryCorrect`, `LeasesCorrect`: every
step is a `DeliveryStep`, which says how each row may change and that receipts
grow by exactly the rows it completes, and the rest follows from that. Of the
pushes, `SendsWithinCaps` by `PushInv`: only the tick that holds the lock sends,
so what it counted before it called FCM is still the count when it records.

Of the awards, `AwardsAreEarned` by `ProgressInv` and `RetentionInv`. The first ties
the visits to the completed events of their proofs, and XP, levels and badges to the
visits, XP as a sum. The second says that a finalization holds a closed round, that
whatever was given, or it is about to give, was earned (a run of that many rounds the
fan voted in, with only cancelled ones between), that rounds which ended in turn are
numbered without a gap, and that then what was earned was given. Lemmas on the fold
that counts a streak (a recursive function, reasoned about as a table) show that what
it counts is such a run, and that it misses none that ends with the last round.

Of the index, types and `IndexFollowsOneBranch`, for any number of indexers
(`IndexersFollowOneBranch`). `HeadersStack` says that the headers have one block for
each height up to the checkpoint's, because a block is stored only one above the
checkpoint and a rewind only goes down. `RowsProject` says that logs, audit and
command are what the headers say. `BranchInv` is about one indexer alone: that the
headers are the ancestors of the checkpoint, and that the block it rewinds to is one
of them, which nothing between its reads changes.

**`CommunityProofs`.** `StepsCorrect` by `RowsInv` (once it was started the attempt
has rows of all its tasks, so only a memory can miss one), `EvidenceInv` (what the
table, a memory or a request has as verified was verified, and a decision to settle
covers each required task it had a row of), `PassInv` and `LockedInv`, which speak of
what a request between two statements holds in its hands. `ElectionsCorrect` by
`RoundInv` (weeks that are planned one after another; an admin's campaign was checked
against those that run) and `BallotInv` (sums over ballots). `RoundsRun` by
`ResultInv`: a week without a row has neither ballots nor candidates, and what has a
result is finalized, which no handler leaves. `LedgerCorrect` by `LedgerInv`:
`UserBooks`, `PotBooks`, `ProposalBooks` and what a proposal may hold at its stage
(`Fits`); a payout's remainder is why the pots have to be in it, and the sum of the
shares is an assumption (`SharesAreWhole`) that the code establishes when a proposal
is written. `PassportCorrect` by `QuizInv` (the XP a quiz has given is the sum over
its attempts, nothing for the ones that expired or were given up) and `StampInv`
(stamps are the sum of their ledger, whose rows of a week stay within the cap; a chest
has its completed missions; shields are the sum of their events, each with the claim
or the purchase it is from; a streak is no longer than the claims). `QuizzesTyped` and
`StampsTyped` add the types, for which an award must be shown to be a number in the
very row it makes.

**`TravelersProofs`.** `MigrationsCorrect` by what a boot has behind it, with or
without the lock. `OwnersCorrect` by `AccountsInv`: each request's list of statements
is one of those the code can leave, and a statement that names an account is ready to.
`StoresBalance` by `CoinInv` (transfers tell what was bought and refunded) and
`ShopInv` (the treasury is the sum of what owners paid). `MemoryCorrect` joins the
invariants of three parts: `SpotInv` (what a request between its statements has stored
so far, photo by photo, and that a destination points to its own quest or to the one
its post named), `AffiliateInv` (a decision under way is alone, and what it has
provided is in the tables before the application is approved, in memory last) and that
of the migrations.

**`TrailProofs`.** `RequestsHeld` by `SessionInv` and `LimitInv`. The first says, for
every scope a process trusts and every lookup under way, that it was read at most a
lookup before the epoch it names ended; that is inductive only with the times of the
batch and of the answer. The second says of the map of counters that no key has two
entries and that a key told to wait has a blocked entry for as long; lemmas follow
the entries, by rank, through the sweep, the room made for a new key and the count.
`TrailsCorrect` by `TrailInv` (points are the opening balance less unlocks and
personal trails plus completions, as sums over the rows; a request that is not over
has no trail yet; free trails of a week are within the quota) and `TrendInv` (one
tick works, every candidate it has passed is made or refused, and the one it is
about to make is not made: between the look-up and the generation only the lock
keeps that true). `ListsAreWalked` by
`FollowInv`: the rows shown go forward through the list, the cursor stands behind the
last of them, whoever was always there was shown or is still to come, and as long as
the list stands still what is shown is in it and was counted. `SearchFinds` by
`SolverInv`: whatever route the search holds is within the limits at hand; where no
deadline passed and no stop is demanded, a search that failed, and each relaxation it
gave up, had no route. That rests on a lemma about prefixes: the beginning of a route
within the limits is within them, so when there is a route there is one of the least
length, and every prefix of it is one that the construction keeps.

`TravelersTyped` gathers the types of all eleven parts. Some of them need more than
their fields: that a failed lookup opens a pause only at the threshold, that a waiting
call waits in one place and at the process it came to (`CallsWait`), that an
application has no more versions than decisions (`FiledTypes`, `RequestTypes`), that
what a boot signs or applies is in its release, that a price stored for a trail is
one of the catalog.

**`SumLemmas`.** The books are sums over finite sets. The library's induction takes
an operator as a parameter, which the provers here cannot instantiate, so the
recursion equation of `SumFunctionOnSet` and everything else is shown by a
smallest counterexample among the subsets (`WFMin`): that no order is preferred,
what a sum becomes when one value, one element or a scale changes, and how sums
over an image or a pair of sets relate.

Only model-checked: the liveness properties (`ClaimsProgress`, `RoundsEnd`,
`CommandsSettle`, `EventsAreWorkedOff`), which are out of the prover's reach. Every
invariant and every action property of the passing runs is stated by a theorem.

## 6. What is not modelled

Row locks and deadlocks between them: a transaction is one action (the order in
which `submitAppeal` and the sweep lock their rows is therefore not checked).
Economy reads and reconciliation, the chain registry, quest authoring beyond a
revision, maps and routing, middleware, configuration and storage are listed as
`not_modelled` in `PROJECT.json`, with the reason. Of the modelled components:

- *Attempts.* `QuestAttempts` has the table only: the copy of an attempt in a
  process's memory, and what a request decides by it, is in `QuestSteps`, which has
  one attempt and no proofs. Of the reservation path's resume (`routes/quests.ts:744`),
  which may overwrite another cached row of the same traveler, `QuestSteps` has what
  it does to this attempt.
- *Pools.* The code never pauses or closes a pool and gives no policy an end, so
  neither does the model; the in-memory posting path is left out.
- *Funding.* A counter-offer that adds a voucher can never be accepted
  (`sponsorships.ts:212`); notifications and reads are left out.
- *Elections.* Perks of the winners and their controls.
- *Trails.* `trail_generations.created_at` is the start of the transaction while
  the quota counts from the week of `clock_timestamp` (`personal.ts:85`), so a
  request begun before Monday and committed after counts in neither week, and
  `TrailsHold` speaks only of the trails begun and made in one week: it is about keys,
  charges and completions, and does not settle that hazard. The week is in the
  request hash (`personal.ts:56`): a retry after Monday with the same key
  conflicts. After a crash the Monday batch draws up a digest of its own, so a
  slot may get candidates twice; a batch unfinished on Tuesday is dropped.
  `FindsWhatExists` is limited to problems without required stops and without a
  deadline: with them the local search may miss a route.
- *Accounts.* Wallet signatures, passkeys, delivery of mail, profile edits.
  `register` may overwrite a verification with its `recordAccountEmail(false)`
  (`auth.ts:187`), and a Google sign-in that races a registration leaves two
  accounts; the invariant speaks of who owns an address, which both keep.
- *Sessions.* `LookupTicks` assumes that a batched lookup takes bounded time.
- *Rate limits.* They are per process; evicting an unblocked key forgets its
  count; counts are followed up to one above the limit.
- *Push.* Account pushes are "always on" at `enqueue.ts:19`, but the dispatcher
  checks preferences and caps for them too (`dispatcher.ts:129`); the model does
  what the code does.
- *Spots.* A quest that a post names has no binding and may be another
  destination's; `MemoryIsBacked` asks of it only that it exists. Memory is
  authoritative and reviews are written with nobody waiting;
  recognition, likes, field logs, reports and map reads are left out, and
  `cleanup-uploads.ts` as a process of its own.
- *Follows.* A row's time is the start of its transaction and a cursor keeps
  milliseconds, so a walk may skip a row committed late; `FollowsHold` says what
  a walk does see.
- *Cosmetics.* Perk discounts (cached for 30 s) and the financial pause. A second
  refund with the same key is refused instead of answered with its receipt.
- *Affiliates.* Reviews never raise `version` (`affiliates.ts:452`), so an expected
  version misses another reviewer's decision; area scope, drafts, merchant
  profiles and products are left out.
- *Retention.* Feed milestones and badge thresholds differ (4, 8, 12, 26, 52
  against 4, 8, 16, 32, 52); weekly challenges, summaries and sharing are left
  out.
- *Migrations.* Branches for the in-memory database and seeds; legacy rows are
  signed with whatever the release holds, and no order across releases is
  claimed.
