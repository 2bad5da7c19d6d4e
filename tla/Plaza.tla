--------------------------------- MODULE Plaza ---------------------------------
(***************************************************************************)
(* The Plaza: cheers, comments and reports under one activity, and the     *)
(* weekly board with its jobs.                                             *)
(*                                                                         *)
(* A request of the feed is three statements on the pool, with no          *)
(* transaction around them: it reads, writes its row, and then adjusts the *)
(* counter kept beside the rows.  A tick of the weekly jobs reads, and     *)
(* works off the statements that follow from what it read; it may stop     *)
(* between any two.                                                        *)
(***************************************************************************)
EXTENDS Naturals, FiniteSets, Sequences, SequencesExt

CONSTANTS
  Viewers, Owner,    \* of the activity
  Comments, Author,  \* each comment is one idempotency key of its author
  Asks,              \* requests under way
  HideAt,            \* reports that hide a comment
  MaxCheers,         \* bound of the counter
  MaxLost,           \* bound: requests and ticks that stop half-way
  Climbers, Testers, \* the users of the board, and of the test scope
  BestScore,         \* bound of a week's score
  Winning,           \* winners of a week: three
  PodiumSize, PageSize,  \* rows of the podium, and of a page of the board
  LastWeek           \* bound

ASSUME PlazaConstants ==
  /\ IsFiniteSet(Viewers) /\ IsFiniteSet(Asks)
  /\ Owner \in Viewers /\ Author \in [Comments -> Viewers]
  /\ HideAt \in Nat \ {0} /\ Testers \subseteq Climbers
ASSUME BoardConstants ==
  /\ IsFiniteSet(Climbers) /\ {BestScore, Winning, PodiumSize, MaxLost} \subseteq Nat
  /\ {PageSize, LastWeek} \subseteq Nat \ {0}

VARIABLES
  shown,         \* social_activities.hidden_at IS NULL
  cheers, cheerCount,
  comment,       \* social_comments: state and hidden_by
  commentCount,
  reports,       \* social_comment_reports
  openReports,   \* those with resolved_at IS NULL
  reportCount,
  ask,
  cleared,       \* history: comments an admin has restored
  lost           \* history: requests and ticks that stopped half-way

feedRows == <<cheers, cheerCount, comment, commentCount, reports, openReports, reportCount,
              cleared>>

VARIABLES
  week, part,    \* the time: "midnight" (the first five minutes of Monday),
                 \* "monday" or "later"
  earned,        \* points of the ledger in the week
  board,         \* plaza_weekly_scores
  podium,        \* achievement_awards of the weeks
  posted,        \* social_activities, by event key
  notices,       \* user_notifications, by event key
  jobs,          \* plaza_job_runs
  plan           \* what a tick still has to do, and in which scope it is

weekRows == <<board, podium, posted, notices, jobs>>

feedVars == <<shown, feedRows, ask>>
weekVars == <<week, part, earned, weekRows, plan>>
plazaVars == <<feedVars, weekVars, lost>>

-----------------------------------------------------------------------------
(* Requests of the feed *)

NoRequest == [step |-> "idle", op |-> "cheer", by |-> Owner, on |-> CHOOSE c \in Comments : TRUE]

\* What each operation reads before it writes: an activity that is not hidden,
\* a comment that is there, and who may.  Replays return here.
Accepted(op, v, c) ==
  CASE op = "cheer" -> shown /\ v \notin cheers
    [] op = "uncheer" -> shown
    [] op = "comment" -> shown /\ comment[c].state = "none" /\ v = Author[c]
    [] op = "delete" -> comment[c].state = "posted" /\ v \in {Author[c], Owner}
    [] op = "report" -> comment[c].state = "posted"
    [] op \in {"hide", "restore"} -> comment[c].state # "none"

Ask(a, op, v, c) ==
  /\ ask[a].step = "idle" /\ Accepted(op, v, c)
  /\ op = "cheer" => cheerCount < MaxCheers
  /\ ask' = [ask EXCEPT ![a] = [step |-> "write", op |-> op, by |-> v, on |-> c]]
  /\ UNCHANGED <<shown, feedRows, lost, weekVars>>

At(a, step, op) == ask[a].step = step /\ ask[a].op = op

\* The request goes on to its counter if its write touched a row.
Then(a, step) == ask' = [ask EXCEPT ![a] = IF step = "idle" THEN NoRequest ELSE [@ EXCEPT !.step = step]]

\* cheer, uncheer: INSERT ... ON CONFLICT DO NOTHING, DELETE ... RETURNING
WriteCheer(a) ==
  /\ \/ /\ At(a, "write", "cheer")
        /\ cheers' = cheers \cup {ask[a].by}
        /\ Then(a, "count")
     \/ /\ At(a, "write", "uncheer")
        /\ cheers' = cheers \ {ask[a].by}
        /\ Then(a, IF ask[a].by \in cheers THEN "count" ELSE "idle")
  /\ UNCHANGED <<shown, cheerCount, comment, commentCount, reports, openReports, reportCount,
                 cleared, lost, weekVars>>

\* addComment (a second insert of the key fails), deleteComment,
\* adminModerateComment
WriteComment(a) ==
  LET c == ask[a].on
      Set(field, value) == comment' = [comment EXCEPT ![c] = [@ EXCEPT ![field] = value]]
  IN
  /\ \/ /\ At(a, "write", "comment")
        /\ IF comment[c].state = "none"
             THEN Set("state", "posted") /\ Then(a, "count")
             ELSE UNCHANGED comment /\ Then(a, "idle")
        /\ UNCHANGED cleared
     \/ At(a, "write", "delete") /\ Set("state", "deleted") /\ Then(a, "count") /\ UNCHANGED cleared
     \/ At(a, "write", "hide") /\ Set("hidden", "admin") /\ Then(a, "count") /\ UNCHANGED cleared
     \/ /\ At(a, "write", "restore") /\ Set("hidden", "no") /\ Then(a, "count")
        /\ cleared' = cleared \cup {c}
  /\ UNCHANGED <<shown, cheers, cheerCount, commentCount, reports, openReports, reportCount,
                 lost, weekVars>>

\* reportComment: one report of each reporter.
WriteReport(a) ==
  LET c == ask[a].on
      new == ask[a].by \notin reports[c]
  IN
  /\ At(a, "write", "report")
  /\ reports' = [reports EXCEPT ![c] = @ \cup {ask[a].by}]
  /\ openReports' = IF new THEN [openReports EXCEPT ![c] = @ \cup {ask[a].by}] ELSE openReports
  /\ Then(a, IF new THEN "count" ELSE "idle")
  /\ UNCHANGED <<shown, cheers, cheerCount, comment, commentCount, reportCount, cleared, lost,
                 weekVars>>

\* GREATEST(0, count - 1)
Less(count) == IF count = 0 THEN 0 ELSE count - 1

CountCheer(a) ==
  /\ \/ At(a, "count", "cheer") /\ cheerCount' = cheerCount + 1
     \/ At(a, "count", "uncheer") /\ cheerCount' = Less(cheerCount)
  /\ Then(a, "idle")
  /\ UNCHANGED <<shown, cheers, comment, commentCount, reports, openReports, reportCount,
                 cleared, lost, weekVars>>

CountComment(a) ==
  /\ \/ At(a, "count", "comment") /\ commentCount' = commentCount + 1
     \/ At(a, "count", "delete") /\ commentCount' = Less(commentCount)
  /\ Then(a, "idle")
  /\ UNCHANGED <<shown, cheers, cheerCount, comment, reports, openReports, reportCount,
                 cleared, lost, weekVars>>

\* Mutant: the threshold is met once, not from then on.
Enough_Once(count) == count = HideAt

Enough(count) == count >= HideAt

\* The count the UPDATE returned decides whether the comment is hidden.
CountReport(a) ==
  LET c == ask[a].on IN
  /\ At(a, "count", "report")
  /\ reportCount' = [reportCount EXCEPT ![c] = @ + 1]
  /\ Then(a, IF Enough(reportCount'[c]) /\ comment[c].hidden = "no" THEN "hide" ELSE "idle")
  /\ UNCHANGED <<shown, cheers, cheerCount, comment, commentCount, reports, openReports,
                 cleared, lost, weekVars>>

HideReported(a) ==
  /\ At(a, "hide", "report")
  /\ comment' = [comment EXCEPT ![ask[a].on].hidden = "auto"]
  /\ Then(a, "idle")
  /\ UNCHANGED <<shown, cheers, cheerCount, commentCount, reports, openReports, reportCount,
                 cleared, lost, weekVars>>

\* The admin's second statement.
ResolveReports(a) ==
  /\ At(a, "count", "hide") \/ At(a, "count", "restore")
  /\ openReports' = [openReports EXCEPT ![ask[a].on] = {}]
  /\ Then(a, "idle")
  /\ UNCHANGED <<shown, cheers, cheerCount, comment, commentCount, reports, reportCount,
                 cleared, lost, weekVars>>

\* The process dies, or a statement fails, before the request is done.
LoseRequest(a) ==
  /\ ask[a].step \in {"count", "hide"} /\ lost < MaxLost
  /\ lost' = lost + 1
  /\ Then(a, "idle")
  /\ UNCHANGED <<shown, feedRows, weekVars>>

\* The owner may hide the activity, an admin hide and restore it.
HideActivity == shown /\ shown' = FALSE /\ UNCHANGED <<feedRows, ask, lost, weekVars>>

ModerateActivity(action) ==
  /\ shown' = (action = "restore")
  /\ UNCHANGED <<feedRows, ask, lost, weekVars>>

-----------------------------------------------------------------------------
(* The weekly board *)

Scopes == <<"live", "test">>
Members(scope) == IF scope = "test" THEN Testers ELSE Climbers \ Testers

\* rankRows: equals share a rank.
RankOf(scores, u) == 1 + Cardinality({v \in DOMAIN scores : scores[v] > scores[u]})

Unranked == [score |-> 0, rank |-> 0, announced |-> FALSE]
Has(w, u) == board[w][u].rank > 0

Do(what, u, w, arg) == [do |-> what, user |-> u, week |-> w, arg |-> arg]

\* What is done for each row, in some order, as a query returns them.
Each(done) == LET rows == SetToSeq(DOMAIN done) IN [i \in DOMAIN rows |-> done[rows[i]]]
EachInTurn(done) == FlattenSeq(Each(done))

\* The order of user ids.
UserId == CHOOSE id \in [Climbers -> 1..Cardinality(Climbers)] : IsInjective(id)

\* ORDER BY rank, user_id
Before(users, rank, u) == {v \in users : \/ rank[v] < rank[u]
                                         \/ rank[v] = rank[u] /\ UserId[v] < UserId[u]}
InRankOrder(users, rank) ==
  [i \in 1..Cardinality(users) |->
     CHOOSE u \in users : Cardinality(Before(users, rank, u)) = i - 1]

\* The winners of the week that ended, as the last tick of it left the board.
Winners(w, scope) ==
  LET rows == InRankOrder({u \in Members(scope) : Has(w, u)}, [u \in Climbers |-> board[w][u].rank])
  IN {rows[i] : i \in DOMAIN rows \cap 1..Winning}

Place(w, u) == IF board[w][u].rank = 1 THEN "champion" ELSE "podium"

\* Mutant: the run is recorded before the winners are.
Finalization_RunFirst(w, scope) ==
  <<Do("ran", "finalize", w, "")>> \o
  EachInTurn([u \in Winners(w, scope) |->
                <<Do("award", u, w, Place(w, u)), Do("post", u, w, "champion"),
                  Do("notify", u, w, "champion")>>])

Finalization(w, scope) ==
  EachInTurn([u \in Winners(w, scope) |->
                <<Do("award", u, w, Place(w, u)), Do("post", u, w, "champion"),
                  Do("notify", u, w, "champion")>>])
    \o <<Do("ran", "finalize", w, "")>>

\* One pass of the loop in runStandingsTick: rank everyone who has points,
\* tell those who were passed, announce who entered the top ten, and end the
\* week before if no tick has.
TickOf(scope) ==
  LET ranked == {u \in Members(scope) : earned[week][u] > 0}
      scores == [u \in ranked |-> earned[week][u]]
      old == board[week]
      passed == {p \in ranked \X ranked :
                   /\ Has(week, p[1]) /\ Has(week, p[2])
                   /\ RankOf(scores, p[1]) > old[p[1]].rank
                   /\ old[p[2]].rank > old[p[1]].rank
                   /\ RankOf(scores, p[2]) < RankOf(scores, p[1])}
      entered == {u \in ranked : ~old[u].announced}
  IN
  Each([u \in ranked |-> Do("rank", u, week, [Unranked EXCEPT !.score = scores[u],
                                                              !.rank = RankOf(scores, u)])])
    \o Each([p \in passed |-> Do("notify", p[1], week, p[2])])
    \o EachInTurn([u \in entered |-> <<Do("post", u, week, "top10"), Do("flag", u, week, "")>>])
    \o IF part # "midnight" /\ week > 1 /\ <<"finalize", week - 1>> \notin jobs
         THEN Finalization(week - 1, scope) ELSE <<>>

NoPlan == [scope |-> 0, rest |-> <<>>]

\* The advisory lock belongs to the connection that works: one tick at a time.
BeginTick ==
  /\ plan = NoPlan
  /\ plan' = [scope |-> 1, rest |-> TickOf(Scopes[1])]
  /\ UNCHANGED <<feedVars, week, part, earned, weekRows, lost>>

NextScope ==
  /\ plan.scope \in 1..2 /\ plan.rest = <<>>
  /\ plan' = IF plan.scope = 2 THEN NoPlan ELSE [scope |-> 2, rest |-> TickOf(Scopes[2])]
  /\ UNCHANGED <<feedVars, week, part, earned, weekRows, lost>>

\* runWeeklyRecap: a notice to every user with a device, on Monday from nine.
BeginRecap ==
  /\ plan = NoPlan
  /\ part = "monday" /\ week > 1 /\ <<"recap", week - 1>> \notin jobs
  /\ plan' = [scope |-> 3,
              rest |-> Each([u \in Climbers |-> Do("notify", u, week - 1, "recap")])
                         \o <<Do("ran", "recap", week - 1, "")>>]
  /\ UNCHANGED <<feedVars, week, part, earned, weekRows, lost>>

EndRecap ==
  /\ plan.scope = 3 /\ plan.rest = <<>>
  /\ plan' = NoPlan
  /\ UNCHANGED <<feedVars, week, part, earned, weekRows, lost>>

\* The next statement.  Every insert has ON CONFLICT DO NOTHING; the upsert of
\* a rank keeps top10_announced.
Perform ==
  LET s == Head(plan.rest)
      Is(what) == s.do = what
      key == <<s.arg, s.week, s.user>>
  IN
  /\ plan.rest # <<>>
  /\ plan' = [plan EXCEPT !.rest = Tail(@)]
  /\ board' = CASE Is("rank") -> [board EXCEPT ![s.week][s.user] =
                                    [s.arg EXCEPT !.announced = board[s.week][s.user].announced]]
                [] Is("flag") -> [board EXCEPT ![s.week][s.user].announced = TRUE]
                [] OTHER -> board
  /\ podium' = IF Is("award") THEN podium \cup {key} ELSE podium
  /\ posted' = IF Is("post") THEN posted \cup {key} ELSE posted
  /\ notices' = IF Is("notify") THEN notices \cup {key} ELSE notices
  /\ jobs' = IF Is("ran") THEN jobs \cup {<<s.user, s.week>>} ELSE jobs
  /\ UNCHANGED <<feedVars, week, part, earned, lost>>

\* A statement fails or the process dies; the next tick starts anew.
StopTick ==
  /\ plan # NoPlan /\ lost < MaxLost
  /\ lost' = lost + 1 /\ plan' = NoPlan
  /\ UNCHANGED <<feedVars, week, part, earned, weekRows>>

\* A reward is credited (governance_ledger); a tick may be under way.
Earn(u, amount) ==
  /\ earned[week][u] + amount <= BestScore
  /\ earned' = [earned EXCEPT ![week][u] = @ + amount]
  /\ UNCHANGED <<feedVars, week, part, weekRows, plan, lost>>

\* A tick takes its time from its start and is over before the next part.
WeekClock ==
  /\ plan = NoPlan
  /\ \/ part = "midnight" /\ part' = "monday" /\ UNCHANGED week
     \/ part = "monday" /\ part' = "later" /\ UNCHANGED week
     \/ part = "later" /\ week < LastWeek /\ part' = "midnight" /\ week' = week + 1
  /\ UNCHANGED <<feedVars, earned, weekRows, plan, lost>>

-----------------------------------------------------------------------------
(* Reading the board *)

\* getBoard while no tick has written the week: its rows, first to last, and
\* the rank of each.
Standings(scope) ==
  LET ranked == {u \in Members(scope) : earned[week][u] > 0}
      scores == [u \in ranked |-> earned[week][u]]
      rank == [u \in ranked |-> RankOf(scores, u)]
      rows == InRankOrder(ranked, rank)
  IN [i \in DOMAIN rows |-> [user |-> rows[i], rank |-> rank[rows[i]]]]

\* The index of the first row behind rank "after".
PageStart(rows, after) == 1 + Cardinality({i \in DOMAIN rows : rows[i].rank <= after})

Upto(rows, last) == IF last < Len(rows) THEN last ELSE Len(rows)

\* The ranks that start the pages a client asks for in turn; the first page
\* starts behind the podium, and the last has no next_after_rank.
Turns(rows) ==
  LET after[n \in 1..Len(rows) + 1] ==
        IF n = 1 THEN {PodiumSize}
        ELSE {rows[PageStart(rows, r) + PageSize - 1].rank :
                r \in {r \in after[n - 1] : PageStart(rows, r) + PageSize - 1 < Len(rows)}}
  IN after

\* The indices shown on the podium and on each page.
PodiumRows(rows) == 1..Upto(rows, PodiumSize)
PageRows(rows, after) ==
  PageStart(rows, after)..Upto(rows, PageStart(rows, after) + PageSize - 1)

-----------------------------------------------------------------------------

PlazaInit ==
  /\ shown = TRUE /\ cheers = {} /\ cheerCount = 0
  /\ comment = [c \in Comments |-> [state |-> "none", hidden |-> "no"]]
  /\ commentCount = 0 /\ cleared = {}
  /\ reports = [c \in Comments |-> {}] /\ openReports = reports
  /\ reportCount = [c \in Comments |-> 0]
  /\ ask = [a \in Asks |-> NoRequest]
  /\ lost = 0
  /\ week = 1 /\ part = "later"
  /\ earned = [w \in 1..LastWeek |-> [u \in Climbers |-> 0]]
  /\ board = [w \in 1..LastWeek |-> [u \in Climbers |-> Unranked]]
  /\ podium = {} /\ posted = {} /\ notices = {} /\ jobs = {}
  /\ plan = NoPlan

FeedStep(a) ==
  \/ WriteCheer(a) \/ WriteComment(a) \/ WriteReport(a)
  \/ CountCheer(a) \/ CountComment(a) \/ CountReport(a)
  \/ HideReported(a) \/ ResolveReports(a) \/ LoseRequest(a)

WeekStep ==
  \/ BeginTick \/ NextScope \/ BeginRecap \/ EndRecap \/ Perform \/ StopTick
  \/ WeekClock

Operations == {"cheer", "uncheer", "comment", "delete", "report", "hide", "restore"}

PlazaNext ==
  \/ \E a \in Asks :
       FeedStep(a) \/ \E op \in Operations, v \in Viewers, c \in Comments : Ask(a, op, v, c)
  \/ HideActivity \/ \E action \in {"hide", "restore"} : ModerateActivity(action)
  \/ WeekStep
  \/ \E u \in Climbers, amount \in 1..BestScore : Earn(u, amount)

PlazaSpec == PlazaInit /\ [][PlazaNext]_plazaVars

-----------------------------------------------------------------------------

PlazaTypeOK ==
  /\ shown \in BOOLEAN /\ cheers \subseteq Viewers /\ cheerCount \in Nat
  /\ comment \in [Comments -> [state : {"none", "posted", "deleted"},
                               hidden : {"no", "auto", "admin"}]]
  /\ commentCount \in Nat /\ cleared \subseteq Comments
  /\ reports \in [Comments -> SUBSET Viewers] /\ openReports \in [Comments -> SUBSET Viewers]
  /\ reportCount \in [Comments -> Nat] /\ lost \in 0..MaxLost
  /\ \A a \in Asks : ask[a].step \in {"idle", "write", "count", "hide"}
  /\ week \in 1..LastWeek /\ part \in {"midnight", "monday", "later"}
  /\ board \in [1..LastWeek -> [Climbers -> [score : 0..BestScore, rank : 0..Cardinality(Climbers),
                                             announced : BOOLEAN]]]
  /\ plan.scope \in 0..3

Under(step, op, c) == Cardinality({a \in Asks : At(a, step, op) /\ ask[a].on = c})
UnderWay(op) == Cardinality({a \in Asks : At(a, "count", op)})

\* The counter beside the cheers, and the threshold beside the reports: the
\* number shown falls short of the cheers only by requests that are between
\* their two statements or died there, and a comment enough travelers reported
\* is hidden, unless an admin has restored it, a report is being counted, or
\* counting one was lost.
CountersCatchUp ==
  /\ cheerCount + UnderWay("cheer") + lost >= Cardinality(cheers) + UnderWay("uncheer")
  /\ \A c \in Comments :
       /\ comment[c].state # "none" /\ Cardinality(reports[c]) >= HideAt + lost
       /\ Under("count", "report", c) + Under("hide", "report", c) = 0
       => comment[c].hidden # "no" \/ c \in cleared

\* A week recorded as ended has given every winner of the live scope the badge
\* of the place the board shows, a post and a notice, and nobody else a badge;
\* a recap recorded as run has reached everybody: whatever ticks died before.
WeeklyJobsComplete ==
  \A w \in 1..LastWeek :
    /\ <<"finalize", w>> \in jobs =>
         \A u \in Members("live") :
           /\ {k[1] : k \in {k \in podium : k[2] = w /\ k[3] = u}}
                = IF u \in Winners(w, "live") THEN {Place(w, u)} ELSE {}
           /\ u \in Winners(w, "live") =>
                <<"champion", w, u>> \in posted /\ <<"champion", w, u>> \in notices
    /\ <<"recap", w>> \in jobs => \A u \in Climbers : <<"recap", w, u>> \in notices

\* Who pages through the whole board sees every row once, except rows that
\* share their rank with one shown before: a page starts behind a rank, so the
\* rest of a tie that the podium or a page cuts is never shown.
OnlyTiesUnseen ==
  LET rows == Standings("live")
      turns == Turns(rows)
      pages == [n \in DOMAIN turns |-> UNION {PageRows(rows, r) : r \in turns[n]}]
      seen == PodiumRows(rows) \cup UNION {pages[n] : n \in DOMAIN pages}
  IN
  /\ \A i \in DOMAIN rows \ seen : \E j \in seen : rows[j].rank = rows[i].rank
  /\ \A n \in DOMAIN pages :
       /\ pages[n] \cap PodiumRows(rows) = {}
       /\ \A m \in DOMAIN pages \ {n} : pages[n] \cap pages[m] = {}

\* Nobody is left out of a week: not by a tick that died, not by a page break,
\* except behind a tie.
StandingsComplete == WeeklyJobsComplete /\ OnlyTiesUnseen
=============================================================================
