----------------------------- MODULE TrailTrends -----------------------------
(***************************************************************************)
(* The Monday batch of trails (trails/jobs/weeklyTrends.ts): a tick that    *)
(* holds the advisory lock draws up the digest of the week and lets the     *)
(* engine make one trail for each of its themes and a legendary one, area   *)
(* by area.  Every trail and every mark is committed on its own; a process  *)
(* may stop between any two of them, and the next tick starts over with a   *)
(* digest of its own.                                                       *)
(***************************************************************************)
EXTENDS Integers, FiniteSets, Sequences

CONSTANTS Tickers,      \* processes that run the job
          Areas,        \* in the order of their names
          Digests,      \* theme lists a digest may have
          LastMonday,   \* bound on the weeks
          MaxStops      \* bound: processes that stop in the middle

ASSUME TrendsAssumption ==
  /\ \A d \in Digests : Len(d) \in 1..4
  /\ Len(Areas) \in Nat \ {0} /\ LastMonday \in Nat /\ MaxStops \in Nat

VARIABLES monday,   \* the week
          inWindow, \* after 01:00 of the Monday
          digest,   \* trend_digests by week
          ticker,   \* the tick of each process
          made,     \* trails: week, area, candidate, and the tick that made it
          refused,  \* candidates without a feasible route
          marked,   \* plaza_job_runs: week, area, and the themes it was made for
          stops

trendVars == <<monday, inWindow, digest, ticker, made, refused, marked, stops>>

NoTick == [step |-> "idle", week |-> 0, themes |-> <<>>, area |-> 0, todo |-> <<>>]

\* Signature candidates are named for their place and label; the legendary
\* one has no label.
Candidates(themes) == [i \in 1..(Len(themes) + 1) |->
                         IF i <= Len(themes) THEN <<i, themes[i]>> ELSE <<0, "legendary">>]

Held == \E p \in Tickers : ticker[p].step # "idle"
Row(p) == <<ticker[p].week, Areas[ticker[p].area]>>

\* The tick goes on to the area after the given one, or ends and unlocks.
AreaAfter(p, n) == ticker' = [ticker EXCEPT ![p] =
  IF n < Len(Areas) THEN [@ EXCEPT !.step = "area", !.area = n + 1, !.todo = <<>>] ELSE NoTick]

\* The lock is not waited for; facts and a model give some digest.
BeginTrends(p) ==
  /\ ticker[p] = NoTick /\ ~Held /\ inWindow
  /\ \E themes \in Digests :
       /\ digest' = [digest EXCEPT ![monday] = themes]
       /\ ticker' = [ticker EXCEPT ![p] =
            [step |-> "area", week |-> monday, themes |-> themes, area |-> 1, todo |-> <<>>]]
  /\ UNCHANGED <<monday, inWindow, made, refused, marked, stops>>

IsMarked(row) == \E themes \in Digests : <<row, themes>> \in marked

OpenArea(p) ==
  /\ ticker[p].step = "area"
  /\ IF IsMarked(Row(p)) THEN AreaAfter(p, ticker[p].area)
     ELSE ticker' = [ticker EXCEPT ![p].step = "candidate",
                                   ![p].todo = Candidates(ticker[p].themes)]
  /\ UNCHANGED <<monday, inWindow, digest, made, refused, marked, stops>>

NextCandidate(p) ==
  ticker' = [ticker EXCEPT ![p].step = "candidate", ![p].todo = Tail(@)]

\* The generation of this week for the area and the candidate.
HasGeneration(p) == \E g \in made : g.row = Row(p) /\ g.key = Head(ticker[p].todo)

\* A candidate that has a generation of this week is skipped.
LookUp(p) ==
  /\ ticker[p].step = "candidate" /\ ticker[p].todo # <<>>
  /\ IF HasGeneration(p)
     THEN NextCandidate(p)
     ELSE ticker' = [ticker EXCEPT ![p].step = "generate"]
  /\ UNCHANGED <<monday, inWindow, digest, made, refused, marked, stops>>

\* generateTrail: prepared with calls to the router, stored in one transaction.
Generate(p) ==
  /\ ticker[p].step = "generate"
  /\ LET key == Head(ticker[p].todo) IN
     \/ /\ made' = made \cup {[row |-> Row(p), key |-> key, nth |-> Cardinality(made)]}
        /\ UNCHANGED refused
     \/ refused' = refused \cup {<<Row(p), key>>} /\ UNCHANGED made
  /\ NextCandidate(p)
  /\ UNCHANGED <<monday, inWindow, digest, marked, stops>>

MarkArea(p) ==
  /\ ticker[p].step = "candidate" /\ ticker[p].todo = <<>>
  /\ marked' = marked \cup {<<Row(p), ticker[p].themes>>}
  /\ AreaAfter(p, ticker[p].area)
  /\ UNCHANGED <<monday, inWindow, digest, made, refused, stops>>

\* A query fails or the process stops; its lock goes with its connection.
StopTrends(p) ==
  /\ ticker[p] # NoTick /\ stops < MaxStops
  /\ ticker' = [ticker EXCEPT ![p] = NoTick] /\ stops' = stops + 1
  /\ UNCHANGED <<monday, inWindow, digest, made, refused, marked>>

\* The window of the week opens, and closes on Tuesday; a tick under way
\* works on.
TrendClock ==
  /\ \/ ~inWindow /\ inWindow' = TRUE /\ UNCHANGED monday
     \/ /\ inWindow /\ monday < LastMonday
        /\ inWindow' = FALSE /\ monday' = monday + 1
  /\ UNCHANGED <<digest, ticker, made, refused, marked, stops>>

TrendInit ==
  /\ monday = 0 /\ inWindow = FALSE /\ digest = [w \in 0..LastMonday |-> <<>>]
  /\ ticker = [p \in Tickers |-> NoTick]
  /\ made = {} /\ refused = {} /\ marked = {} /\ stops = 0

TrendStep(p) == \/ BeginTrends(p) \/ OpenArea(p) \/ LookUp(p) \/ Generate(p)
                \/ MarkArea(p) \/ StopTrends(p)

TrendSpec == TrendInit /\ [][TrendClock \/ \E p \in Tickers : TrendStep(p)]_trendVars

-----------------------------------------------------------------------------

TrendTypeOK ==
  /\ monday \in 0..LastMonday /\ stops \in 0..MaxStops
  /\ \A g \in made : g.row[1] \in 0..LastMonday
  /\ \A p \in Tickers : ticker[p].area \in 0..Len(Areas)

\* Ticks of several processes, stopped anywhere and started over with another
\* digest: no candidate of a week and area gets two trails, so none gets two
\* legendary ones, and an area that is marked done has a trail for, or was
\* refused, every theme it was marked for.
WeeklyBatchOnce ==
  /\ \A g, h \in made : g.row = h.row /\ g.key = h.key => g = h
  /\ \A m \in marked : \A i \in DOMAIN Candidates(m[2]) :
       LET key == Candidates(m[2])[i] IN
       <<m[1], key>> \in refused \/ \E g \in made : g.row = m[1] /\ g.key = key
=============================================================================
