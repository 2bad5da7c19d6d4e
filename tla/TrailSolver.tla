----------------------------- MODULE TrailSolver -----------------------------
(***************************************************************************)
(* How a trail is put together (trails/solver/local.ts, index.ts and the    *)
(* relaxations of trails/generate.ts): a seed route by depth-first search,  *)
(* grown stop by stop, then improved by random moves, each phase cut short  *)
(* by a deadline; and if there is no seed, again with one limit relaxed.    *)
(* The exhaustive search of solver/exact.ts is the reference.               *)
(***************************************************************************)
EXTENDS Integers, FiniteSets, SequencesExt

CONSTANTS Problems, \* value, dwell, window, category and leg by node, and limits
          NoStart,
          Moves     \* bound: random moves that improve the route

\* A problem: its fields, and minutes that are no debts.
IsProblem(p) ==
  /\ p = [value |-> p.value, dwell |-> p.dwell, window |-> p.window, category |-> p.category,
          leg |-> p.leg, exclude |-> p.exclude, must |-> p.must, start |-> p.start,
          budget |-> p.budget, min |-> p.min, max |-> p.max, maxLeg |-> p.maxLeg,
          maxPerCategory |-> p.maxPerCategory]
  /\ p.max \in Nat /\ p.min \in 1..p.max
  /\ p.must \subseteq DOMAIN p.value /\ IsFiniteSet(p.must)
  /\ {p.budget, p.maxLeg, p.maxPerCategory} \subseteq Int
  /\ \A n \in DOMAIN p.value :
       /\ p.dwell[n] \in Nat /\ (p.start # NoStart => p.leg[<<p.start, n>>] \in Nat)
       /\ \A m \in DOMAIN p.value : p.leg[<<m, n>>] \in Nat

ASSUME SolverAssumption == Moves \in Nat /\ \A p \in Problems : IsProblem(p)

VARIABLES problem, \* with the limits as relaxed so far
          asked,   \* the problem as asked
          route,   \* the best route, empty if there is none
          phase,
          relaxed, \* relaxations so far
          late,    \* a deadline passed
          moved

solverVars == <<problem, asked, route, phase, relaxed, late, moved>>

-----------------------------------------------------------------------------
(* evaluateOrder *)

Nodes(p) == DOMAIN p.value \ p.exclude
Leg(p, r, i) == IF i > 1 THEN p.leg[<<r[i - 1], r[i]>>]
                ELSE IF p.start = NoStart THEN 0 ELSE p.leg[<<p.start, r[1]>>]

\* Minutes after the start at which stop i is left: legs and stays so far.
Left(p, r, i) == MapThenSumSet(LAMBDA j : Leg(p, r, j) + p.dwell[r[j]], 1..i)
Arrival(p, r, i) == Left(p, r, i - 1) + Leg(p, r, i)

OfCategory(p, r, c) == {i \in DOMAIN r : p.category[r[i]] = c}

\* A route is feasible but for its fewest stops.
Partial(p, r) ==
  /\ Len(r) \in 1..p.max /\ ToSet(r) \subseteq Nodes(p) /\ IsInjective(r)
  /\ \A i \in DOMAIN r :
       /\ Leg(p, r, i) <= p.maxLeg
       /\ p.window[r[i]] # {} => Arrival(p, r, i) \in p.window[r[i]]
       /\ Cardinality(OfCategory(p, r, p.category[r[i]])) <= p.maxPerCategory
  /\ Left(p, r, Len(r)) <= p.budget

Feasible(p, r) == Partial(p, r) /\ Len(r) >= p.min /\ p.must \subseteq ToSet(r)

\* The value of the stops less the penalty of the legs; crowds are never known.
Objective(p, r) ==
  MapThenSumSet(LAMBDA i : p.value[r[i]] - Leg(p, r, i), DOMAIN r)

\* solveExact.
RoutesOf(p) == UNION {[1..n -> Nodes(p)] : n \in p.min..p.max}
ExactRoutes(p) == {r \in RoutesOf(p) : Feasible(p, r)}

-----------------------------------------------------------------------------
(* solveLocal *)

TargetStops(p) == IF Cardinality(p.must) > p.min THEN Cardinality(p.must) ELSE p.min

\* What the search keeps on its way: a prefix that can still take what it must.
\* Mutant for FindsWhatExists: the fewest stops are demanded of every prefix.
Extendable_FullMinimum(p, r) == Partial(p, r) /\ Len(r) >= p.min
Extendable(p, r) ==
  /\ Partial(p, r)
  /\ Cardinality(p.must \ ToSet(r)) + Len(r) <= TargetStops(p)

\* Routes of the target length that the search reaches by extending.
Seeds(p) == {r \in [1..TargetStops(p) -> Nodes(p)] :
               Feasible(p, r) /\ \A n \in DOMAIN r : Extendable(p, SubSeq(r, 1, n))}

\* The search ends with a seed, with none, or with none in time.
FindFeasibleSeed ==
  /\ phase = "seed"
  /\ \/ \E r \in Seeds(problem) : route' = r /\ phase' = "grow" /\ UNCHANGED late
     \/ /\ Seeds(problem) = {} /\ phase' = "failed" /\ UNCHANGED <<route, late>>
     \/ /\ phase' = "failed" /\ late' = TRUE /\ UNCHANGED route
  /\ UNCHANGED <<problem, asked, relaxed, moved>>

Grown == {r \in {InsertAt(route, at, n) : at \in 1..(Len(route) + 1), n \in Nodes(problem)} :
            Feasible(problem, r)}

\* The best insertion; the best one tried so far if time is up.
Grow ==
  /\ phase = "grow"
  /\ \/ \E r \in Grown :
          /\ \A q \in Grown : Objective(problem, r) >= Objective(problem, q)
          /\ route' = r /\ UNCHANGED <<phase, late>>
     \/ Grown = {} /\ phase' = "move" /\ UNCHANGED <<route, late>>
     \/ \E r \in Grown \cup {route} : route' = r /\ late' = TRUE /\ phase' = "done"
  /\ UNCHANGED <<problem, asked, relaxed, moved>>

Unused(n) == n \in Nodes(problem) \ ToSet(route)
Removable(i) == route[i] \notin problem.must

\* The random moves: a segment reversed, a stop put elsewhere, one replaced or
\* added, one dropped.
Reversals == UNION {{SubSeq(route, 1, a - 1) \o Reverse(SubSeq(route, a, b))
                       \o SubSeq(route, b + 1, Len(route)) : a \in 1..b} : b \in DOMAIN route}
Relocations ==
  {InsertAt(RemoveAt(route, a), b, route[a]) : a \in DOMAIN route, b \in DOMAIN route}
Replacements == {ReplaceAt(route, i, n) : i \in {j \in DOMAIN route : Removable(j)},
                                          n \in {m \in Nodes(problem) : Unused(m)}}
Insertions == {InsertAt(route, at, n) : at \in 1..(Len(route) + 1),
                                        n \in {m \in Nodes(problem) : Unused(m)}}
Removals == {RemoveAt(route, i) : i \in {j \in DOMAIN route : Removable(j)}}

Neighbours ==
  Reversals \cup Relocations
  \cup (IF Len(route) >= problem.max THEN Replacements ELSE Insertions)
  \cup (IF Len(route) > problem.min THEN Removals ELSE {})

\* A random move is kept if it is feasible and better; the moves end after a
\* number of tries or at the deadline.
Improve ==
  /\ phase = "move" /\ moved < Moves
  /\ \E r \in Neighbours :
       /\ Feasible(problem, r) /\ Objective(problem, r) > Objective(problem, route)
       /\ route' = r
  /\ moved' = moved + 1
  /\ UNCHANGED <<problem, asked, phase, relaxed, late>>

EndMoves ==
  /\ phase = "move" /\ phase' = "done"
  /\ UNCHANGED <<problem, asked, route, relaxed, late, moved>>

-----------------------------------------------------------------------------
(* prepareTrail *)

\* A limit at a time: categories, then legs, then the budget.
Relaxation(p, n) ==
  CASE n = 0 -> [p EXCEPT !.maxPerCategory = @ + 1]
    [] n = 1 -> [p EXCEPT !.maxLeg = @ + 15]
    [] n = 2 -> [p EXCEPT !.budget = @ + 60]

Relax ==
  /\ phase = "failed" /\ relaxed < 3
  /\ problem' = Relaxation(problem, relaxed) /\ relaxed' = relaxed + 1
  /\ phase' = "seed"
  /\ UNCHANGED <<asked, route, late, moved>>

SolverInit ==
  /\ problem \in Problems /\ asked = problem /\ route = <<>> /\ phase = "seed"
  /\ relaxed = 0 /\ late = FALSE /\ moved = 0

SolverStep == FindFeasibleSeed \/ Grow \/ Improve \/ EndMoves \/ Relax

SolverSpec == SolverInit /\ [][SolverStep]_solverVars

-----------------------------------------------------------------------------
(* Properties *)

SolverTypeOK ==
  /\ phase \in {"seed", "grow", "move", "done", "failed"} /\ relaxed \in 0..3
  /\ moved \in 0..Moves /\ ToSet(route) \subseteq Nodes(problem)

AsRelaxed(n) == CASE n = 0 -> asked
                  [] n = 1 -> Relaxation(asked, 0)
                  [] n = 2 -> Relaxation(Relaxation(asked, 0), 1)
                  [] n = 3 -> Relaxation(Relaxation(Relaxation(asked, 0), 1), 2)

\* The local search against the exhaustive one: what it returns is a route of
\* the exhaustive search; unless a deadline passed or a stop is demanded, it
\* finds a route where there is one, and no limit was relaxed without need.
FindsWhatExists ==
  /\ phase \in {"grow", "move", "done"} => route \in ExactRoutes(problem)
  /\ ~late /\ asked.must = {} =>
       /\ phase = "failed" => ExactRoutes(problem) = {}
       /\ \A n \in 0..(relaxed - 1) : ExactRoutes(AsRelaxed(n)) = {}
=============================================================================
