------------------------------ MODULE MCWorkers ------------------------------
(***************************************************************************)
(* The background workers, each on its own tables: the economic outbox,    *)
(* the awards of approved visits, those of finalized rounds, the chain     *)
(* indexers and the push dispatchers.  They share no row, so a behaviour   *)
(* has a focus, one of them, and leaves the others at rest.  "pair" is two *)
(* indexers and a network that leaves a branch and returns to it, "lone"   *)
(* one indexer and any changes of the network.                             *)
(***************************************************************************)
EXTENDS WorkersSide, TLC

VARIABLE focus

outboxVars == vars

mcVars == <<focus, outboxVars, progressVars, retentionVars, indexVars, pushVars>>

-----------------------------------------------------------------------------
(* Constants *)

\* Math.min(300, 2 ** Math.min(claim.attempts, 8)), one tick for two seconds.
MCRetry ==
  [n \in 1..MaxAttempts |->
     LET seconds == 2 ^ (IF n < 8 THEN n ELSE 8) IN
     (IF seconds < 300 THEN seconds ELSE 300) \div 2]

MCStopOf == [s \in Visited |-> IF s = "v1" THEN "church" ELSE "beach"]

\* The second round may be cancelled and held again under its number.
MCRoundNo ==
  [c \in Official |-> CASE c = "r1" -> 1 [] c \in {"r2", "again"} -> 2 [] OTHER -> 3]
MCTarget == [g \in Goals |-> 1]

\* Two branches over a common block; the claim and the role grant of one are
\* mined again in the other order on the other, and a third branch loses both.
MCHeight == [b \in Blocks |->
  CASE b = "g" -> 0 [] b \in {"a1", "b1"} -> 1 [] b \in {"a2", "b2", "c2"} -> 2
    [] OTHER -> 3]
MCParent == [b \in Blocks |->
  CASE b = "g" -> NoBlock [] b \in {"a1", "b1"} -> "g" [] b = "a2" -> "a1"
    [] b \in {"b2", "c2"} -> "b1" [] b = "a3" -> "a2" [] b = "b3" -> "b2"
    [] OTHER -> "c2"]
MCLogs == [b \in Blocks |->
  CASE b \in {"a1", "b2"} -> {"claim"} [] b \in {"a2", "b1"} -> {"role"} [] OTHER -> {}]

MCCap == [c \in Categories |-> 1]

-----------------------------------------------------------------------------

MCInit ==
  /\ focus \in {"outbox", "awards", "rounds", "lone", "pair", "push"}
  /\ Init /\ ProgressInit /\ RetentionInit /\ IndexInit /\ PushInit
  /\ focus # "awards" => bound = Visited
  /\ focus # "lone" => tip = "c3"
  /\ third \in (IF focus = "push" THEN {0, 2} ELSE {0})

InFocus(name, others) == focus = name /\ UNCHANGED <<focus, others>>

restOfOutbox == <<progressVars, retentionVars, indexVars, pushVars>>
restOfAwards == <<outboxVars, retentionVars, indexVars, pushVars>>
restOfRounds == <<outboxVars, progressVars, indexVars, pushVars>>
restOfIndex == <<outboxVars, progressVars, retentionVars, pushVars>>
restOfPush == <<outboxVars, progressVars, retentionVars, indexVars>>

LoneIndexer == CHOOSE i \in Indexers : TRUE
LoneDispatcher == CHOOSE d \in Dispatchers : TRUE

\* Early visits to the winner of the first round.
RoundsFocus ==
  /\ InFocus("rounds", restOfRounds)
  /\ RetentionNext
  /\ early' # early => early["r1"] = {} /\ early'["r1"] # {}

IndexFocus ==
  \/ /\ InFocus("lone", restOfIndex)
     /\ \/ SyncStep(LoneIndexer) \/ AbortSync(LoneIndexer)
        \/ \E b \in Blocks : NetworkMoves(b)
  \/ /\ InFocus("pair", restOfIndex)
     /\ \/ \E i \in Indexers : SyncStep(i)
        \/ \E b \in {"a3", "b3", "c3"} : NetworkMoves(b)

\* The ids and keys are used in order; the recap and the quiet hours are
\* switched off together, before the first morning ends; one third passes, to
\* the first morning or to the second day; the second dispatcher is there
\* while the first works.
PushFocus ==
  /\ InFocus("push", restOfPush)
  /\ \/ \E p \in Pushes, c \in {"social", "account"}, k \in Keys :
          /\ \A q \in Pushes : q < p => push[q].status # "none"
          /\ p = 1 => k = "k1"
          /\ EnqueuePush(p, c, k)
     \/ third < 2 /\ \E off \in {{}, {"weekly_recap"}} : SetPreferences(off, off = {})
     \/ \E registered \in BOOLEAN : SetDevice(registered)
     \/ third % 2 = 0 /\ ThirdPasses
     \/ \E d \in Dispatchers :
          /\ d # LoneDispatcher => ~Doing(LoneDispatcher, "off") \/ ~Doing(d, "off")
          /\ TickStep(d) \/ TickStops(d)

MCNext ==
  \/ InFocus("outbox", restOfOutbox) /\ Next
  \/ InFocus("awards", restOfAwards) /\ ProgressNext
  \/ RoundsFocus
  \/ IndexFocus
  \/ PushFocus

\* Time passes for leases and delays, and the workers' intervals fire.
MCSpec ==
  /\ MCInit /\ [][MCNext]_mcVars
  /\ WF_mcVars(InFocus("outbox", restOfOutbox) /\ Tick)
  /\ \A w \in Workers :
       /\ WF_mcVars(InFocus("outbox", restOfOutbox) /\ ClaimBatch(w))
       /\ WF_mcVars(InFocus("outbox", restOfOutbox) /\ Process(w))
  /\ WF_mcVars(InFocus("awards", restOfAwards) /\ EventTick)
  /\ \A w \in Awarders : WF_mcVars(InFocus("awards", restOfAwards) /\ AwarderWork(w))

-----------------------------------------------------------------------------

\* No economic event and no approval event stays open, though deliveries fail
\* and workers crash.
EventsAreWorkedOff == EventsSettle /\ EventsEnd
=============================================================================
