------------------------------ MODULE Progression ------------------------------
(***************************************************************************)
(* Visits, explorer XP and badges of one traveler (progression/service.ts).*)
(* Approving a proof writes an outbox event in the same transaction, or an *)
(* admin's catch-up writes it later; workers lease events and turn each    *)
(* into a visit, its XP and the badges it completes, in one transaction    *)
(* that commits only if the worker's claim still holds.                    *)
(*                                                                         *)
(* That transaction holds the traveler's row, so it is one action; what    *)
(* a worker does after a failed one is another.                            *)
(***************************************************************************)
EXTENDS Integers, FiniteSets, FiniteSetsExt

CONSTANTS
  Visited,           \* submissions of the traveler
  Stops,             \* spots
  StopOf,            \* the spot a submission's quest is bound to, if it is
  Trail,             \* the spots of a curated collection
  PioneerStops,      \* distinct spots for pangasinan_pioneer
  VisitXp,
  XpBoosts,          \* what juanchoice perks may add, 0 for none
  Awarders,          \* outbox workers
  AwardBatch,        \* batch size
  EventLease, VerdictDelay, ErrorDelay,    \* in ticks
  EventTries,        \* outbox_events.max_attempts
  MaxUnpublish       \* bound: changes to the published spots

ASSUME LeaseIsTimed == EventLease \in Nat \ {0} /\ EventTries \in Nat \ {0}
ASSUME StopsOfProofs == StopOf \in [Visited -> Stops] /\ Trail \subseteq Stops
ASSUME AwardsAreCounted ==
  /\ IsFiniteSet(Visited) /\ PioneerStops \in Nat \ {0}
  /\ VisitXp \in Nat \ {0} /\ XpBoosts \subseteq Nat
  /\ VerdictDelay \in Nat /\ ErrorDelay \in Nat /\ MaxUnpublish \in Nat

VARIABLES
  proofStatus,       \* submissions.status
  bound,             \* submissions whose quest has an active binding, all of
                     \* them real or all of them tests
  shown,             \* published spots
  awardEvent,        \* outbox_events, one for each submission
  visits,            \* verified_visits, by source_submission_id
  xpEvents,          \* progression_events by source, 0 for none
  explorerXp,        \* progression_totals.explorer_xp
  badges,            \* achievement_awards
  levelsTold,        \* activities level_up
  held,              \* what each worker has claimed and not yet processed
  changes            \* counts changes to the published spots

progressVars == <<proofStatus, bound, shown, awardEvent, visits, xpEvents,
                  explorerXp, badges, levelsTold, held, changes>>

awards == <<visits, xpEvents, explorerXp, badges, levelsTold>>
approvals == <<proofStatus, bound, shown, changes>>

EventRow == [status : {"none", "pending", "processing", "failed", "completed", "dead_letter"},
             resolved : BOOLEAN, tries : 0..EventTries,
             lease : 0..EventLease, wait : 0..Max({VerdictDelay, ErrorDelay})]

NoEvent == [status |-> "none", resolved |-> FALSE, tries |-> 0, lease |-> 0, wait |-> 0]

-----------------------------------------------------------------------------
(* Emitting *)

\* recordApprovalOutboxEvent: without a binding the event is kept for audit
\* and awards nothing.
Emitted(some) ==
  [s \in Visited |-> IF s \notin some THEN awardEvent[s]
     ELSE [NoEvent EXCEPT !.status = "pending", !.resolved = s \in bound]]

\* A review approves the proof; PROGRESSION_EMIT_OUTBOX_ENABLED may be off.
ApproveVisit(s, emit) ==
  /\ proofStatus[s] = "pending"
  /\ proofStatus' = [proofStatus EXCEPT ![s] = "approved"]
  /\ awardEvent' = IF emit THEN Emitted({s}) ELSE awardEvent
  /\ UNCHANGED <<bound, shown, awards, held, changes>>

\* Approved submissions with neither an event nor a visit.
Missed == {s \in Visited : /\ proofStatus[s] = "approved"
                           /\ awardEvent[s].status = "none" /\ s \notin visits}

\* catchUpApprovedSubmissions, up to a limit.
CatchUp(some) ==
  /\ some \subseteq Missed /\ some # {}
  /\ awardEvent' = Emitted(some)
  /\ UNCHANGED <<approvals, awards, held>>

\* A spot is unpublished, or published again.
PublishStop(p) ==
  /\ changes < MaxUnpublish
  /\ changes' = changes + 1
  /\ shown' = (shown \ {p}) \cup ({p} \ shown)
  /\ UNCHANGED <<proofStatus, bound, awardEvent, awards, held>>

-----------------------------------------------------------------------------
(* Leases *)

Expired(events) == {s \in Visited : events[s].status = "processing" /\ events[s].lease = 0}

\* The first statement of claimPendingOutboxEvents.
DeadLettered ==
  [s \in Visited |->
     IF s \in Expired(awardEvent) /\ awardEvent[s].tries >= EventTries
     THEN [awardEvent[s] EXCEPT !.status = "dead_letter"] ELSE awardEvent[s]]

Claimable(events) ==
  {s \in Visited : /\ events[s].status \in {"pending", "failed"} \/ s \in Expired(events)
                   /\ events[s].wait = 0 /\ events[s].tries < EventTries}

\* claimPendingOutboxEvents; a claim's token is the try it is.
ClaimEvents(w) ==
  LET events == DeadLettered
      size == Min({AwardBatch, Cardinality(Claimable(events))})
  IN
  /\ held[w] = {}
  /\ \E some \in kSubset(size, Claimable(events)) :
       /\ awardEvent' = [s \in Visited |-> IF s \notin some THEN events[s]
            ELSE [events[s] EXCEPT !.status = "processing", !.tries = @ + 1,
                                   !.lease = EventLease]]
       /\ held' = [held EXCEPT ![w] = {<<s, events[s].tries + 1>> : s \in some}]
       /\ events # awardEvent \/ some # {}
  /\ UNCHANGED <<approvals, awards>>

\* Mutant: a worker writes whoever holds the event by now.
Fenced_AnyHolder(claim) == claim[2] \in 1..EventTries

\* The fence of markOutboxCompleted and markOutboxFailed: the claim's token,
\* whether or not its lease ran out.
Fenced(claim) ==
  awardEvent[claim[1]].status = "processing" /\ awardEvent[claim[1]].tries = claim[2]

Release(w, claim) == held' = [held EXCEPT ![w] = @ \ {claim}]

\* markOutboxFailed
MarkFailed(claim, delay) ==
  LET s == claim[1] IN
  IF ~Fenced(claim) THEN UNCHANGED awardEvent
  ELSE awardEvent' = [awardEvent EXCEPT
         ![s].status = IF awardEvent[s].tries >= EventTries THEN "dead_letter" ELSE "failed",
         ![s].wait = delay, ![s].lease = 0]

-----------------------------------------------------------------------------
(* Processing *)

StopsVisited(done) == {StopOf[s] : s \in done}

Pioneer(done) == Cardinality(StopsVisited(done)) >= PioneerStops

\* evaluateAchievementsForUser. getCuratedCollections leaves unpublished
\* spots out of the trail.
BadgesFor(done) ==
  (IF done # {} THEN {"first_footstep"} ELSE {})
    \cup (IF Pioneer(done) THEN {"pangasinan_pioneer"} ELSE {})
    \cup (IF Trail \cap shown # {} /\ Trail \cap shown \subseteq StopsVisited(done)
          THEN {"trail"} ELSE {})

\* getExplorerLevel
LevelOf(xp) == Max({l \in 1..(xp \div 50 + 1) : 50 * (l - 1) * l <= xp})

\* updateProgressionTotals tells the feed of the last three levels reached; if
\* that fails, it is undone alone.
UpdateTotals(xp) ==
  LET total == explorerXp + xp
      reached == {l \in (LevelOf(explorerXp) + 1)..LevelOf(total) : l > LevelOf(total) - 3}
  IN
  /\ explorerXp' = total
  /\ levelsTold' \in {levelsTold, levelsTold \cup reached}

\* The visit of a resolved event; its XP counts if it is the first of its
\* source.
AwardVisit(s, xp) ==
  /\ visits' = visits \cup {s}
  /\ xpEvents' = [xpEvents EXCEPT ![s] = IF @ = 0 THEN xp ELSE @]
  /\ IF xpEvents[s] = 0 THEN UpdateTotals(xp) ELSE UNCHANGED <<explorerXp, levelsTold>>
  /\ badges' = badges \cup BadgesFor(visits')

Refused(s) == awardEvent[s].resolved /\ StopOf[s] \notin shown

\* An event whose spot is not published waits an hour.
RefuseEvent(w, claim) ==
  /\ claim \in held[w]
  /\ Refused(claim[1])
  /\ MarkFailed(claim, VerdictDelay)
  /\ Release(w, claim)
  /\ UNCHANGED <<approvals, awards>>

\* processOutboxBatch, one event: everything, or nothing when the claim was
\* lost.
ProcessEvent(w, claim, boost) ==
  LET s == claim[1] IN
  /\ claim \in held[w]
  /\ ~Refused(s)
  /\ IF Fenced(claim)
     THEN /\ awardEvent' = [awardEvent EXCEPT ![s].status = "completed", ![s].lease = 0]
          /\ IF awardEvent[s].resolved THEN AwardVisit(s, VisitXp + boost)
             ELSE UNCHANGED awards
     ELSE UNCHANGED <<awardEvent, awards>>
  /\ Release(w, claim)
  /\ UNCHANGED approvals

\* The transaction fails and is rolled back.
EventError(w, claim) ==
  /\ claim \in held[w]
  /\ MarkFailed(claim, ErrorDelay)
  /\ Release(w, claim)
  /\ UNCHANGED <<approvals, awards>>

\* The worker stops, or the failure cannot be recorded either.
DropBatch(w) ==
  /\ held[w] # {}
  /\ held' = [held EXCEPT ![w] = {}]
  /\ UNCHANGED <<approvals, awards, awardEvent>>

\* Time passes for leases and delays.
EventTick ==
  /\ \E s \in Visited : awardEvent[s].lease > 0 \/ awardEvent[s].wait > 0
  /\ awardEvent' = [s \in Visited |->
       [awardEvent[s] EXCEPT !.lease = Max({0, @ - 1}), !.wait = Max({0, @ - 1})]]
  /\ UNCHANGED <<approvals, awards, held>>

-----------------------------------------------------------------------------

ProgressInit ==
  /\ proofStatus = [s \in Visited |-> "pending"]
  /\ bound \in SUBSET Visited /\ shown = Stops /\ changes = 0
  /\ awardEvent = [s \in Visited |-> NoEvent]
  /\ visits = {} /\ xpEvents = [s \in Visited |-> 0] /\ explorerXp = 0 /\ badges = {}
  /\ levelsTold = {}
  /\ held = [w \in Awarders |-> {}]

ApprovalStep ==
  \/ \E s \in Visited, emit \in BOOLEAN : ApproveVisit(s, emit)
  \/ \E some \in SUBSET Visited : CatchUp(some)
  \/ \E p \in Stops : PublishStop(p)

AwarderWork(w) ==
  \/ ClaimEvents(w)
  \/ \E claim \in held[w] :
       \/ RefuseEvent(w, claim)
       \/ \E boost \in XpBoosts : ProcessEvent(w, claim, boost)

AwarderFault(w) == DropBatch(w) \/ \E claim \in held[w] : EventError(w, claim)

ProgressNext ==
  \/ ApprovalStep
  \/ \E w \in Awarders : AwarderWork(w) \/ AwarderFault(w)
  \/ EventTick

ProgressSpec == ProgressInit /\ [][ProgressNext]_progressVars

-----------------------------------------------------------------------------
(* Properties *)

ProgressTypeOK ==
  /\ proofStatus \in [Visited -> {"pending", "approved"}]
  /\ bound \subseteq Visited /\ shown \subseteq Stops /\ changes \in 0..MaxUnpublish
  /\ awardEvent \in [Visited -> EventRow]
  /\ visits \subseteq Visited /\ xpEvents \in [Visited -> Nat] /\ explorerXp \in Nat
  /\ badges \subseteq {"first_footstep", "pangasinan_pioneer", "trail"}
  /\ levelsTold \subseteq Nat
  /\ held \in [Awarders -> SUBSET (Visited \X (1..EventTries))]

\* However often an event is delivered, by workers whose leases ran out or
\* who failed half way: it is completed if and only if its visit and its XP
\* were recorded, the traveler's total is the sum of the XP recorded, no level
\* is told of that it does not reach, and a badge for distinct destinations
\* was earned by distinct destinations.
VisitsCreditedOnce ==
  /\ visits = {s \in Visited : awardEvent[s].status = "completed" /\ awardEvent[s].resolved}
  /\ \A s \in Visited : xpEvents[s] > 0 <=> s \in visits
  /\ explorerXp = MapThenSumSet(LAMBDA s : xpEvents[s], Visited)
  /\ levelsTold \subseteq 2..LevelOf(explorerXp)
  /\ "first_footstep" \in badges <=> visits # {}
  /\ "pangasinan_pioneer" \in badges <=> Cardinality(StopsVisited(visits)) >= PioneerStops
  /\ \A s \in visits : proofStatus[s] = "approved"

\* An emitted event does not stay open: it is completed or given up, though
\* workers crash and fail.
EventsEnd ==
  \A s \in Visited :
    awardEvent[s].status # "none" ~> awardEvent[s].status \in {"completed", "dead_letter"}
=============================================================================
