---------------------------- MODULE WorkersProofs ----------------------------
(***************************************************************************)
(* Proofs about the background workers, for any number of workers and rows *)
(* and any value of the limits.                                            *)
(*                                                                         *)
(* EconomicOutbox: every step is a DeliveryStep, which says of each row    *)
(* how it may change (posted, claimed because it was due, or settled by    *)
(* the worker that still holds its lease and its claim) and of the         *)
(* receipts that they grow by exactly the rows the step completes.  The    *)
(* invariant and the action properties follow from that alone.             *)
(*                                                                         *)
(* PushDispatch: only the tick that holds the lock sends, so what it       *)
(* counted against the caps before it called FCM is still the count when   *)
(* it records the outcome.                                                 *)
(*                                                                         *)
(* Progression: a completed event stands for its visit and its XP, and the *)
(* totals beside the rows move in the transaction that adds the row.       *)
(*                                                                         *)
(* Retention: the fold of computeOfficialStreak counts the votes of a run  *)
(* of rounds that ends at the row it is at; rounds that end one by one     *)
(* leave no run uncounted.                                                 *)
(*                                                                         *)
(* ChainIndexer: the checkpoint is always as high as the headers under it, *)
(* and a block's ancestors are one block for each height, so what a rewind *)
(* of an indexer that runs alone keeps is the branch of the block it goes  *)
(* back to.                                                                *)
(***************************************************************************)
EXTENDS WorkersSide, SumLemmas, FiniteSetTheorems, TLAPS

-----------------------------------------------------------------------------
(* How a step may change row e *)

Posted(e) ==
  /\ row[e].status = "none"
  /\ row'[e] = [row[e] EXCEPT !.status = "pending"]

Claimed(e) ==
  /\ row[e].status \in {"pending", "failed", "processing"}
  /\ timer[e] = 0
  /\ \/ /\ row'[e].status = "processing"
        /\ row'[e].attempts \in Nat
     \/ /\ row'[e].status = "dead_letter"
        /\ row'[e].attempts = MaxAttempts

Settled(e) ==
  /\ row[e].status = "processing"
  /\ [event |-> e, token |-> row[e].attempts] \in claims[row[e].owner]
  /\ row'[e].status \in {"completed", "failed", "dead_letter"}
  /\ row'[e].status = "dead_letter" => row'[e].attempts = MaxAttempts

RowStep(e) == row'[e] = row[e] \/ Posted(e) \/ Claimed(e) \/ Settled(e)

DeliveryStep ==
  /\ \A e \in Events : RowStep(e)
  /\ receipts' = receipts \cup
       {e \in Events : row[e].status # "completed" /\ row'[e].status = "completed"}

-----------------------------------------------------------------------------
(* Types *)

\* The row and the claim that one step writes are well formed.
LEMMA RowParts ==
  ASSUME TypeOK, NEW e \in Events
  PROVE  /\ row[e] \in OutboxRow
         /\ row[e].attempts \in 0..MaxAttempts
         /\ timer[e] \in Nat
  BY DEF TypeOK, OutboxRow

\* A claim in some worker's hands names an event and a number of attempts.
LEMMA CurrentClaim ==
  ASSUME TypeOK, NEW w \in Workers, NEW c \in Current(w)
  PROVE  /\ c \in claims[w]
         /\ c.event \in Events
         /\ c.token \in 1..MaxAttempts
         /\ c = [event |-> c.event, token |-> c.token]
  BY DEF TypeOK, Current, Claim

\* Init has the types.
LEMMA InitType == Init => TypeOK
  BY OutboxLimits DEF Init, TypeOK, OutboxRow

\* claimBatch keeps the types: what it leases has an attempt left.
LEMMA ClaimBatchType ==
  ASSUME TypeOK, NEW w \in Workers, ClaimBatch(w)
  PROVE  TypeOK'
<1>1. PICK skipped \in SUBSET BusyElsewhere(w) :
        LET rows == FirstOf(Due \ skipped)
            taken == {e \in rows : ~Exhausted(e)}
        IN
        /\ row' = [e \in Events |->
             IF e \in taken
             THEN [status |-> "processing", owner |-> w,
                   attempts |-> row[e].attempts + 1]
             ELSE IF e \in rows
             THEN [row[e] EXCEPT !.status = "dead_letter", !.owner = NoWorker]
             ELSE row[e]]
        /\ timer' = [e \in Events |-> IF e \in taken THEN LeaseTicks ELSE timer[e]]
        /\ claims' = [claims EXCEPT ![w] =
             {[event |-> e, token |-> row[e].attempts + 1] : e \in taken}]
  BY DEF ClaimBatch
<1> DEFINE rows == FirstOf(Due \ skipped)
           taken == {e \in rows : ~Exhausted(e)}
<1>2. rows \subseteq Events /\ taken \subseteq rows
  BY DEF FirstOf, Due
<1>3. \A e \in taken : row[e].attempts + 1 \in 1..MaxAttempts
  BY <1>2, RowParts, OutboxLimits DEF Exhausted
<1>4. row' \in [Events -> OutboxRow]
  <2> SUFFICES ASSUME NEW e \in Events PROVE row'[e] \in OutboxRow
    BY <1>1
  <2>1. CASE e \in taken
    <3>1. row'[e] = [status |-> "processing", owner |-> w,
                     attempts |-> row[e].attempts + 1]
      BY <1>1, <2>1
    <3> QED BY <3>1, <1>3, <2>1, OutboxLimits DEF OutboxRow
  <2>2. CASE e \in rows \ taken
    <3>1. row'[e] = [row[e] EXCEPT !.status = "dead_letter", !.owner = NoWorker]
      BY <1>1, <2>2
    <3> QED BY <3>1, RowParts DEF OutboxRow
  <2>3. CASE e \notin rows
    <3>1. row'[e] = row[e]
      BY <1>1, <1>2, <2>3
    <3> QED BY <3>1, RowParts
  <2> QED BY <2>1, <2>2, <2>3
<1>5. timer' \in [Events -> Nat]
  BY <1>1, OutboxLimits DEF TypeOK
<1>6. {[event |-> e, token |-> row[e].attempts + 1] : e \in taken} \subseteq Claim
  <2>1. \A e \in taken : [event |-> e, token |-> row[e].attempts + 1] \in Claim
    BY <1>2, <1>3 DEF Claim
  <2> HIDE DEF taken
  <2> QED BY <2>1
<1>7. claims' \in [Workers -> SUBSET Claim]
  BY <1>1, <1>6 DEF TypeOK
<1> QED BY <1>4, <1>5, <1>7 DEF TypeOK, ClaimBatch

\* complete and fail keep the types.
LEMMA ProcessType ==
  ASSUME TypeOK, NEW w \in Workers, Process(w)
  PROVE  TypeOK'
<1>1. ASSUME NEW answered \in BOOLEAN, Complete(w, answered) PROVE TypeOK'
  <2>1. PICK c \in Current(w) :
          /\ \/ HoldsLease(w, c) /\ Deliver(c.event)
             \/ UNCHANGED <<row, timer, receipts>>
          /\ IF answered
             THEN claims' = [claims EXCEPT ![w] = @ \ {c}] /\ UNCHANGED failing
             ELSE failing' = failing \cup {w} /\ UNCHANGED claims
    BY <1>1 DEF Complete
  <2>2. row' \in [Events -> OutboxRow] /\ timer' \in [Events -> Nat]
           /\ receipts' \subseteq Events
    BY <2>1, CurrentClaim DEF TypeOK, Deliver, OutboxRow
  <2>3. claims' \in [Workers -> SUBSET Claim] /\ failing' \subseteq Workers
    BY <2>1 DEF TypeOK
  <2> QED BY <2>2, <2>3 DEF TypeOK
<1>2. ASSUME Fail(w) PROVE TypeOK'
  <2>1. PICK c \in Current(w), delivered \in BOOLEAN :
          /\ IF delivered /\ HoldsLease(w, c)
             THEN /\ row' = [row EXCEPT ![c.event].status =
                                 IF Exhausted(c.event) THEN "dead_letter"
                                 ELSE "failed",
                               ![c.event].owner = NoWorker]
                  /\ timer' = [timer EXCEPT ![c.event] = Retry[c.token]]
             ELSE UNCHANGED <<row, timer>>
          /\ claims' = [claims EXCEPT ![w] = @ \ {c}]
    BY <1>2 DEF Fail
  <2>2. Retry[c.token] \in Nat
    BY CurrentClaim, OutboxLimits
  <2>3. row' \in [Events -> OutboxRow] /\ timer' \in [Events -> Nat]
    BY <2>1, <2>2, CurrentClaim DEF TypeOK, OutboxRow
  <2>4. claims' \in [Workers -> SUBSET Claim]
    BY <2>1 DEF TypeOK
  <2> QED BY <2>3, <2>4, <1>2 DEF TypeOK, Fail
<1> QED BY <1>1, <1>2 DEF Process

\* Every step keeps the types.
LEMMA NextType == TypeOK /\ [Next]_vars => TypeOK'
<1> SUFFICES ASSUME TypeOK, [Next]_vars PROVE TypeOK'
  OBVIOUS
<1>1. CASE Post
  BY <1>1 DEF Post, TypeOK, OutboxRow
<1>2. CASE Tick
  BY <1>2 DEF Tick, TypeOK
<1>3. ASSUME NEW w \in Workers, ClaimBatch(w) PROVE TypeOK'
  BY <1>3, ClaimBatchType
<1>4. ASSUME NEW w \in Workers, Process(w) PROVE TypeOK'
  BY <1>4, ProcessType
<1>5. ASSUME NEW w \in Workers, Crash(w) PROVE TypeOK'
  BY <1>5 DEF Crash, TypeOK
<1>6. CASE UNCHANGED vars
  BY <1>6 DEF vars, TypeOK
<1> QED BY <1>1, <1>2, <1>3, <1>4, <1>5, <1>6 DEF Next

-----------------------------------------------------------------------------
(* Every step is a DeliveryStep *)

\* Steps that leave rows and receipts alone.
LEMMA UnchangedRows ==
  ASSUME UNCHANGED <<row, receipts>>
  PROVE  DeliveryStep
  BY DEF DeliveryStep, RowStep

\* claimBatch takes due rows only, and gives up those without attempts left.
LEMMA ClaimBatchRows ==
  ASSUME TypeOK, NEW w \in Workers, ClaimBatch(w)
  PROVE  DeliveryStep
<1>1. PICK skipped \in SUBSET BusyElsewhere(w) :
        LET rows == FirstOf(Due \ skipped)
            taken == {e \in rows : ~Exhausted(e)}
        IN
        row' = [e \in Events |->
             IF e \in taken
             THEN [status |-> "processing", owner |-> w,
                   attempts |-> row[e].attempts + 1]
             ELSE IF e \in rows
             THEN [row[e] EXCEPT !.status = "dead_letter", !.owner = NoWorker]
             ELSE row[e]]
  BY DEF ClaimBatch
<1> DEFINE rows == FirstOf(Due \ skipped)
           taken == {e \in rows : ~Exhausted(e)}
<1>2. ASSUME NEW e \in Events
      PROVE  RowStep(e) /\ ~(row[e].status # "completed" /\ row'[e].status = "completed")
  <2>1. CASE e \in rows
    <3>1. row[e].status \in {"pending", "failed", "processing"} /\ timer[e] = 0
      BY <2>1 DEF FirstOf, Due
    <3>2. CASE e \in taken
      <4>1. row'[e] = [status |-> "processing", owner |-> w,
                       attempts |-> row[e].attempts + 1]
        BY <1>1, <3>2
      <4> QED BY <3>1, <4>1, RowParts, OutboxLimits DEF RowStep, Claimed
    <3>3. CASE e \notin taken
      <4>1. row'[e] = [row[e] EXCEPT !.status = "dead_letter", !.owner = NoWorker]
        BY <1>1, <2>1, <3>3
      <4>2. row[e].attempts = MaxAttempts
        BY <2>1, <3>3, RowParts, OutboxLimits DEF Exhausted
      <4>3. row'[e].status = "dead_letter" /\ row'[e].attempts = MaxAttempts
        BY <4>1, <4>2, RowParts DEF OutboxRow
      <4> QED BY <3>1, <4>3 DEF RowStep, Claimed
    <3> QED BY <3>2, <3>3
  <2>2. CASE e \notin rows
    <3>1. row'[e] = row[e]
      BY <1>1, <2>2
    <3> QED BY <3>1 DEF RowStep
  <2> QED BY <2>1, <2>2
<1>3. receipts' = receipts
  BY DEF ClaimBatch
<1> QED BY <1>2, <1>3 DEF DeliveryStep

\* complete and fail touch a row only under its lease, claim in hand.
LEMMA ProcessRows ==
  ASSUME TypeOK, NEW w \in Workers, Process(w)
  PROVE  DeliveryStep
<1>1. ASSUME NEW c \in Current(w), HoldsLease(w, c)
      PROVE  /\ c.event \in Events
             /\ row[c.event] \in OutboxRow
             /\ row[c.event].status = "processing"
             /\ [event |-> c.event, token |-> row[c.event].attempts]
                  \in claims[row[c.event].owner]
  BY <1>1, CurrentClaim, RowParts DEF HoldsLease
<1>2. ASSUME NEW c \in Current(w), HoldsLease(w, c), Deliver(c.event)
      PROVE  DeliveryStep
  <2> DEFINE d == c.event
  <2>1. row'[d].status = "completed"
    BY <1>1, <1>2 DEF Deliver, TypeOK, OutboxRow
  <2>2. \A e \in Events \ {d} : row'[e] = row[e]
    BY <1>1, <1>2 DEF Deliver, TypeOK
  <2>3. \A e \in Events : RowStep(e)
    BY <1>1, <1>2, <2>1, <2>2 DEF RowStep, Settled
  <2>4. {e \in Events : row[e].status # "completed" /\ row'[e].status = "completed"}
          = {d}
    BY <1>1, <1>2, <2>1, <2>2
  <2>5. receipts' = receipts \cup {d}
    BY <1>2 DEF Deliver
  <2> HIDE DEF d
  <2> QED BY <2>3, <2>4, <2>5 DEF DeliveryStep
<1>3. ASSUME NEW answered \in BOOLEAN, Complete(w, answered) PROVE DeliveryStep
  <2>1. PICK c \in Current(w) : \/ HoldsLease(w, c) /\ Deliver(c.event)
                                \/ UNCHANGED <<row, timer, receipts>>
    BY <1>3 DEF Complete
  <2> QED BY <2>1, <1>2, UnchangedRows
<1>4. ASSUME Fail(w) PROVE DeliveryStep
  <2>1. PICK c \in Current(w), delivered \in BOOLEAN :
          IF delivered /\ HoldsLease(w, c)
          THEN row' = [row EXCEPT ![c.event].status =
                           IF Exhausted(c.event) THEN "dead_letter" ELSE "failed",
                         ![c.event].owner = NoWorker]
          ELSE UNCHANGED <<row, timer>>
    BY <1>4 DEF Fail
  <2>2. receipts' = receipts
    BY <1>4 DEF Fail
  <2>3. CASE delivered /\ HoldsLease(w, c)
    <3> DEFINE d == c.event
               outcome == IF Exhausted(d) THEN "dead_letter" ELSE "failed"
    <3>1. row' = [row EXCEPT ![d] = [row[d] EXCEPT !.status = outcome,
                                                   !.owner = NoWorker]]
      BY <2>1, <2>3, <1>1 DEF TypeOK
    <3>2. row'[d] = [row[d] EXCEPT !.status = outcome, !.owner = NoWorker]
      BY <1>1, <2>3, <3>1 DEF TypeOK
    <3>3. row'[d].status = outcome /\ row'[d].attempts = row[d].attempts
      BY <1>1, <2>3, <3>2 DEF OutboxRow
    <3>4. outcome = "dead_letter" => row[d].attempts = MaxAttempts
      <4>1. row[d].attempts \in 0..MaxAttempts
        BY <1>1, <2>3, RowParts
      <4>2. Exhausted(d) => row[d].attempts = MaxAttempts
        BY <4>1, OutboxLimits DEF Exhausted
      <4> QED BY <4>2
    <3>5. outcome \in {"failed", "dead_letter"}
      OBVIOUS
    <3>6. \A e \in Events \ {d} : row'[e] = row[e]
      BY <1>1, <2>3, <3>1 DEF TypeOK
    <3> HIDE DEF outcome
    <3>7. RowStep(d)
      BY <1>1, <2>3, <3>3, <3>4, <3>5 DEF RowStep, Settled
    <3>8. \A e \in Events : RowStep(e)
      BY <3>6, <3>7 DEF RowStep
    <3>9. \A e \in Events : ~(row[e].status # "completed" /\ row'[e].status = "completed")
      BY <3>3, <3>5, <3>6
    <3> QED BY <2>2, <3>8, <3>9 DEF DeliveryStep
  <2>4. CASE ~(delivered /\ HoldsLease(w, c))
    BY <2>1, <2>2, <2>4, UnchangedRows
  <2> QED BY <2>3, <2>4
<1> QED BY <1>3, <1>4 DEF Process

\* Every step is a DeliveryStep.
LEMMA NextDelivers == TypeOK /\ [Next]_vars => DeliveryStep
<1> SUFFICES ASSUME TypeOK, [Next]_vars PROVE DeliveryStep
  OBVIOUS
<1>1. CASE Post
  <2>1. PICK d \in Events : row[d].status = "none"
                              /\ row' = [row EXCEPT ![d].status = "pending"]
    BY <1>1 DEF Post
  <2>2. row'[d] = [row[d] EXCEPT !.status = "pending"]
    BY <2>1 DEF TypeOK
  <2>3. \A e \in Events \ {d} : row'[e] = row[e]
    BY <2>1 DEF TypeOK
  <2>4. row'[d].status = "pending"
    BY <2>2, RowParts DEF OutboxRow
  <2>5. \A e \in Events : RowStep(e)
    BY <2>1, <2>2, <2>3 DEF RowStep, Posted
  <2>6. receipts' = receipts
    BY <1>1 DEF Post
  <2> QED BY <2>3, <2>4, <2>5, <2>6 DEF DeliveryStep
<1>2. CASE Tick
  BY <1>2, UnchangedRows DEF Tick
<1>3. ASSUME NEW w \in Workers, Crash(w) PROVE DeliveryStep
  BY <1>3, UnchangedRows DEF Crash
<1>4. CASE UNCHANGED vars
  BY <1>4, UnchangedRows DEF vars
<1> QED BY <1>1, <1>2, <1>3, <1>4, ClaimBatchRows, ProcessRows DEF Next

-----------------------------------------------------------------------------
(* The theorems *)

\* The inductive invariant.
OutboxInv == TypeOK /\ ReceiptIffCompleted /\ GivenUpLast

\* Init establishes it.
LEMMA InitOutbox == Init => OutboxInv
  BY InitType DEF Init, OutboxInv, ReceiptIffCompleted, GivenUpLast

\* Every step keeps it.
LEMMA NextOutbox == OutboxInv /\ [Next]_vars => OutboxInv'
<1> SUFFICES ASSUME OutboxInv, [Next]_vars PROVE OutboxInv'
  OBVIOUS
<1>1. TypeOK /\ TypeOK' /\ DeliveryStep
  BY NextType, NextDelivers DEF OutboxInv
<1>2. ReceiptIffCompleted'
  <2>1. \A e \in Events : row[e].status = "completed" => row'[e] = row[e]
    BY <1>1 DEF DeliveryStep, RowStep, Posted, Claimed, Settled
  <2> QED BY <1>1, <2>1 DEF OutboxInv, ReceiptIffCompleted, DeliveryStep
<1>3. GivenUpLast'
  <2> SUFFICES ASSUME NEW e \in Events, row'[e].status = "dead_letter"
               PROVE  row'[e].attempts = MaxAttempts
    BY DEF GivenUpLast
  <2>1. CASE row'[e] = row[e]
    BY <2>1 DEF OutboxInv, GivenUpLast
  <2>2. CASE Posted(e)
    <3>1. row'[e].status = "pending"
      BY <1>1, <2>2, RowParts DEF Posted, OutboxRow
    <3> QED BY <3>1
  <2> QED BY <1>1, <2>1, <2>2 DEF DeliveryStep, RowStep, Claimed, Settled
<1> QED BY <1>1, <1>2, <1>3 DEF OutboxInv

\* The tables keep their types (EconomicOutboxService).
THEOREM OutboxTypeCorrect == Spec => []TypeOK
<1>1. Init => TypeOK
  BY InitType
<1>2. TypeOK /\ [Next]_vars => TypeOK'
  BY NextType
<1> QED BY <1>1, <1>2, PTL DEF Spec

\* The consumer has a receipt exactly for the completed rows, and a row is
\* given up only after its last attempt, whatever workers crash, outlive
\* their leases or lose answers (claimBatch, complete, fail).
THEOREM DeliveryCorrect == Spec => [](ReceiptIffCompleted /\ GivenUpLast)
<1>1. OutboxInv => ReceiptIffCompleted /\ GivenUpLast
  BY DEF OutboxInv
<1> QED BY <1>1, InitOutbox, NextOutbox, PTL DEF Spec

\* No step changes a completed or given-up row: a late worker is fenced off
\* (the lease predicates of complete, fail and claimBatch).
THEOREM OutcomesStand == Spec => OutcomeIsFinal
<1>1. TypeOK /\ [Next]_vars =>
        [\A e \in Events :
           row[e].status \in {"completed", "dead_letter"} => row'[e] = row[e]]_vars
  BY NextDelivers DEF DeliveryStep, RowStep, Posted, Claimed, Settled
<1> QED BY <1>1, OutboxTypeCorrect, PTL DEF Spec, OutcomeIsFinal

\* A running lease is respected by every other worker: the row changes only
\* when the worker that holds lease and claim settles it.
THEOREM LeasesHold == Spec => LeaseIsExclusive
<1>1. ASSUME TypeOK, [Next]_vars, NEW e \in Events,
             row[e].status = "processing", timer[e] > 0, row'[e] # row[e]
      PROVE  /\ row'[e].status # "processing"
             /\ [event |-> e, token |-> row[e].attempts] \in claims[row[e].owner]
  <2>1. RowStep(e)
    BY <1>1, NextDelivers DEF DeliveryStep
  <2>2. ~Claimed(e)
    BY <1>1, RowParts DEF Claimed
  <2>3. Settled(e)
    BY <1>1, <2>1, <2>2 DEF RowStep, Posted
  <2> QED BY <2>3 DEF Settled
<1>2. TypeOK /\ [Next]_vars =>
        [\A e \in Events :
           row[e].status = "processing" /\ timer[e] > 0 /\ row'[e] # row[e] =>
             /\ row'[e].status # "processing"
             /\ [event |-> e, token |-> row[e].attempts] \in claims[row[e].owner]
        ]_vars
  BY <1>1
<1> QED BY <1>2, OutboxTypeCorrect, PTL DEF Spec, LeaseIsExclusive

\* Whoever works on a row has the right to: outcomes stand and running leases
\* are respected (claimBatch, complete, fail).
THEOREM LeasesCorrect == Spec => LeasesRespected
  BY OutcomesStand, LeasesHold DEF LeasesRespected

-----------------------------------------------------------------------------
(* Pushes: days and claimed rows *)

LEMMA PushNumbers ==
  /\ LastThird \in Nat /\ DayCap \in Nat /\ SendTries \in Nat \ {0} /\ SendLimit \in Nat \ {0}
  /\ CategoryCap \in [Categories -> Nat] /\ IsFiniteSet(Pushes)
  /\ NoDispatcher \notin Dispatchers /\ {"account", "weekly_recap"} \subseteq Categories
  BY PushCaps

LEMMA Days ==
  ASSUME NEW t \in Nat, NEW u \in Nat, t <= u
  PROVE  Day(t) \in Nat /\ Day(u) \in Nat /\ Day(t) <= Day(u)
  BY SMT DEF Day

LEMMA Mornings ==
  ASSUME NEW t \in Nat, t <= LastThird
  PROVE  NextMorning(t) \in 0..(LastThird + 2) /\ t \in 0..(LastThird + 2)
  BY PushNumbers, SMT DEF NextMorning

Common == Categories \ {"account"}

\* The pushes of some categories sent on a day.
SentOn(day, categories) ==
  {p \in Pushes : push[p].status = "sent" /\ push[p].sentOn = day /\ push[p].category \in categories}

CapsHold ==
  \A day \in 0..Day(LastThird) :
    /\ Cardinality(SentOn(day, Common)) <= DayCap
    /\ \A c \in Common \ {"weekly_recap"} : Cardinality(SentOn(day, {c})) <= CategoryCap[c]

\* Nothing reached the traveler but what is sent, or being sent.
RowsTruthful ==
  \A p \in Pushes :
    /\ reached[p] <= 1
    /\ push[p].status = "sent" => reached[p] = 1
    /\ push[p].status \notin {"sending", "sent"} => reached[p] = 0
    /\ push[p].status = "queued" => push[p].tries < SendTries

\* Only the dispatcher with the lock is at work; what it claimed has not reached
\* the traveler, and what it is about to send is within the caps.
AtWork(d) ==
  /\ lockHolder = d
  /\ \A p \in dispatch[d].todo : push[p].status = "sending" /\ reached[p] = 0
  /\ dispatch[d].since <= Day(third)
  /\ dispatch[d].pc \in {"check", "send", "record"} =>
       /\ dispatch[d].push \in Pushes \ dispatch[d].todo
       /\ push[dispatch[d].push].status = "sending"
       /\ reached[dispatch[d].push] =
            IF dispatch[d].pc = "record" /\ dispatch[d].delivered THEN 1 ELSE 0
  /\ dispatch[d].pc \in {"send", "record"} =>
       ~OverCap(push[dispatch[d].push].category, dispatch[d].since)

DispatchersOK == \A d \in Dispatchers : dispatch[d].pc = "off" \/ AtWork(d)

PushInv == PushTypeOK /\ RowsTruthful /\ CapsHold /\ DispatchersOK

\* No row becomes, or was, a sent one.
Steady ==
  \A p \in Pushes :
    push'[p] = push[p] \/ (push[p].status # "sent" /\ push'[p].status # "sent")

LEMMA SentStays ==
  ASSUME Steady
  PROVE  /\ \A day, categories : SentOn(day, categories)' = SentOn(day, categories)
         /\ \A category, day : OverCap(category, day)' = OverCap(category, day)
         /\ CapsHold => CapsHold'
  <1>1. \A day, categories : SentOn(day, categories)' = SentOn(day, categories)
    BY DEF Steady, SentOn
  <1>2. \A day, categories : SentSince(day, categories)' = SentSince(day, categories)
    <2>. TAKE day, categories
    <2>1. {p \in WithStatus("sent") : push[p].category \in categories /\ push[p].sentOn >= day}'
            = {p \in WithStatus("sent") : push[p].category \in categories /\ push[p].sentOn >= day}
      BY DEF Steady, WithStatus
    <2>. QED  BY <2>1 DEF SentSince
  <1>3. \A category, day : OverCap(category, day)' = OverCap(category, day)
    BY <1>2 DEF OverCap
  <1>. QED  BY <1>1, <1>3 DEF CapsHold

\* One more push is sent today by a tick that found it within the caps.
LEMMA SendingIsWithinCaps ==
  ASSUME PushTypeOK, CapsHold, NEW p \in Pushes, push[p].status = "sending",
         NEW since \in Nat, since <= Day(third), ~OverCap(push[p].category, since),
         push' = [push EXCEPT ![p] = [push[p] EXCEPT !.status = "sent", !.sentOn = Day(third)]]
  PROVE  CapsHold'
  <1>0. PICK today, mine : today = Day(third) /\ mine = push[p].category
    OBVIOUS
  <1>1. /\ push'[p].status = "sent" /\ push'[p].sentOn = today /\ push'[p].category = mine
        /\ \A q \in Pushes : q # p => push'[q] = push[q]
    BY <1>0 DEF PushTypeOK, PushRow
  <1>2. \A q \in Pushes : push[q].sentOn \in Nat /\ push[q].category \in Categories
    <2>1. Day(LastThird) \in Nat
      BY PushNumbers, Days
    <2>2. \A q \in Pushes : push[q] \in PushRow
      BY DEF PushTypeOK
    <2>3. \A entry \in PushRow : entry.sentOn \in 0..Day(LastThird) /\ entry.category \in Categories
      BY DEF PushRow
    <2>. QED  BY <2>1, <2>2, <2>3
  <1>3. today \in Nat
    BY <1>0, PushNumbers, Days DEF PushTypeOK
  <1>4. ASSUME NEW categories, NEW day \in Nat
        PROVE  SentOn(day, categories)' =
                 IF day = today /\ mine \in categories
                 THEN SentOn(day, categories) \cup {p} ELSE SentOn(day, categories)
    BY <1>1 DEF SentOn
  <1>5. ASSUME NEW categories
        PROVE  Cardinality(SentOn(today, categories)) <= SentSince(since, categories)
    <2>. DEFINE S == {q \in WithStatus("sent") : push[q].category \in categories
                                                 /\ push[q].sentOn >= since}
    <2>1. SentOn(today, categories) \subseteq S /\ S \subseteq Pushes
      BY <1>0, <1>2, <1>3 DEF SentOn, WithStatus
    <2>2. Cardinality(SentOn(today, categories)) <= Cardinality(S)
      BY <2>1, PushNumbers, FS_Subset
    <2>. QED  BY <2>2 DEF SentSince
  <1>6. ASSUME NEW categories, NEW cap \in Nat, mine \in categories,
               ~(SentSince(since, categories) >= cap)
        PROVE  Cardinality(SentOn(today, categories)') <= cap
    <2>1. SentOn(today, categories)' = SentOn(today, categories) \cup {p}
      BY <1>3, <1>4, <1>6
    <2>2. IsFiniteSet(SentOn(today, categories)) /\ p \notin SentOn(today, categories)
      <3>1. SentOn(today, categories) \subseteq Pushes
        BY DEF SentOn
      <3>. QED  BY <3>1, PushNumbers, FS_Subset DEF SentOn
    <2>3. Cardinality(SentOn(today, categories)') = Cardinality(SentOn(today, categories)) + 1
      BY <2>1, <2>2, FS_AddElement
    <2>4. SentSince(since, categories) \in Nat
      <3>1. {q \in WithStatus("sent") : push[q].category \in categories /\ push[q].sentOn >= since}
              \subseteq Pushes
        BY DEF WithStatus
      <3>. QED  BY <3>1, PushNumbers, FS_Subset, FS_CardinalityType DEF SentSince
    <2>5. Cardinality(SentOn(today, categories)) \in Nat
      BY <2>2, FS_CardinalityType
    <2>. QED  BY <1>5, <1>6, <2>3, <2>4, <2>5
  <1>7. ASSUME NEW day \in Nat, NEW categories
        PROVE  \/ SentOn(day, categories)' = SentOn(day, categories)
               \/ day = today /\ mine \in categories
    BY <1>4
  <1>8. ASSUME NEW day \in 0..Day(LastThird)
        PROVE  Cardinality(SentOn(day, Common)') <= DayCap
    <2>1. day \in Nat
      OBVIOUS
    <2>2. CASE day = today /\ mine \in Common
      <3>1. ~(SentSince(since, Common) >= DayCap)
        BY <1>0, <2>2 DEF OverCap, Common
      <3>. QED  BY <1>6, <2>2, <3>1, PushNumbers
    <2>. QED  BY <1>7, <1>8, <2>1, <2>2 DEF CapsHold
  <1>9. ASSUME NEW day \in 0..Day(LastThird), NEW c \in Common \ {"weekly_recap"}
        PROVE  Cardinality(SentOn(day, {c})') <= CategoryCap[c]
    <2>1. day \in Nat
      OBVIOUS
    <2>2. CASE day = today /\ mine \in {c}
      <3>1. ~(SentSince(since, {c}) >= CategoryCap[c]) /\ CategoryCap[c] \in Nat
        BY <1>0, <2>2, PushNumbers DEF OverCap, Common
      <3>. QED  BY <1>6, <2>2, <3>1
    <2>. QED  BY <1>7, <1>9, <2>1, <2>2 DEF CapsHold
  <1>. QED  BY <1>8, <1>9 DEF CapsHold

\* The clock only goes on, so a tick's day is never ahead of it.
LEMMA DispatchersStay ==
  ASSUME DispatchersOK, PushTypeOK, UNCHANGED <<dispatch, lockHolder>>, third' \in Nat, third <= third',
         Steady,
         \A p \in Pushes : push[p].status = "sending" =>
           push'[p] = push[p] /\ reached'[p] = reached[p]
  PROVE  DispatchersOK'
  <1>1. \A category, day : OverCap(category, day)' = OverCap(category, day)
    BY SentStays
  <1>2. Day(third) \in Nat /\ Day(third') \in Nat /\ Day(third) <= Day(third')
    BY PushNumbers, Days DEF PushTypeOK
  <1>3. ASSUME NEW d \in Dispatchers, AtWork(d)
        PROVE  AtWork(d)'
    <2>1. dispatch[d].todo \subseteq Pushes /\ dispatch[d].since \in Nat
      <3>1. Day(LastThird) \in Nat
        BY PushNumbers, Days
      <3>. QED  BY <3>1 DEF PushTypeOK, DispatchState
    <2>2. dispatch'[d].since <= Day(third')
      BY <1>2, <1>3, <2>1 DEF AtWork
    <2>3. dispatch[d].pc \in {"send", "record"} =>
            ~OverCap(push[dispatch[d].push].category, dispatch[d].since)'
      <3>1. PICK category, since : category = push[dispatch[d].push].category
                                   /\ since = dispatch[d].since
        OBVIOUS
      <3>2. dispatch[d].pc \in {"send", "record"} =>
              push'[dispatch'[d].push].category = category /\ dispatch'[d].since = since
        BY <1>3, <3>1 DEF AtWork
      <3>3. OverCap(category, since)' = OverCap(category, since)
        BY <1>1
      <3>. QED  BY <1>3, <3>1, <3>2, <3>3 DEF AtWork
    <2>. QED  BY <1>3, <2>1, <2>2, <2>3 DEF AtWork
  <1>. QED  BY <1>3 DEF DispatchersOK

\* Only one dispatcher is at work.
LEMMA OneAtWork ==
  ASSUME DispatchersOK, NEW d \in Dispatchers, dispatch[d].pc # "off" \/ lockHolder = NoDispatcher,
         NEW e \in Dispatchers, e # d
  PROVE  dispatch[e].pc = "off"
  BY PushNumbers DEF DispatchersOK, AtWork

\* A step of the dispatcher at work.
LEMMA WorkGoesOn ==
  ASSUME DispatchersOK, NEW d \in Dispatchers, dispatch[d].pc # "off" \/ lockHolder = NoDispatcher,
         NEW state \in DispatchState, PushTypeOK, Becomes(d, state),
         state.pc = "off" \/ AtWork(d)'
  PROVE  DispatchersOK'
  <1>1. dispatch'[d] = state /\ \A e \in Dispatchers : e # d => dispatch'[e] = dispatch[e]
    BY DEF Becomes, PushTypeOK
  <1>2. \A e \in Dispatchers : e # d => dispatch'[e].pc = "off"
    BY <1>1, OneAtWork
  <1>. QED  BY <1>1, <1>2 DEF DispatchersOK

LEMMA EnqueueKeeps ==
  ASSUME PushInv, NEW p \in Pushes, NEW category \in Categories, NEW key \in Keys,
         EnqueuePush(p, category, key)
  PROVE  PushInv'
  <1>1. Day(LastThird) \in Nat /\ third \in Nat /\ third <= LastThird /\ 0 \in 0..SendTries
    BY PushNumbers, Days DEF PushInv, PushTypeOK
  <1>2. PICK entry \in PushRow :
          /\ push' = [push EXCEPT ![p] = entry]
          /\ entry.status \in {"skipped", "queued"} /\ entry.tries = 0
    <2>1. PICK due : due = IF quietHours /\ IsQuiet(third) THEN NextMorning(third) ELSE third
      OBVIOUS
    <2>2. due \in 0..(LastThird + 2) /\ third \in 0..(LastThird + 2) /\ 0 \in 0..Day(LastThird)
      BY <1>1, <2>1, Mornings
    <2>3. /\ NewRow(category, key, "skipped", "PREF_OFF", third) \in PushRow
          /\ NewRow(category, key, "skipped", "CAP_REACHED", third) \in PushRow
          /\ NewRow(category, key, "queued", "", due) \in PushRow
      BY <1>1, <2>2 DEF NewRow, PushRow
    <2>4. push' = [push EXCEPT ![p] =
              IF category # "account" /\ category \in optedOut
              THEN NewRow(category, key, "skipped", "PREF_OFF", third)
              ELSE IF category # "account" /\ OverCap(category, Day(third))
              THEN NewRow(category, key, "skipped", "CAP_REACHED", third)
              ELSE NewRow(category, key, "queued", "", due)]
      BY <2>1 DEF EnqueuePush
    <2>. QED  BY <2>3, <2>4 DEF NewRow
  <1>3. push[p].status = "none" /\ UNCHANGED <<third, reached, settings, lockHolder, dispatch>>
    BY DEF EnqueuePush
  <1>4. /\ push' \in [Pushes -> PushRow] /\ push'[p] = entry
        /\ \A q \in Pushes : q # p => push'[q] = push[q]
    BY <1>2 DEF PushInv, PushTypeOK
  <1>5. Steady
    BY <1>2, <1>3, <1>4 DEF Steady
  <1>6. PushTypeOK'
    BY <1>3, <1>4 DEF PushInv, PushTypeOK, settings
  <1>7. RowsTruthful'
    BY <1>2, <1>3, <1>4, PushNumbers DEF PushInv, RowsTruthful
  <1>8. CapsHold'
    BY <1>5, SentStays DEF PushInv
  <1>9. DispatchersOK'
    BY <1>1, <1>3, <1>4, <1>5, DispatchersStay DEF PushInv
  <1>. QED  BY <1>6, <1>7, <1>8, <1>9 DEF PushInv

LEMMA SettingsKeep ==
  ASSUME PushInv,
         \/ \E off \in SUBSET (Categories \ {"account"}), quiet \in BOOLEAN : SetPreferences(off, quiet)
         \/ \E registered \in BOOLEAN : SetDevice(registered)
         \/ ThirdPasses
  PROVE  PushInv'
  <1>1. UNCHANGED <<push, reached, lockHolder, dispatch>>
    BY DEF SetPreferences, SetDevice, ThirdPasses
  <1>2. third \in Nat /\ third' \in 0..LastThird /\ third <= third'
    BY PushNumbers DEF PushInv, PushTypeOK, SetPreferences, SetDevice, ThirdPasses
  <1>3. PushTypeOK'
    BY <1>1, <1>2 DEF PushInv, PushTypeOK, SetPreferences, SetDevice, ThirdPasses, settings
  <1>4. Steady /\ RowsTruthful'
    BY <1>1 DEF PushInv, Steady, RowsTruthful
  <1>5. CapsHold' /\ DispatchersOK'
    BY <1>1, <1>2, <1>4, SentStays, DispatchersStay DEF PushInv
  <1>. QED  BY <1>3, <1>4, <1>5 DEF PushInv

LEMMA StartKeeps ==
  ASSUME PushInv, NEW d \in Dispatchers, StartTick(d)
  PROVE  PushInv'
  <1>1. Day(third) \in Nat /\ Day(third) <= Day(LastThird) /\ Day(LastThird) \in Nat
    BY PushNumbers, Days DEF PushInv, PushTypeOK
  <1>2. PICK state : state = [AtRest EXCEPT !.pc = "claim", !.since = Day(third)]
    OBVIOUS
  <1>3. /\ state \in DispatchState /\ state.pc = "claim" /\ state.since = Day(third)
        /\ state.todo = {}
    <2>1. PICK since \in 0..Day(LastThird) : since = Day(third)
      BY <1>1
    <2>. QED  BY <1>2, <2>1 DEF AtRest, DispatchState
  <1>4. Becomes(d, state) /\ lockHolder' = d /\ lockHolder = NoDispatcher
        /\ UNCHANGED <<third, push, reached, settings>>
    BY <1>2 DEF StartTick, MayTick
  <1>5. PushTypeOK'
    BY <1>3, <1>4 DEF PushInv, PushTypeOK, Becomes, settings
  <1>6. Steady /\ RowsTruthful'
    BY <1>4 DEF PushInv, Steady, RowsTruthful
  <1>7. AtWork(d)'
    BY <1>1, <1>3, <1>4 DEF PushInv, PushTypeOK, AtWork, Becomes
  <1>8. DispatchersOK' /\ CapsHold'
    BY <1>3, <1>4, <1>6, <1>7, WorkGoesOn, SentStays DEF PushInv
  <1>. QED  BY <1>5, <1>6, <1>8 DEF PushInv

LEMMA ClaimKeeps ==
  ASSUME PushInv, NEW d \in Dispatchers, NEW some \in SUBSET Pushes, ClaimPushes(d, some)
  PROVE  PushInv'
  <1>1. AtWork(d) /\ dispatch[d] \in DispatchState
    BY DEF PushInv, DispatchersOK, PushTypeOK, ClaimPushes, Doing
  <1>2. PICK state : state = [dispatch[d] EXCEPT !.pc = "next", !.todo = some]
    OBVIOUS
  <1>3. /\ state \in DispatchState /\ state.pc = "next" /\ state.since = dispatch[d].since
        /\ state.todo = some
    BY <1>1, <1>2 DEF DispatchState
  <1>4. Becomes(d, state) /\ UNCHANGED <<third, reached, settings, lockHolder>>
    BY <1>2 DEF ClaimPushes
  <1>5. \A p \in some : push[p].status = "queued" /\ push[p].tries < SendTries
    BY DEF ClaimPushes, DueNow, WithStatus, PushInv, RowsTruthful
  <1>6. /\ push' \in [Pushes -> PushRow]
        /\ \A p \in some : push'[p].status = "sending"
        /\ \A p \in Pushes \ some : push'[p] = push[p]
    <2>1. ASSUME NEW p \in some
          PROVE  LET entry == [push[p] EXCEPT !.status = "sending", !.tries = @ + 1]
                 IN  entry \in PushRow /\ entry.status = "sending"
      <3>0. push[p] \in PushRow /\ push[p].tries < SendTries
        BY <1>5, <2>1 DEF PushInv, PushTypeOK
      <3>1. push[p].tries + 1 \in 0..SendTries /\ push[p] \in PushRow
        <4>1. \A entry \in PushRow : entry.tries \in 0..SendTries
          BY DEF PushRow
        <4>. QED  BY <3>0, <4>1, PushNumbers
      <3>2. PICK tries \in 0..SendTries : tries = push[p].tries + 1
        BY <3>1
      <3>3. [push[p] EXCEPT !.status = "sending", !.tries = tries] \in PushRow
            /\ [push[p] EXCEPT !.status = "sending", !.tries = tries].status = "sending"
        BY <3>1 DEF PushRow
      <3>. QED  BY <3>2, <3>3
    <2>. QED  BY <2>1 DEF ClaimPushes, PushInv, PushTypeOK
  <1>7. PushTypeOK'
    BY <1>3, <1>4, <1>6 DEF PushInv, PushTypeOK, Becomes, settings
  <1>8. Steady
    BY <1>5, <1>6 DEF Steady
  <1>9. RowsTruthful'
    BY <1>4, <1>5, <1>6 DEF PushInv, RowsTruthful
  <1>10. AtWork(d)'
    <2>1. \A p \in some : reached[p] = 0
      BY <1>5 DEF PushInv, RowsTruthful
    <2>. QED  BY <1>1, <1>3, <1>4, <1>6, <2>1 DEF PushInv, PushTypeOK, AtWork, Becomes
  <1>11. DispatchersOK' /\ CapsHold'
    BY <1>3, <1>4, <1>8, <1>10, WorkGoesOn, SentStays DEF PushInv, ClaimPushes, Doing
  <1>. QED  BY <1>7, <1>9, <1>11 DEF PushInv

LEMMA NextKeeps ==
  ASSUME PushInv, NEW d \in Dispatchers, NEW p \in Pushes, NextPush(d, p)
  PROVE  PushInv'
  <1>1. AtWork(d) /\ dispatch[d] \in DispatchState /\ p \in dispatch[d].todo
    BY DEF PushInv, DispatchersOK, PushTypeOK, NextPush, Doing
  <1>2. PICK state : state = [dispatch[d] EXCEPT !.pc = "check", !.push = p, !.todo = @ \ {p}]
    OBVIOUS
  <1>3. /\ state \in DispatchState /\ state.pc = "check" /\ state.since = dispatch[d].since
        /\ state.todo = dispatch[d].todo \ {p} /\ state.push = p
    BY <1>1, <1>2 DEF DispatchState
  <1>4. Becomes(d, state) /\ UNCHANGED <<third, push, reached, settings, lockHolder>>
    BY <1>2 DEF NextPush
  <1>5. PushTypeOK' /\ Steady /\ RowsTruthful'
    BY <1>3, <1>4 DEF PushInv, PushTypeOK, Becomes, settings, Steady, RowsTruthful
  <1>6. AtWork(d)'
    BY <1>1, <1>3, <1>4 DEF PushInv, PushTypeOK, AtWork, Becomes
  <1>7. DispatchersOK' /\ CapsHold'
    BY <1>3, <1>4, <1>5, <1>6, WorkGoesOn, SentStays DEF PushInv, NextPush, Doing
  <1>. QED  BY <1>5, <1>7 DEF PushInv

LEMMA StopKeeps ==
  ASSUME PushInv, NEW d \in Dispatchers, EndTick(d) \/ TickStops(d)
  PROVE  PushInv'
  <1>1. AtRest \in DispatchState /\ AtRest.pc = "off"
    <2>1. Day(LastThird) \in Nat
      BY PushNumbers, Days
    <2>. QED  BY <2>1 DEF AtRest, DispatchState
  <1>2. /\ Becomes(d, AtRest) /\ UNCHANGED <<third, push, reached, settings>>
        /\ dispatch[d].pc # "off" /\ lockHolder' \in Dispatchers \cup {NoDispatcher}
    BY DEF EndTick, TickStops, Doing, PushInv, PushTypeOK
  <1>3. PushTypeOK' /\ Steady /\ RowsTruthful'
    BY <1>1, <1>2 DEF PushInv, PushTypeOK, Becomes, settings, Steady, RowsTruthful
  <1>4. DispatchersOK' /\ CapsHold'
    BY <1>1, <1>2, <1>3, WorkGoesOn, SentStays DEF PushInv
  <1>. QED  BY <1>3, <1>4 DEF PushInv

LEMMA CheckKeeps ==
  ASSUME PushInv, NEW d \in Dispatchers, CheckPush(d)
  PROVE  PushInv'
  <1>. DEFINE p == dispatch[d].push
  <1>1. AtWork(d) /\ dispatch[d] \in DispatchState /\ p \in Pushes \ dispatch[d].todo
        /\ push[p].status = "sending" /\ reached[p] = 0 /\ push[p] \in PushRow
        /\ dispatch[d].pc = "check"
    BY DEF PushInv, DispatchersOK, AtWork, PushTypeOK, CheckPush, Doing
  <1>2. PICK reason : reason = Refusal(d, push[p])
    OBVIOUS
  <1>3. reason \in {"", "PREF_OFF", "CAP_REACHED", "NO_DEVICE"}
        /\ (reason = "" => ~OverCap(push[p].category, dispatch[d].since))
    BY <1>2 DEF Refusal
  <1>4. PICK state : state = [dispatch[d] EXCEPT !.pc = IF reason = "" THEN "send" ELSE "next"]
    OBVIOUS
  <1>5. /\ state \in DispatchState /\ state.pc = (IF reason = "" THEN "send" ELSE "next")
        /\ state.since = dispatch[d].since /\ state.todo = dispatch[d].todo /\ state.push = p
    BY <1>1, <1>4 DEF DispatchState
  <1>6. /\ Becomes(d, state) /\ UNCHANGED <<third, reached, settings, lockHolder>>
        /\ push' = IF reason = "" THEN push
                   ELSE [push EXCEPT ![p].status = "skipped", ![p].reason = reason]
    BY <1>2, <1>4 DEF CheckPush
  <1>7. /\ push' \in [Pushes -> PushRow] /\ \A q \in Pushes : q # p => push'[q] = push[q]
        /\ reason = "" => push' = push
        /\ reason # "" => push'[p].status = "skipped"
    <2>1. PICK entry : entry = [push[p] EXCEPT !.status = "skipped", !.reason = reason]
      OBVIOUS
    <2>2. entry \in PushRow /\ entry.status = "skipped"
      BY <1>1, <1>3, <2>1 DEF PushRow
    <2>3. reason # "" => push' = [push EXCEPT ![p] = entry]
      BY <1>1, <1>6, <2>1 DEF PushInv, PushTypeOK
    <2>. QED  BY <1>1, <1>6, <2>2, <2>3 DEF PushInv, PushTypeOK
  <1>8. PushTypeOK'
    BY <1>5, <1>6, <1>7 DEF PushInv, PushTypeOK, Becomes, settings
  <1>9. Steady /\ RowsTruthful'
    BY <1>1, <1>6, <1>7 DEF PushInv, Steady, RowsTruthful
  <1>10. AtWork(d)'
    <2>1. reason = "" => ~OverCap(push[dispatch[d].push].category, dispatch[d].since)'
      <3>1. PICK category, since : category = push[p].category /\ since = dispatch[d].since
        OBVIOUS
      <3>2. OverCap(category, since)' = OverCap(category, since)
        BY <1>9, SentStays
      <3>3. reason = "" => /\ push'[dispatch'[d].push].category = category
                           /\ dispatch'[d].since = since
        BY <1>5, <1>6, <1>7, <3>1 DEF PushInv, PushTypeOK, Becomes
      <3>. QED  BY <1>3, <3>1, <3>2, <3>3
    <2>2. dispatch'[d] = state
      BY <1>6 DEF PushInv, PushTypeOK, Becomes
    <2>3. /\ \A q \in dispatch'[d].todo : push'[q].status = "sending" /\ reached'[q] = 0
          /\ dispatch'[d].since <= Day(third') /\ lockHolder' = d
      BY <1>1, <1>5, <1>6, <1>7, <2>2 DEF AtWork, PushInv, PushTypeOK, DispatchState
    <2>4. dispatch'[d].pc \in {"check", "send", "record"} =>
            /\ reason = ""
            /\ dispatch'[d].push \in Pushes \ dispatch'[d].todo
            /\ push'[dispatch'[d].push].status = "sending"
            /\ reached'[dispatch'[d].push] = 0 /\ dispatch'[d].pc = "send"
      BY <1>1, <1>5, <1>6, <1>7, <2>2
    <2>. QED  BY <2>1, <2>3, <2>4 DEF AtWork
  <1>11. DispatchersOK' /\ CapsHold'
    BY <1>1, <1>5, <1>6, <1>9, <1>10, WorkGoesOn, SentStays DEF PushInv
  <1>. QED  BY <1>8, <1>9, <1>11 DEF PushInv

LEMMA SendKeeps ==
  ASSUME PushInv, NEW d \in Dispatchers, NEW delivered \in BOOLEAN, NEW unregistered \in BOOLEAN,
         SendPush(d, delivered, unregistered)
  PROVE  PushInv'
  <1>1. PICK p \in Pushes \ dispatch[d].todo : p = dispatch[d].push
    BY DEF PushInv, DispatchersOK, AtWork, SendPush, Doing
  <1>2. AtWork(d) /\ dispatch[d] \in DispatchState /\ dispatch[d].pc = "send"
        /\ push[p].status = "sending" /\ reached[p] = 0
    BY <1>1 DEF PushInv, DispatchersOK, AtWork, PushTypeOK, SendPush, Doing
  <1>3. PICK state : state = [dispatch[d] EXCEPT !.pc = "record", !.delivered = delivered]
    OBVIOUS
  <1>4. /\ state \in DispatchState /\ state.pc = "record" /\ state.delivered = delivered
        /\ state.since = dispatch[d].since /\ state.todo = dispatch[d].todo /\ state.push = p
    BY <1>1, <1>2, <1>3 DEF DispatchState
  <1>5. /\ Becomes(d, state) /\ UNCHANGED <<third, push, optedOut, quietHours, lockHolder>>
        /\ device' \in BOOLEAN
    BY <1>3 DEF SendPush, PushInv, PushTypeOK
  <1>6. /\ reached' \in [Pushes -> Nat] /\ reached'[p] = IF delivered THEN 1 ELSE 0
        /\ \A q \in Pushes : q # p => reached'[q] = reached[q]
    BY <1>1, <1>2 DEF SendPush, PushInv, PushTypeOK
  <1>7. PushTypeOK' /\ Steady
    BY <1>4, <1>5, <1>6 DEF PushInv, PushTypeOK, Becomes, Steady
  <1>8. RowsTruthful'
    BY <1>2, <1>5, <1>6 DEF PushInv, RowsTruthful
  <1>9. AtWork(d)'
    <2>1. dispatch'[d] = state
      BY <1>5 DEF PushInv, PushTypeOK, Becomes
    <2>2. ~OverCap(push[dispatch[d].push].category, dispatch[d].since)'
      <3>1. PICK category, since : category = push[p].category /\ since = dispatch[d].since
        OBVIOUS
      <3>2. OverCap(category, since)' = OverCap(category, since)
        BY <1>7, SentStays
      <3>3. push'[dispatch'[d].push].category = category /\ dispatch'[d].since = since
        BY <1>4, <1>5, <2>1, <3>1
      <3>. QED  BY <1>1, <1>2, <3>1, <3>2, <3>3 DEF AtWork
    <2>3. /\ \A q \in dispatch'[d].todo : push'[q].status = "sending" /\ reached'[q] = 0
          /\ dispatch'[d].since <= Day(third') /\ lockHolder' = d
      BY <1>2, <1>4, <1>5, <1>6, <2>1 DEF AtWork, PushInv, PushTypeOK, DispatchState
    <2>4. /\ dispatch'[d].push \in Pushes \ dispatch'[d].todo
          /\ push'[dispatch'[d].push].status = "sending"
          /\ reached'[dispatch'[d].push] =
               IF dispatch'[d].pc = "record" /\ dispatch'[d].delivered THEN 1 ELSE 0
      BY <1>1, <1>2, <1>4, <1>5, <1>6, <2>1
    <2>. QED  BY <2>2, <2>3, <2>4 DEF AtWork
  <1>10. DispatchersOK' /\ CapsHold'
    BY <1>2, <1>4, <1>5, <1>7, <1>9, WorkGoesOn, SentStays DEF PushInv
  <1>. QED  BY <1>7, <1>8, <1>10 DEF PushInv

LEMMA RecordKeeps ==
  ASSUME PushInv, NEW d \in Dispatchers, RecordPush(d)
  PROVE  PushInv'
  <1>1. PICK p \in Pushes \ dispatch[d].todo : p = dispatch[d].push
    BY DEF PushInv, DispatchersOK, AtWork, RecordPush, Doing
  <1>2. AtWork(d) /\ dispatch[d] \in DispatchState /\ dispatch[d].pc = "record"
        /\ push[p].status = "sending" /\ reached[p] = (IF dispatch[d].delivered THEN 1 ELSE 0)
        /\ push[p] \in PushRow /\ ~OverCap(push[p].category, dispatch[d].since)
    BY <1>1 DEF PushInv, DispatchersOK, AtWork, PushTypeOK, RecordPush, Doing
  <1>3. UNCHANGED <<third, reached, settings>>
    BY DEF RecordPush
  <1>4. CASE lockHolder' = NoDispatcher /\ Becomes(d, AtRest) /\ UNCHANGED push
    <2>1. AtRest \in DispatchState /\ AtRest.pc = "off"
      <3>1. Day(LastThird) \in Nat
        BY PushNumbers, Days
      <3>. QED  BY <3>1 DEF AtRest, DispatchState
    <2>2. PushTypeOK' /\ Steady /\ RowsTruthful'
      BY <1>3, <1>4, <2>1 DEF PushInv, PushTypeOK, Becomes, settings, Steady, RowsTruthful
    <2>3. DispatchersOK' /\ CapsHold'
      BY <1>2, <1>4, <2>1, <2>2, WorkGoesOn, SentStays DEF PushInv
    <2>. QED  BY <2>2, <2>3 DEF PushInv
  <1>5. ASSUME push' = [push EXCEPT ![p] = Outcome(d, p)],
               Becomes(d, [dispatch[d] EXCEPT !.pc = "next"]), UNCHANGED lockHolder
        PROVE  PushInv'
    <2>1. PICK state : state = [dispatch[d] EXCEPT !.pc = "next"]
      OBVIOUS
    <2>2. /\ state \in DispatchState /\ state.pc = "next"
          /\ state.since = dispatch[d].since /\ state.todo = dispatch[d].todo
      BY <1>2, <2>1 DEF DispatchState
    <2>3. Day(third) \in Nat /\ Day(third) <= Day(LastThird) /\ third \in 0..(LastThird + 2)
          /\ dispatch[d].since \in Nat /\ Day(LastThird) \in Nat
      <3>1. Day(third) \in Nat /\ Day(third) <= Day(LastThird) /\ Day(LastThird) \in Nat
            /\ third \in 0..(LastThird + 2)
        BY PushNumbers, Days DEF PushInv, PushTypeOK
      <3>. QED  BY <1>2, <3>1 DEF DispatchState
    <2>4. PICK entry : entry = Outcome(d, p)
      OBVIOUS
    <2>5. /\ entry \in PushRow
          /\ entry.status \in {"sent", "failed", "queued"}
          /\ entry.status = "sent" <=> dispatch[d].delivered
          /\ entry.status = "queued" => entry.tries < SendTries
          /\ entry.status = "sent" =>
               entry = [push[p] EXCEPT !.status = "sent", !.sentOn = Day(third)]
      <3>1. PICK today \in 0..Day(LastThird) : today = Day(third)
        BY <2>3
      <3>2. PICK now \in 0..(LastThird + 2) : now = third
        BY <2>3
      <3>3. entry = IF dispatch[d].delivered
                  THEN [push[p] EXCEPT !.status = "sent", !.sentOn = today]
                  ELSE IF push[p].tries >= SendTries THEN [push[p] EXCEPT !.status = "failed"]
                  ELSE [push[p] EXCEPT !.status = "queued", !.after = now]
        BY <2>4, <3>1, <3>2 DEF Outcome
      <3>4. /\ [push[p] EXCEPT !.status = "sent", !.sentOn = today] \in PushRow
            /\ [push[p] EXCEPT !.status = "failed"] \in PushRow
            /\ [push[p] EXCEPT !.status = "queued", !.after = now] \in PushRow
            /\ [push[p] EXCEPT !.status = "sent", !.sentOn = today].status = "sent"
            /\ [push[p] EXCEPT !.status = "failed"].status = "failed"
            /\ [push[p] EXCEPT !.status = "queued", !.after = now].status = "queued"
            /\ [push[p] EXCEPT !.status = "queued", !.after = now].tries = push[p].tries
        BY <1>2 DEF PushRow
      <3>5. push[p].tries \in 0..SendTries
        <4>1. \A r \in PushRow : r.tries \in 0..SendTries
          BY DEF PushRow
        <4>. QED  BY <1>2, <4>1
      <3>. QED  BY <3>1, <3>3, <3>4, <3>5, PushNumbers
    <2>6. /\ push' \in [Pushes -> PushRow] /\ push'[p] = entry
          /\ \A q \in Pushes : q # p => push'[q] = push[q]
      BY <1>5, <2>4, <2>5 DEF PushInv, PushTypeOK
    <2>7. PushTypeOK'
      BY <1>3, <1>5, <2>1, <2>2, <2>6 DEF PushInv, PushTypeOK, Becomes, settings
    <2>8. RowsTruthful'
      BY <1>2, <1>3, <2>5, <2>6 DEF PushInv, RowsTruthful
    <2>9. CapsHold'
      <3>1. CASE entry.status = "sent"
        <4>1. push' = [push EXCEPT ![p] = [push[p] EXCEPT !.status = "sent",
                                                          !.sentOn = Day(third)]]
          BY <1>5, <2>4, <2>5, <3>1
        <4>2. PICK since \in Nat : since = dispatch[d].since /\ since <= Day(third)
                                   /\ ~OverCap(push[p].category, since)
          BY <1>2, <2>3 DEF AtWork
        <4>. QED  BY <1>2, <4>1, <4>2, SendingIsWithinCaps DEF PushInv
      <3>2. CASE entry.status # "sent"
        <4>1. Steady
          BY <1>2, <2>6, <3>2 DEF Steady
        <4>. QED  BY <4>1, SentStays DEF PushInv
      <3>. QED  BY <3>1, <3>2
    <2>10. AtWork(d)'
      <3>1. dispatch'[d] = state
        BY <1>5, <2>1 DEF PushInv, PushTypeOK, Becomes
      <3>. QED  BY <1>2, <1>3, <1>5, <2>2, <2>3, <2>6, <3>1 DEF AtWork, PushInv, PushTypeOK
    <2>11. DispatchersOK'
      BY <1>2, <1>5, <2>1, <2>2, <2>10, WorkGoesOn DEF PushInv
    <2>. QED  BY <2>7, <2>8, <2>9, <2>11 DEF PushInv
  <1>. QED  BY <1>1, <1>4, <1>5 DEF RecordPush

LEMMA PushBegins ==
  ASSUME PushInit
  PROVE  PushInv
  <1>1. Day(LastThird) \in Nat
    BY PushNumbers, Days
  <1>2. PICK key \in Keys : key = CHOOSE k \in Keys : TRUE
    BY PushCaps
  <1>3. PICK entry : entry = NewRow("account", key, "none", "", 0)
    OBVIOUS
  <1>4. entry \in PushRow /\ entry.status = "none"
    <2>1. 0 \in 0..SendTries /\ 0 \in 0..(LastThird + 2) /\ 0 \in 0..Day(LastThird)
      BY <1>1, PushNumbers
    <2>. QED  BY <1>3, <2>1, PushNumbers DEF NewRow, PushRow
  <1>5. push = [p \in Pushes |-> entry]
    BY <1>2, <1>3 DEF PushInit
  <1>6. AtRest \in DispatchState /\ AtRest.pc = "off"
    BY <1>1 DEF AtRest, DispatchState
  <1>7. PushTypeOK /\ DispatchersOK
    BY <1>4, <1>5, <1>6 DEF PushInit, PushTypeOK, DispatchersOK
  <1>8. RowsTruthful
    <2>1. \A p \in Pushes : push[p].status = "none" /\ reached[p] = 0
      BY <1>4, <1>5 DEF PushInit
    <2>. QED  BY <2>1 DEF RowsTruthful
  <1>9. CapsHold
    <2>1. \A day, categories : SentOn(day, categories) = {}
      BY <1>4, <1>5 DEF SentOn
    <2>. QED  BY <2>1, FS_EmptySet, PushNumbers DEF CapsHold, Common
  <1>. QED  BY <1>7, <1>8, <1>9 DEF PushInv

LEMMA PushStep ==
  ASSUME PushInv, [PushNext]_pushVars
  PROVE  PushInv'
  <1>1. CASE UNCHANGED pushVars
    <2>1. Steady
      BY <1>1 DEF pushVars, Steady
    <2>. QED  BY <1>1, <2>1, SentStays, DispatchersStay
              DEF PushInv, PushTypeOK, RowsTruthful, pushVars, settings
  <1>2. ASSUME NEW d \in Dispatchers, TickStep(d) \/ TickStops(d)
        PROVE  PushInv'
    BY <1>2, StartKeeps, ClaimKeeps, NextKeeps, CheckKeeps, SendKeeps, RecordKeeps, StopKeeps
       DEF TickStep
  <1>. QED  BY <1>1, <1>2, EnqueueKeeps, SettingsKeep DEF PushNext

\* However the ticks of any number of dispatchers, retries, crashes, settings
\* and new pushes interleave, a push reaches the traveler at most once, none is
\* called sent that did not, and the pushes of one day stay within the daily
\* caps, whatever the caps (push/enqueue.ts, push/dispatcher.ts).
THEOREM SendsWithinCaps == PushSpec => [](PushTypeOK /\ SentWithinCaps)
  <1>1. PushInv => PushTypeOK /\ SentWithinCaps
    <2>. SUFFICES ASSUME PushInv PROVE PushTypeOK /\ SentWithinCaps
      OBVIOUS
    <2>1. \A day, categories :
            {p \in WithStatus("sent") : push[p].sentOn = day /\ push[p].category \in categories}
              = SentOn(day, categories)
      BY DEF WithStatus, SentOn
    <2>2. \A p \in Pushes : reached[p] <= 1 /\ (push[p].status = "sent" => reached[p] = 1)
      BY DEF PushInv, RowsTruthful
    <2>3. \A c \in Categories \ {"account", "weekly_recap"} : c \in Common \ {"weekly_recap"}
      BY DEF Common
    <2>. QED  BY <2>1, <2>2, <2>3 DEF PushInv, CapsHold, SentWithinCaps, Common
  <1>. QED  BY <1>1, PushBegins, PushStep, PTL DEF PushSpec

-----------------------------------------------------------------------------
(* Visits, XP and badges *)

XpRecorded == SumFunctionOnSet(xpEvents, Visited)

\* What a completed event stands for: its visit, and its XP.
EventsTell ==
  /\ visits = {s \in Visited : awardEvent[s].status = "completed" /\ awardEvent[s].resolved}
  /\ \A s \in Visited : xpEvents[s] > 0 <=> s \in visits
  /\ \A s \in Visited : awardEvent[s].status # "none" => proofStatus[s] = "approved"

\* The totals beside the rows.
TotalsTell ==
  /\ explorerXp = XpRecorded
  /\ levelsTold \subseteq 2..LevelOf(explorerXp)
  /\ "first_footstep" \in badges <=> visits # {}
  /\ "pangasinan_pioneer" \in badges <=> Pioneer(visits)

ProgressInv == ProgressTypeOK /\ EventsTell /\ TotalsTell

LEMMA XpIsSum ==
  ASSUME NEW f
  PROVE  MapThenSumSet(LAMBDA s : f[s], Visited) = SumFunctionOnSet(f, Visited)
BY ZenonT(40) DEF MapThenSumSet, SumFunctionOnSet, FoldFunctionOnSet

Levels(xp) == {l \in 1..(xp \div 50 + 1) : 50 * (l - 1) * l <= xp}

LEMMA LevelIsReached ==
  ASSUME NEW xp \in Nat
  PROVE  LevelOf(xp) \in Levels(xp) /\ \A l \in Levels(xp) : l <= LevelOf(xp)
<1>1. xp \div 50 + 1 \in Int /\ 1 \in Int
  OBVIOUS
<1>2. IsFiniteSet(1..(xp \div 50 + 1))
  BY <1>1, FS_Interval
<1>3. IsFiniteSet(Levels(xp))
  BY <1>2, FS_Subset DEF Levels
<1>4. 1 \in 1..(xp \div 50 + 1)
  OBVIOUS
<1>5. 50 * (1 - 1) * 1 <= xp
  OBVIOUS
<1>6. 1 \in Levels(xp)
  BY <1>4, <1>5 DEF Levels
<1>7. \A l \in Levels(xp) : l \in Int
  BY DEF Levels
<1>8. LevelOf(xp) = Max(Levels(xp))
  BY DEF LevelOf, Levels
<1> QED
  <2> HIDE DEF Levels
  <2> QED BY <1>3, <1>6, <1>7, <1>8, GreatestExists

LEMMA LevelsGrow ==
  ASSUME NEW x \in Nat, NEW y \in Nat, x <= y
  PROVE  LevelOf(x) \in Nat /\ LevelOf(y) \in Nat /\ 1 <= LevelOf(x) /\ LevelOf(x) <= LevelOf(y)
<1>1. LevelOf(x) \in Levels(x) /\ LevelOf(y) \in Levels(y)
  BY LevelIsReached
<1>2. Levels(x) \subseteq Levels(y)
  <2> SUFFICES ASSUME NEW l \in Levels(x) PROVE l \in Levels(y)
    OBVIOUS
  <2>1. l \in 1..(x \div 50 + 1) /\ 50 * (l - 1) * l <= x
    BY DEF Levels
  <2>2. x \div 50 <= y \div 50
    OBVIOUS
  <2>3. l \in 1..(y \div 50 + 1)
    BY <2>1, <2>2
  <2>4. 50 * (l - 1) * l \in Int
    BY <2>1
  <2>5. 50 * (l - 1) * l <= y
    <3>1. PICK n \in Int : n = 50 * (l - 1) * l
      BY <2>4
    <3> QED BY <2>1, <3>1
  <2> QED BY <2>3, <2>5 DEF Levels
<1>3. LevelOf(x) <= LevelOf(y)
  BY <1>1, <1>2, LevelIsReached
<1> QED BY <1>1, <1>3 DEF Levels

-----------------------------------------------------------------------------
(* Steps that credit nothing *)

SameVerdict(s) ==
  \/ /\ awardEvent'[s].status = awardEvent[s].status
     /\ awardEvent'[s].resolved = awardEvent[s].resolved
  \/ awardEvent'[s].status # "completed" /\ awardEvent[s].status # "completed"

LEMMA NothingCredited ==
  ASSUME EventsTell, TotalsTell, UNCHANGED awards, \A s \in Visited : SameVerdict(s),
         \A s \in Visited : awardEvent'[s].status # "none" => proofStatus'[s] = "approved"
  PROVE  EventsTell' /\ TotalsTell'
<1>1. visits' = visits /\ xpEvents' = xpEvents /\ explorerXp' = explorerXp /\ badges' = badges
      /\ levelsTold' = levelsTold
  BY DEF awards
<1>2. EventsTell'
  BY <1>1 DEF EventsTell, SameVerdict
<1>3. XpRecorded' = XpRecorded
  BY <1>1 DEF XpRecorded
<1>4. TotalsTell'
  BY <1>1, <1>3 DEF TotalsTell, Pioneer, StopsVisited
<1> QED BY <1>2, <1>4

LEMMA AwardNumbers ==
  /\ EventLease \in Nat /\ EventTries \in Nat /\ VerdictDelay \in Nat /\ ErrorDelay \in Nat
  /\ Max({VerdictDelay, ErrorDelay}) \in Nat
  /\ VerdictDelay <= Max({VerdictDelay, ErrorDelay})
  /\ ErrorDelay <= Max({VerdictDelay, ErrorDelay})
  BY LeaseIsTimed, AwardsAreCounted, GreaterOfTwo

LEMMA FreshRows ==
  /\ NoEvent \in EventRow
  /\ \A b \in BOOLEAN : [NoEvent EXCEPT !.status = "pending", !.resolved = b] \in EventRow
<1>1. 0 \in 0..EventTries /\ 0 \in 0..EventLease /\ 0 \in 0..Max({VerdictDelay, ErrorDelay})
  BY AwardNumbers
<1> QED BY <1>1 DEF NoEvent, EventRow

LEMMA EmittedRows ==
  ASSUME NEW some \in SUBSET Visited, awardEvent \in [Visited -> EventRow]
  PROVE  /\ Emitted(some) \in [Visited -> EventRow]
         /\ \A s \in Visited \ some : Emitted(some)[s] = awardEvent[s]
         /\ \A s \in some : Emitted(some)[s].status = "pending"
<1>1. \A s \in some : [NoEvent EXCEPT !.status = "pending", !.resolved = s \in bound] \in EventRow
  <2> SUFFICES ASSUME NEW s \in some
               PROVE  [NoEvent EXCEPT !.status = "pending", !.resolved = s \in bound] \in EventRow
    OBVIOUS
  <2>1. (s \in bound) \in BOOLEAN
    OBVIOUS
  <2> QED BY <2>1, FreshRows, Zenon
<1>2. \A s \in some : [NoEvent EXCEPT !.status = "pending", !.resolved = s \in bound].status = "pending"
  BY DEF NoEvent
<1> QED BY <1>1, <1>2 DEF Emitted

LEMMA ApproveVisitKeeps ==
  ASSUME ProgressInv, NEW s \in Visited, NEW emit \in BOOLEAN, ApproveVisit(s, emit)
  PROVE  ProgressInv'
<1>1. awardEvent \in [Visited -> EventRow]
  BY DEF ProgressInv, ProgressTypeOK
<1>2. awardEvent' = Emitted({s}) \/ awardEvent' = awardEvent
  BY DEF ApproveVisit
<1>3. awardEvent[s].status = "none"
  BY DEF ProgressInv, EventsTell, ApproveVisit
<1>4. proofStatus' \in [Visited -> {"pending", "approved"}] /\ proofStatus'[s] = "approved"
      /\ \A q \in Visited \ {s} : proofStatus'[q] = proofStatus[q]
  BY DEF ApproveVisit, ProgressInv, ProgressTypeOK
<1>5. /\ awardEvent' \in [Visited -> EventRow]
      /\ \A q \in Visited \ {s} : awardEvent'[q] = awardEvent[q]
      /\ awardEvent'[s].status \in {"none", "pending"}
  BY <1>1, <1>2, <1>3, EmittedRows
<1>6. ProgressTypeOK'
  BY <1>4, <1>5 DEF ApproveVisit, ProgressInv, ProgressTypeOK, awards
<1>7. UNCHANGED awards
  BY DEF ApproveVisit
<1>8. \A q \in Visited : SameVerdict(q)
  <2>1. SameVerdict(s)
    <3>1. awardEvent[s].status # "completed"
      BY <1>3
    <3>2. awardEvent'[s].status \in {"none", "pending"}
      BY <1>5
    <3>3. awardEvent'[s].status # "completed"
      BY <3>2
    <3> QED BY <3>1, <3>3 DEF SameVerdict
  <2>2. \A q \in Visited \ {s} : SameVerdict(q)
    BY <1>5, Zenon DEF SameVerdict
  <2> QED BY <2>1, <2>2
<1>9. \A q \in Visited : awardEvent'[q].status # "none" => proofStatus'[q] = "approved"
  BY <1>4, <1>5 DEF ProgressInv, EventsTell
<1>10. EventsTell' /\ TotalsTell'
  BY <1>7, <1>8, <1>9, NothingCredited DEF ProgressInv
<1> QED BY <1>6, <1>10 DEF ProgressInv

LEMMA CatchUpKeeps ==
  ASSUME ProgressInv, NEW some \in SUBSET Visited, CatchUp(some)
  PROVE  ProgressInv'
<1>1. awardEvent \in [Visited -> EventRow]
  BY DEF ProgressInv, ProgressTypeOK
<1>2. awardEvent' = Emitted(some) /\ some \subseteq Missed
  BY DEF CatchUp
<1>3. \A s \in some : awardEvent[s].status = "none" /\ proofStatus[s] = "approved"
  BY <1>2 DEF Missed
<1>4. UNCHANGED awards /\ UNCHANGED approvals /\ UNCHANGED held
  BY DEF CatchUp
<1>5. /\ awardEvent' \in [Visited -> EventRow]
      /\ \A q \in Visited \ some : awardEvent'[q] = awardEvent[q]
      /\ \A q \in some : awardEvent'[q].status = "pending"
  BY <1>1, <1>2, EmittedRows
<1>6. ProgressTypeOK'
  BY <1>4, <1>5 DEF ProgressInv, ProgressTypeOK, awards, approvals
<1>7. \A q \in Visited : SameVerdict(q)
  <2>1. \A q \in some : SameVerdict(q)
    <3>1. \A q \in some : awardEvent[q].status # "completed"
      BY <1>3
    <3>2. \A q \in some : awardEvent'[q].status = "pending"
      BY <1>5
    <3>3. \A q \in some : awardEvent'[q].status # "completed"
      BY <3>2
    <3> QED BY <3>1, <3>3 DEF SameVerdict
  <2>2. \A q \in Visited \ some : SameVerdict(q)
    BY <1>5, Zenon DEF SameVerdict
  <2> QED BY <2>1, <2>2
<1>8. \A q \in Visited : awardEvent'[q].status # "none" => proofStatus'[q] = "approved"
  BY <1>3, <1>4, <1>5 DEF ProgressInv, EventsTell, approvals
<1>9. EventsTell' /\ TotalsTell'
  BY <1>4, <1>7, <1>8, NothingCredited DEF ProgressInv
<1> QED BY <1>6, <1>9 DEF ProgressInv

LEMMA PublishStopKeeps ==
  ASSUME ProgressInv, NEW p \in Stops, PublishStop(p)
  PROVE  ProgressInv'
<1>1. UNCHANGED awards /\ awardEvent' = awardEvent /\ proofStatus' = proofStatus
      /\ bound' = bound /\ held' = held
  BY DEF PublishStop
<1>2. shown' \subseteq Stops /\ changes' \in 0..MaxUnpublish
  BY AwardsAreCounted DEF PublishStop, ProgressInv, ProgressTypeOK
<1>3. ProgressTypeOK'
  BY <1>1, <1>2 DEF ProgressInv, ProgressTypeOK, awards
<1>4. \A q \in Visited : SameVerdict(q)
  BY <1>1 DEF SameVerdict
<1>5. EventsTell' /\ TotalsTell'
  BY <1>1, <1>4, NothingCredited DEF ProgressInv, EventsTell
<1> QED BY <1>3, <1>5 DEF ProgressInv

\* A row that ages keeps its verdict.
LEMMA RowsAge ==
  ASSUME NEW e \in EventRow
  PROVE  LET old == [e EXCEPT !.lease = Max({0, @ - 1}), !.wait = Max({0, @ - 1})]
         IN old \in EventRow /\ old.status = e.status /\ old.resolved = e.resolved
<1>1. e.lease \in 0..EventLease /\ e.wait \in 0..Max({VerdictDelay, ErrorDelay})
  BY DEF EventRow
<1>2. Max({0, e.lease - 1}) \in 0..EventLease
  BY <1>1, AwardNumbers, GreaterOfTwo
<1>3. Max({0, e.wait - 1}) \in 0..Max({VerdictDelay, ErrorDelay})
  BY <1>1, AwardNumbers, GreaterOfTwo
<1> QED BY <1>2, <1>3 DEF EventRow

LEMMA EventTickKeeps ==
  ASSUME ProgressInv, EventTick
  PROVE  ProgressInv'
<1>1. awardEvent \in [Visited -> EventRow]
  BY DEF ProgressInv, ProgressTypeOK
<1>2. UNCHANGED awards /\ UNCHANGED approvals /\ UNCHANGED held
  BY DEF EventTick
<1>3. \A s \in Visited : awardEvent'[s] \in EventRow
        /\ awardEvent'[s].status = awardEvent[s].status
        /\ awardEvent'[s].resolved = awardEvent[s].resolved
  <2> SUFFICES ASSUME NEW s \in Visited
               PROVE  /\ awardEvent'[s] \in EventRow
                      /\ awardEvent'[s].status = awardEvent[s].status
                      /\ awardEvent'[s].resolved = awardEvent[s].resolved
    OBVIOUS
  <2>1. awardEvent'[s] = [awardEvent[s] EXCEPT !.lease = Max({0, @ - 1}), !.wait = Max({0, @ - 1})]
    BY DEF EventTick
  <2>2. awardEvent[s] \in EventRow
    BY <1>1
  <2> QED BY <2>1, <2>2, RowsAge
<1>4. awardEvent' \in [Visited -> EventRow]
  <2>1. awardEvent' = [s \in Visited |-> awardEvent'[s]]
    BY DEF EventTick
  <2> QED BY <1>3, <2>1
<1>5. ProgressTypeOK'
  BY <1>2, <1>4 DEF ProgressInv, ProgressTypeOK, awards, approvals
<1>6. \A q \in Visited : SameVerdict(q)
  BY <1>3 DEF SameVerdict
<1>7. EventsTell' /\ TotalsTell'
  BY <1>2, <1>3, <1>6, NothingCredited DEF ProgressInv, EventsTell, approvals
<1> QED BY <1>5, <1>7 DEF ProgressInv

-----------------------------------------------------------------------------
(* Workers *)

LEMMA DeadLetteredRows ==
  ASSUME awardEvent \in [Visited -> EventRow]
  PROVE  /\ DeadLettered \in [Visited -> EventRow]
         /\ \A s \in Visited : \/ DeadLettered[s] = awardEvent[s]
                               \/ /\ DeadLettered[s].status = "dead_letter"
                                  /\ awardEvent[s].status = "processing"
<1>1. \A s \in Visited : [awardEvent[s] EXCEPT !.status = "dead_letter"] \in EventRow
        /\ [awardEvent[s] EXCEPT !.status = "dead_letter"].status = "dead_letter"
  BY DEF EventRow
<1> QED BY <1>1 DEF DeadLettered, Expired

LEMMA ClaimEventsKeeps ==
  ASSUME ProgressInv, NEW w \in Awarders, ClaimEvents(w)
  PROVE  ProgressInv'
<1>1. awardEvent \in [Visited -> EventRow]
  BY DEF ProgressInv, ProgressTypeOK
<1>2. PICK some \in kSubset(Min({AwardBatch, Cardinality(Claimable(DeadLettered))}),
                            Claimable(DeadLettered)) :
       /\ awardEvent' = [s \in Visited |-> IF s \notin some THEN DeadLettered[s]
            ELSE [DeadLettered[s] EXCEPT !.status = "processing", !.tries = @ + 1,
                                         !.lease = EventLease]]
       /\ held' = [held EXCEPT ![w] = {<<s, DeadLettered[s].tries + 1>> : s \in some}]
  BY DEF ClaimEvents
<1>3. some \subseteq Claimable(DeadLettered)
  BY DEF kSubset
<1>4. UNCHANGED awards /\ UNCHANGED approvals
  BY DEF ClaimEvents
<1>5. PICK d : d = DeadLettered
  OBVIOUS
<1>6. d \in [Visited -> EventRow]
      /\ \A s \in Visited : d[s] = awardEvent[s]
            \/ (d[s].status = "dead_letter" /\ awardEvent[s].status = "processing")
  BY <1>1, <1>5, DeadLetteredRows
<1>7. \A s \in some : s \in Visited /\ d[s].tries < EventTries
        /\ d[s].status \in {"pending", "failed", "processing"}
  BY <1>3, <1>5 DEF Claimable, Expired
<1>8. \A s \in some : d[s].tries \in 0..EventTries /\ d[s].tries + 1 \in 1..EventTries
  BY <1>6, <1>7, AwardNumbers DEF EventRow
<1>9. \A s \in some :
        /\ awardEvent'[s] \in EventRow /\ awardEvent'[s].status = "processing"
        /\ awardEvent[s].status \in {"pending", "failed", "processing"}
  <2> SUFFICES ASSUME NEW s \in some
               PROVE  /\ awardEvent'[s] \in EventRow /\ awardEvent'[s].status = "processing"
                      /\ awardEvent[s].status \in {"pending", "failed", "processing"}
    OBVIOUS
  <2>1. awardEvent'[s] = [d[s] EXCEPT !.status = "processing", !.tries = d[s].tries + 1,
                                      !.lease = EventLease]
    BY <1>2, <1>5, <1>7
  <2>2. d[s] \in EventRow /\ EventLease \in 0..EventLease /\ d[s].tries + 1 \in 0..EventTries
    BY <1>6, <1>7, <1>8, AwardNumbers
  <2>3. awardEvent'[s] \in EventRow /\ awardEvent'[s].status = "processing"
    BY <2>1, <2>2 DEF EventRow
  <2> QED BY <2>3, <1>6, <1>7
<1>10. \A s \in Visited \ some : awardEvent'[s] = d[s]
  BY <1>2, <1>5
<1>11. awardEvent' \in [Visited -> EventRow]
  <2>1. awardEvent' = [s \in Visited |-> awardEvent'[s]]
    BY <1>2
  <2> QED BY <1>6, <1>9, <1>10, <2>1
<1>12. held' \in [Awarders -> SUBSET (Visited \X (1..EventTries))]
  <2>1. {<<s, d[s].tries + 1>> : s \in some} \subseteq Visited \X (1..EventTries)
    BY <1>7, <1>8
  <2>2. held \in [Awarders -> SUBSET (Visited \X (1..EventTries))]
    BY DEF ProgressInv, ProgressTypeOK
  <2> QED BY <1>2, <1>5, <2>1, <2>2
<1>13. ProgressTypeOK'
  BY <1>4, <1>11, <1>12 DEF ProgressInv, ProgressTypeOK, awards, approvals
<1>14. \A q \in Visited : SameVerdict(q)
  BY <1>6, <1>9, <1>10 DEF SameVerdict
<1>15. \A q \in Visited : awardEvent'[q].status # "none" => awardEvent[q].status # "none"
  BY <1>6, <1>9, <1>10
<1>16. EventsTell' /\ TotalsTell'
  BY <1>4, <1>14, <1>15, NothingCredited DEF ProgressInv, EventsTell, approvals
<1> QED BY <1>13, <1>16 DEF ProgressInv

\* What a failure leaves of a row.
LEMMA MarkFailedRows ==
  ASSUME awardEvent \in [Visited -> EventRow], NEW claim \in Visited \X (1..EventTries),
         NEW delay \in {VerdictDelay, ErrorDelay}, MarkFailed(claim, delay)
  PROVE  /\ awardEvent' \in [Visited -> EventRow]
         /\ \A s \in Visited : \/ awardEvent'[s] = awardEvent[s]
                               \/ /\ awardEvent'[s].status \in {"failed", "dead_letter"}
                                  /\ awardEvent[s].status = "processing"
<1>1. CASE awardEvent' = awardEvent
  BY <1>1
<1>2. CASE Fenced(claim)
  <2>1. PICK s \in Visited : s = claim[1]
    OBVIOUS
  <2>2. PICK e : e = awardEvent[s]
    OBVIOUS
  <2>3. e \in EventRow /\ e.status = "processing"
    BY <1>2, <2>1, <2>2 DEF Fenced
  <2>4. PICK st \in {"failed", "dead_letter"} :
          st = IF e.tries >= EventTries THEN "dead_letter" ELSE "failed"
    OBVIOUS
  <2>5. awardEvent' = [awardEvent EXCEPT ![s].status = st, ![s].wait = delay, ![s].lease = 0]
    BY <1>2, <2>1, <2>2, <2>4 DEF MarkFailed
  <2>6. PICK n : n = [e EXCEPT !.status = st, !.wait = delay, !.lease = 0]
    OBVIOUS
  <2>7. 0 \in 0..EventLease /\ delay \in 0..Max({VerdictDelay, ErrorDelay})
    BY AwardNumbers
  <2>8. n \in EventRow /\ n.status = st
    BY <2>3, <2>6, <2>7 DEF EventRow
  <2>9. awardEvent' = [awardEvent EXCEPT ![s] = n]
    BY <2>2, <2>5, <2>6
  <2> QED BY <2>2, <2>3, <2>8, <2>9
<1> QED BY <1>1, <1>2 DEF MarkFailed

LEMMA FailureKeeps ==
  ASSUME ProgressInv, NEW w \in Awarders, NEW claim \in held[w],
         NEW delay \in {VerdictDelay, ErrorDelay}, MarkFailed(claim, delay),
         Release(w, claim), UNCHANGED <<approvals, awards>>
  PROVE  ProgressInv'
<1>1. awardEvent \in [Visited -> EventRow]
      /\ held \in [Awarders -> SUBSET (Visited \X (1..EventTries))]
  BY DEF ProgressInv, ProgressTypeOK
<1>2. claim \in Visited \X (1..EventTries)
  BY <1>1
<1>3. awardEvent' \in [Visited -> EventRow]
      /\ \A s \in Visited : \/ awardEvent'[s] = awardEvent[s]
                            \/ /\ awardEvent'[s].status \in {"failed", "dead_letter"}
                               /\ awardEvent[s].status = "processing"
  BY <1>1, <1>2, MarkFailedRows
<1>4. held' \in [Awarders -> SUBSET (Visited \X (1..EventTries))]
  BY <1>1 DEF Release
<1>5. UNCHANGED awards /\ UNCHANGED approvals
  OBVIOUS
<1>6. ProgressTypeOK'
  BY <1>3, <1>4, <1>5 DEF ProgressInv, ProgressTypeOK, awards, approvals
<1>7. \A q \in Visited : SameVerdict(q)
  BY <1>3 DEF SameVerdict
<1>8. \A q \in Visited : awardEvent'[q].status # "none" => awardEvent[q].status # "none"
  BY <1>3
<1>9. EventsTell' /\ TotalsTell'
  BY <1>5, <1>7, <1>8, NothingCredited DEF ProgressInv, EventsTell, approvals
<1> QED BY <1>6, <1>9 DEF ProgressInv

LEMMA DropBatchKeeps ==
  ASSUME ProgressInv, NEW w \in Awarders, DropBatch(w)
  PROVE  ProgressInv'
<1>1. UNCHANGED awards /\ UNCHANGED approvals /\ awardEvent' = awardEvent
  BY DEF DropBatch
<1>2. held' \in [Awarders -> SUBSET (Visited \X (1..EventTries))]
  BY DEF DropBatch, ProgressInv, ProgressTypeOK
<1>3. ProgressTypeOK'
  BY <1>1, <1>2 DEF ProgressInv, ProgressTypeOK, awards, approvals
<1>4. \A q \in Visited : SameVerdict(q)
  BY <1>1 DEF SameVerdict
<1>5. EventsTell' /\ TotalsTell'
  BY <1>1, <1>4, NothingCredited DEF ProgressInv, EventsTell, approvals
<1> QED BY <1>3, <1>5 DEF ProgressInv

-----------------------------------------------------------------------------
(* Processing one event *)

LEMMA FewerStops ==
  ASSUME NEW done \in SUBSET Visited, NEW more \in SUBSET Visited, done \subseteq more
  PROVE  Pioneer(done) => Pioneer(more)
<1>1. IsFiniteSet(more)
  BY AwardsAreCounted, FS_Subset
<1>2. StopsVisited(more) = ImageOf(StopOf, more)
  BY DEF StopsVisited, ImageOf
<1>3. IsFiniteSet(StopsVisited(more))
  BY <1>1, <1>2, ImageIsFinite
<1>4. StopsVisited(done) \subseteq StopsVisited(more)
  BY DEF StopsVisited
<1>5. /\ IsFiniteSet(StopsVisited(done))
      /\ Cardinality(StopsVisited(done)) <= Cardinality(StopsVisited(more))
  BY <1>3, <1>4, FS_Subset
<1>6. Cardinality(StopsVisited(done)) \in Nat /\ Cardinality(StopsVisited(more)) \in Nat
  BY <1>3, <1>5, FS_CardinalityType
<1> QED BY <1>5, <1>6, AwardsAreCounted DEF Pioneer

\* A first visit's XP joins the total, and no level is told of that the new
\* total does not reach.
LEMMA TotalsGrow ==
  ASSUME ProgressInv, NEW xp \in Nat, UpdateTotals(xp)
  PROVE  /\ explorerXp' = explorerXp + xp
         /\ levelsTold' \subseteq 2..LevelOf(explorerXp')
<1>1. explorerXp \in Nat /\ levelsTold \subseteq 2..LevelOf(explorerXp)
  BY DEF ProgressInv, ProgressTypeOK, TotalsTell
<1>2. PICK total \in Nat : total = explorerXp + xp /\ explorerXp' = total
  BY <1>1 DEF UpdateTotals
<1>3. LevelOf(explorerXp) \in Nat /\ LevelOf(total) \in Nat /\ 1 <= LevelOf(explorerXp)
      /\ LevelOf(explorerXp) <= LevelOf(total)
  BY <1>1, <1>2, LevelsGrow
<1>4. PICK climbed :
        climbed = {l \in (LevelOf(explorerXp) + 1)..LevelOf(total) : l > LevelOf(total) - 3}
  OBVIOUS
<1>5. climbed \subseteq 2..LevelOf(total)
  BY <1>3, <1>4
<1>6. levelsTold \subseteq 2..LevelOf(total)
  BY <1>1, <1>3
<1>7. levelsTold' = levelsTold \/ levelsTold' = levelsTold \cup climbed
  BY <1>2, <1>4 DEF UpdateTotals
<1> QED BY <1>2, <1>5, <1>6, <1>7

\* The badges of a traveler with one more visit.
LEMMA BadgesGrow ==
  ASSUME ProgressInv, NEW s \in Visited, visits' = visits \cup {s},
         badges' = badges \cup BadgesFor(visits')
  PROVE  /\ badges' \subseteq {"first_footstep", "pangasinan_pioneer", "trail"}
         /\ "first_footstep" \in badges' <=> visits' # {}
         /\ "pangasinan_pioneer" \in badges' <=> Pioneer(visits')
<1>1. PICK more \in SUBSET Visited : more = visits'
  BY DEF ProgressInv, ProgressTypeOK
<1>2. visits \subseteq more /\ more # {} /\ visits \in SUBSET Visited
  BY <1>1 DEF ProgressInv, ProgressTypeOK
<1>3. Pioneer(visits) => Pioneer(more)
  BY <1>2, FewerStops
<1>4. PICK new : new = BadgesFor(more)
  OBVIOUS
<1>5. new \subseteq {"first_footstep", "pangasinan_pioneer", "trail"}
      /\ "first_footstep" \in new
      /\ ("pangasinan_pioneer" \in new <=> Pioneer(more))
  BY <1>2, <1>4 DEF BadgesFor
<1>6. badges' = badges \cup new
  BY <1>1, <1>4
<1>7. badges \subseteq {"first_footstep", "pangasinan_pioneer", "trail"}
  BY DEF ProgressInv, ProgressTypeOK
<1>8. "pangasinan_pioneer" \in badges <=> Pioneer(visits)
  BY DEF ProgressInv, TotalsTell
<1>9. badges' \subseteq {"first_footstep", "pangasinan_pioneer", "trail"}
  BY <1>5, <1>6, <1>7
<1>10. "first_footstep" \in badges' /\ visits' # {}
  BY <1>1, <1>2, <1>5, <1>6
<1>11. "pangasinan_pioneer" \in badges' <=> Pioneer(more)
  BY <1>3, <1>5, <1>6, <1>8
<1> QED BY <1>1, <1>9, <1>10, <1>11

\* An event that its worker completes was neither completed nor credited.
LEMMA CompletedOnce ==
  ASSUME ProgressInv, NEW claim \in Visited \X (1..EventTries), Fenced(claim),
         awardEvent' = [awardEvent EXCEPT ![claim[1]].status = "completed", ![claim[1]].lease = 0]
  PROVE  LET s == claim[1] IN
         /\ s \in Visited /\ s \notin visits /\ xpEvents[s] = 0 /\ proofStatus[s] = "approved"
         /\ awardEvent' \in [Visited -> EventRow]
         /\ awardEvent'[s].status = "completed" /\ awardEvent'[s].resolved = awardEvent[s].resolved
         /\ \A q \in Visited \ {s} : awardEvent'[q] = awardEvent[q]
<1>1. PICK s \in Visited : s = claim[1]
  OBVIOUS
<1>2. awardEvent \in [Visited -> EventRow] /\ xpEvents \in [Visited -> Nat]
  BY DEF ProgressInv, ProgressTypeOK
<1>3. PICK e \in EventRow : e = awardEvent[s]
  BY <1>2
<1>4. e.status = "processing"
  BY <1>1, <1>3 DEF Fenced
<1>5. PICK n : n = [e EXCEPT !.status = "completed", !.lease = 0]
  OBVIOUS
<1>6. 0 \in 0..EventLease
  BY AwardNumbers
<1>7. n \in EventRow /\ n.status = "completed" /\ n.resolved = e.resolved
  BY <1>5, <1>6 DEF EventRow
<1>8. awardEvent' = [awardEvent EXCEPT ![s] = n]
  BY <1>1, <1>3, <1>5
<1>9. s \notin visits
  BY <1>3, <1>4 DEF ProgressInv, EventsTell
<1>10. ~(xpEvents[s] > 0)
  BY <1>9 DEF ProgressInv, EventsTell
<1>11. xpEvents[s] = 0
  BY <1>2, <1>10
<1>12. proofStatus[s] = "approved"
  BY <1>3, <1>4 DEF ProgressInv, EventsTell
<1>13. awardEvent' \in [Visited -> EventRow]
  BY <1>2, <1>7, <1>8
<1>14. awardEvent'[s] = n /\ \A q \in Visited \ {s} : awardEvent'[q] = awardEvent[q]
  BY <1>2, <1>8
<1> QED BY <1>1, <1>3, <1>7, <1>9, <1>11, <1>12, <1>13, <1>14

LEMMA ReleaseKeeps ==
  ASSUME ProgressInv, NEW w \in Awarders, NEW claim, Release(w, claim)
  PROVE  held' \in [Awarders -> SUBSET (Visited \X (1..EventTries))]
<1>1. held \in [Awarders -> SUBSET (Visited \X (1..EventTries))]
  BY DEF ProgressInv, ProgressTypeOK
<1> QED BY <1>1 DEF Release

LEMMA AwardVisitKeeps ==
  ASSUME ProgressInv, NEW claim \in Visited \X (1..EventTries), Fenced(claim),
         awardEvent[claim[1]].resolved,
         awardEvent' = [awardEvent EXCEPT ![claim[1]].status = "completed", ![claim[1]].lease = 0],
         NEW xp \in Nat \ {0}, AwardVisit(claim[1], xp), UNCHANGED approvals,
         held' \in [Awarders -> SUBSET (Visited \X (1..EventTries))]
  PROVE  ProgressInv'
<1>1. PICK s \in Visited : s = claim[1]
  OBVIOUS
<1>2. /\ s \notin visits /\ xpEvents[s] = 0 /\ proofStatus[s] = "approved"
      /\ awardEvent' \in [Visited -> EventRow]
      /\ awardEvent'[s].status = "completed" /\ awardEvent'[s].resolved = awardEvent[s].resolved
      /\ \A q \in Visited \ {s} : awardEvent'[q] = awardEvent[q]
  BY <1>1, CompletedOnce
<1>3. awardEvent'[s].resolved
  BY <1>1, <1>2
<1>4. visits' = visits \cup {s} /\ badges' = badges \cup BadgesFor(visits')
      /\ xpEvents' = [xpEvents EXCEPT ![s] = xp] /\ UpdateTotals(xp)
  BY <1>1, <1>2 DEF AwardVisit
<1>5. xpEvents \in [Visited -> Nat] /\ explorerXp \in Nat /\ visits \subseteq Visited
  BY DEF ProgressInv, ProgressTypeOK
<1>6. xpEvents' \in [Visited -> Nat] /\ xpEvents'[s] = xp
      /\ \A q \in Visited \ {s} : xpEvents'[q] = xpEvents[q]
  BY <1>4, <1>5
<1>7. XpRecorded' = XpRecorded + xp
  <2>1. PICK new : new = xpEvents'
    OBVIOUS
  <2>2. \A q \in Visited : xpEvents[q] \in Int /\ new[q] \in Int
    BY <1>5, <1>6, <2>1
  <2>3. \A q \in Visited \ {s} : new[q] = xpEvents[q]
    BY <1>6, <2>1
  <2>4. SumFunctionOnSet(new, Visited) = SumFunctionOnSet(xpEvents, Visited) + new[s] - xpEvents[s]
    BY <2>2, <2>3, AwardsAreCounted, SumUpdated
  <2>5. SumFunctionOnSet(xpEvents, Visited) \in Int
    BY <2>2, AwardsAreCounted, SumIsInt
  <2> QED BY <1>2, <1>6, <2>1, <2>4, <2>5 DEF XpRecorded
<1>8. explorerXp' = explorerXp + xp /\ levelsTold' \subseteq 2..LevelOf(explorerXp')
  BY <1>4, TotalsGrow
<1>9. /\ badges' \subseteq {"first_footstep", "pangasinan_pioneer", "trail"}
      /\ "first_footstep" \in badges' <=> visits' # {}
      /\ "pangasinan_pioneer" \in badges' <=> Pioneer(visits')
  BY <1>4, BadgesGrow
<1>10. explorerXp' \in Nat
  BY <1>5, <1>8
<1>11. levelsTold' \subseteq Nat
  <2>1. LevelOf(explorerXp') \in Nat
    BY <1>10, LevelsGrow
  <2> QED BY <1>8, <2>1
<1>12. visits' \subseteq Visited
  BY <1>4, <1>5
<1>13. UNCHANGED <<proofStatus, bound, shown, changes>>
  BY DEF approvals
<1>14. ProgressTypeOK'
  BY <1>2, <1>6, <1>9, <1>10, <1>11, <1>12, <1>13 DEF ProgressInv, ProgressTypeOK
<1>15. visits' = {q \in Visited : awardEvent'[q].status = "completed" /\ awardEvent'[q].resolved}
  <2>1. visits = {q \in Visited : awardEvent[q].status = "completed" /\ awardEvent[q].resolved}
    BY DEF ProgressInv, EventsTell
  <2> QED BY <1>2, <1>3, <1>4, <2>1
<1>16. \A q \in Visited : xpEvents'[q] > 0 <=> q \in visits'
  <2>1. \A q \in Visited \ {s} : xpEvents[q] > 0 <=> q \in visits
    BY DEF ProgressInv, EventsTell
  <2> QED BY <1>4, <1>6, <2>1
<1>17. \A q \in Visited : awardEvent'[q].status # "none" => proofStatus'[q] = "approved"
  <2>1. \A q \in Visited : awardEvent[q].status # "none" => proofStatus[q] = "approved"
    BY DEF ProgressInv, EventsTell
  <2> QED BY <1>2, <1>13, <2>1
<1>18. EventsTell'
  BY <1>15, <1>16, <1>17 DEF EventsTell
<1>19. explorerXp' = XpRecorded'
  BY <1>7, <1>8 DEF ProgressInv, TotalsTell
<1>20. TotalsTell'
  BY <1>8, <1>9, <1>19 DEF TotalsTell
<1> QED BY <1>14, <1>18, <1>20 DEF ProgressInv

LEMMA UnresolvedKeeps ==
  ASSUME ProgressInv, NEW claim \in Visited \X (1..EventTries), Fenced(claim),
         ~awardEvent[claim[1]].resolved,
         awardEvent' = [awardEvent EXCEPT ![claim[1]].status = "completed", ![claim[1]].lease = 0],
         UNCHANGED awards, UNCHANGED approvals,
         held' \in [Awarders -> SUBSET (Visited \X (1..EventTries))]
  PROVE  ProgressInv'
<1>1. PICK s \in Visited : s = claim[1]
  OBVIOUS
<1>2. /\ s \notin visits /\ xpEvents[s] = 0 /\ proofStatus[s] = "approved"
      /\ awardEvent' \in [Visited -> EventRow]
      /\ awardEvent'[s].status = "completed" /\ awardEvent'[s].resolved = awardEvent[s].resolved
      /\ \A q \in Visited \ {s} : awardEvent'[q] = awardEvent[q]
  BY <1>1, CompletedOnce
<1>3. ~awardEvent'[s].resolved
  BY <1>1, <1>2
<1>4. visits' = visits /\ xpEvents' = xpEvents /\ explorerXp' = explorerXp /\ badges' = badges
      /\ levelsTold' = levelsTold
  BY DEF awards
<1>5. UNCHANGED <<proofStatus, bound, shown, changes>>
  BY DEF approvals
<1>6. ProgressTypeOK'
  BY <1>2, <1>4, <1>5 DEF ProgressInv, ProgressTypeOK
<1>7. visits' = {q \in Visited : awardEvent'[q].status = "completed" /\ awardEvent'[q].resolved}
  <2>1. visits = {q \in Visited : awardEvent[q].status = "completed" /\ awardEvent[q].resolved}
    BY DEF ProgressInv, EventsTell
  <2> QED BY <1>2, <1>3, <1>4, <2>1
<1>8. \A q \in Visited : awardEvent'[q].status # "none" => proofStatus'[q] = "approved"
  <2>1. \A q \in Visited : awardEvent[q].status # "none" => proofStatus[q] = "approved"
    BY DEF ProgressInv, EventsTell
  <2> QED BY <1>2, <1>5, <2>1
<1>9. EventsTell'
  BY <1>4, <1>7, <1>8 DEF ProgressInv, EventsTell
<1>10. TotalsTell'
  BY <1>4 DEF ProgressInv, TotalsTell, XpRecorded, Pioneer, StopsVisited
<1> QED BY <1>6, <1>9, <1>10 DEF ProgressInv

LEMMA ProcessEventKeeps ==
  ASSUME ProgressInv, NEW w \in Awarders, NEW claim \in held[w], NEW boost \in XpBoosts,
         ProcessEvent(w, claim, boost)
  PROVE  ProgressInv'
<1>1. held \in [Awarders -> SUBSET (Visited \X (1..EventTries))]
  BY DEF ProgressInv, ProgressTypeOK
<1>2. claim \in Visited \X (1..EventTries)
  BY <1>1
<1>3. held' \in [Awarders -> SUBSET (Visited \X (1..EventTries))]
  BY ReleaseKeeps DEF ProcessEvent
<1>4. UNCHANGED approvals
  BY DEF ProcessEvent
<1>5. PICK xp \in Nat \ {0} : xp = VisitXp + boost
  BY AwardsAreCounted
<1>6. CASE Fenced(claim) /\ awardEvent[claim[1]].resolved
  <2>1. awardEvent' = [awardEvent EXCEPT ![claim[1]].status = "completed", ![claim[1]].lease = 0]
        /\ AwardVisit(claim[1], xp)
    BY <1>5, <1>6 DEF ProcessEvent
  <2> QED BY <1>2, <1>3, <1>4, <1>6, <2>1, AwardVisitKeeps
<1>7. CASE Fenced(claim) /\ ~awardEvent[claim[1]].resolved
  <2>1. awardEvent' = [awardEvent EXCEPT ![claim[1]].status = "completed", ![claim[1]].lease = 0]
        /\ UNCHANGED awards
    BY <1>7 DEF ProcessEvent
  <2> QED BY <1>2, <1>3, <1>4, <1>7, <2>1, UnresolvedKeeps
<1>8. CASE ~Fenced(claim)
  <2>1. awardEvent' = awardEvent /\ UNCHANGED awards
    BY <1>8 DEF ProcessEvent
  <2>2. ProgressTypeOK'
    BY <1>3, <1>4, <2>1 DEF ProgressInv, ProgressTypeOK, awards, approvals
  <2>3. \A q \in Visited : SameVerdict(q)
    BY <2>1 DEF SameVerdict
  <2>4. EventsTell' /\ TotalsTell'
    BY <1>4, <2>1, <2>3, NothingCredited DEF ProgressInv, EventsTell, approvals
  <2> QED BY <2>2, <2>4 DEF ProgressInv
<1> QED BY <1>6, <1>7, <1>8

-----------------------------------------------------------------------------
(* The specification *)

LEMMA ProgressStarts ==
  ASSUME ProgressInit
  PROVE  ProgressInv
<1>1. ProgressTypeOK
  <2>1. awardEvent \in [Visited -> EventRow]
    BY FreshRows DEF ProgressInit
  <2>2. 0 \in 0..MaxUnpublish
    BY AwardsAreCounted
  <2> QED BY <2>1, <2>2 DEF ProgressInit, ProgressTypeOK
<1>2. \A s \in Visited : awardEvent[s].status = "none"
  BY DEF ProgressInit, NoEvent
<1>3. EventsTell
  BY <1>2 DEF ProgressInit, EventsTell
<1>4. XpRecorded = 0
  <2>1. \A s \in Visited : xpEvents[s] = 0
    BY DEF ProgressInit
  <2>2. Cardinality(Visited) \in Nat
    BY AwardsAreCounted, FS_CardinalityType
  <2>3. XpRecorded = 0 * Cardinality(Visited)
    BY <2>1, AwardsAreCounted, SumOfConstant DEF XpRecorded
  <2> QED BY <2>2, <2>3
<1>5. ~Pioneer(visits)
  <2>1. StopsVisited(visits) = {}
    BY DEF ProgressInit, StopsVisited
  <2> QED BY <2>1, FS_EmptySet, AwardsAreCounted DEF Pioneer
<1>6. TotalsTell
  BY <1>4, <1>5 DEF ProgressInit, TotalsTell
<1> QED BY <1>1, <1>3, <1>6 DEF ProgressInv

LEMMA ProgressKeeps ==
  ASSUME ProgressInv, [ProgressNext]_progressVars
  PROVE  ProgressInv'
<1>1. CASE UNCHANGED progressVars
  BY <1>1 DEF progressVars, ProgressInv, ProgressTypeOK, EventsTell, TotalsTell, XpRecorded,
     Pioneer, StopsVisited
<1>2. CASE ApprovalStep
  BY <1>2, ApproveVisitKeeps, CatchUpKeeps, PublishStopKeeps DEF ApprovalStep
<1>3. ASSUME NEW w \in Awarders, AwarderWork(w)
      PROVE  ProgressInv'
  <2>1. CASE ClaimEvents(w)
    BY <2>1, ClaimEventsKeeps
  <2>2. ASSUME NEW claim \in held[w], RefuseEvent(w, claim)
        PROVE  ProgressInv'
    BY <2>2, FailureKeeps DEF RefuseEvent
  <2>3. ASSUME NEW claim \in held[w], NEW boost \in XpBoosts, ProcessEvent(w, claim, boost)
        PROVE  ProgressInv'
    BY <2>3, ProcessEventKeeps
  <2> QED BY <1>3, <2>1, <2>2, <2>3 DEF AwarderWork
<1>4. ASSUME NEW w \in Awarders, AwarderFault(w)
      PROVE  ProgressInv'
  <2>1. CASE DropBatch(w)
    BY <2>1, DropBatchKeeps
  <2>2. ASSUME NEW claim \in held[w], EventError(w, claim)
        PROVE  ProgressInv'
    BY <2>2, FailureKeeps DEF EventError
  <2> QED BY <1>4, <2>1, <2>2 DEF AwarderFault
<1>5. CASE EventTick
  BY <1>5, EventTickKeeps
<1> QED BY <1>1, <1>2, <1>3, <1>4, <1>5 DEF ProgressNext

LEMMA ProgressGives ==
  ASSUME ProgressInv
  PROVE  VisitsCreditedOnce
<1>1. MapThenSumSet(LAMBDA s : xpEvents[s], Visited) = XpRecorded
  BY XpIsSum DEF XpRecorded
<1>2. \A s \in visits : proofStatus[s] = "approved"
  BY DEF ProgressInv, EventsTell
<1> QED BY <1>1, <1>2 DEF ProgressInv, EventsTell, TotalsTell, VisitsCreditedOnce, Pioneer

\* However workers claim, fail, lose their leases or stop, and whatever is delivered
\* again: an event is completed if and only if its visit and its XP are recorded, and
\* totals, levels and badges are those of the visits recorded, for any number of
\* submissions, spots and workers (progression/service.ts).
THEOREM ProgressionIsSound == ProgressSpec => [](ProgressTypeOK /\ VisitsCreditedOnce)
<1>1. ProgressInit => ProgressInv
  BY ProgressStarts
<1>2. ProgressInv /\ [ProgressNext]_progressVars => ProgressInv'
  BY ProgressKeeps
<1>3. ProgressInv => ProgressTypeOK /\ VisitsCreditedOnce
  BY ProgressGives DEF ProgressInv
<1> QED BY <1>1, <1>2, <1>3, PTL DEF ProgressSpec

-----------------------------------------------------------------------------
(* Streaks of official rounds *)

\* Rounds a..b in a row by the numbers voted in and the numbers cancelled.
InRow(V, X, a, b) == \A m \in a..b : m \in V \/ m \in X

VotesIn(V, a, b) == Cardinality({m \in a..b : m \in V})

Streaky(V, X, t) ==
  \E a, b \in 1..MaxRound : InRow(V, X, a, b) /\ VotesIn(V, a, b) >= t

\* The numbers of the rounds a fan voted in, once those in more are finalized
\* as well, and of the cancelled rounds.
VotedNos(f, more) ==
  {RoundNo[c] : c \in {d \in Official : (round[d] = "finalized" \/ d \in more) /\ f \in part[d]}}

CancelledNos == {RoundNo[c] : c \in {d \in Official : round[d] = "cancelled"}}

Earns(f, t, more) == Streaky(VotedNos(f, more), CancelledNos, t)

\* A finalization holds a closed round, and its participants.
HoldsItsRound ==
  \A c \in Official :
    IF txn[c].on THEN round[c] = "over" /\ txn[c].left \subseteq part[c] ELSE txn[c] = NoTxn

\* What was given, and what a finalization is about to give, was earned.
GivenIsEarned ==
  /\ \A f \in Fans, t \in Streaks : <<f, t>> \in streakBadges => Earns(f, t, {})
  /\ \A f \in Fans, t \in Milestones : <<f, t>> \in told => Earns(f, t, {})
  /\ \A c \in Official, f \in Fans, t \in Streaks :
       <<f, t>> \in txn[c].badges => Earns(f, t, {c})
  /\ \A c \in Official, f \in Fans, t \in Milestones :
       <<f, t>> \in txn[c].told => Earns(f, t, {c})

\* The rounds that ended are numbered 1..k, none twice, and the one being
\* finalized is next.
NumberedTo(k) ==
  /\ {RoundNo[d] : d \in Ended} = 1..k
  /\ \A c, d \in Ended : RoundNo[c] = RoundNo[d] => c = d
  /\ \A c \in Official : txn[c].on => RoundNo[c] = k + 1
  /\ \A c, d \in Official : txn[c].on /\ txn[d].on => c = d

InTurn == orderly => \E k \in Nat : NumberedTo(k)

\* Where rounds end in turn, what was earned was given, or is about to be.
EarnedIsGiven ==
  orderly =>
    /\ \A f \in Fans, t \in Streaks : Earns(f, t, {}) => <<f, t>> \in streakBadges
    /\ \A c \in Official, f \in Fans, t \in Streaks :
         txn[c].on /\ f \in part[c] \ txn[c].left /\ Earns(f, t, {c})
           => <<f, t>> \in txn[c].badges \cup streakBadges

GoalsWereMet ==
  \A g \in Goals : unlocked[g] # 0 => unlocked[g] \in Target[g]..Cardinality(FinalizedVoters)

RetentionInv ==
  /\ RetentionTypeOK /\ HoldsItsRound /\ GivenIsEarned /\ InTurn /\ EarnedIsGiven /\ GoalsWereMet

-----------------------------------------------------------------------------
(* The fold over a fan's rounds *)

\* The functions that satisfy the recursion equation on the subsets of D.
Folds(it, f, rows, D) ==
  it = [s \in SUBSET D |-> IF s = {} THEN NoStreak
                           ELSE StreakRow(f, it[s \ {Max(s)}], rows[Max(s)])]

FoldOf(f, rows, D) ==
  CHOOSE it : it = [s \in SUBSET D |-> IF s = {} THEN NoStreak
                           ELSE StreakRow(f, it[s \ {Max(s)}], rows[Max(s)])]

LEMMA StreakIsFolded ==
  ASSUME NEW f, NEW rows
  PROVE  OfficialStreak(f, rows) = FoldOf(f, rows, DOMAIN rows)[DOMAIN rows].current
BY DEF OfficialStreak, FoldLeft, MapThenFoldSet, FoldOf

LEMMA LastOfSome ==
  ASSUME NEW D, IsFiniteSet(D), \A x \in D : x \in Int, NEW s \in SUBSET D, s # {}
  PROVE  Max(s) \in s /\ IsFiniteSet(s)
<1>1. IsFiniteSet(s)
  BY FS_Subset
<1>2. \A x \in s : x \in Int
  OBVIOUS
<1> QED BY <1>1, <1>2, GreatestExists

LEMMA FoldsAgree ==
  ASSUME NEW f, NEW rows, NEW S, IsFiniteSet(S), \A x \in S : x \in Int, NEW T, T \subseteq S,
         NEW it, NEW jt, Folds(it, f, rows, S), Folds(jt, f, rows, T)
  PROVE  \A s \in SUBSET T : it[s] = jt[s]
<1> DEFINE Bad == {s \in SUBSET T : it[s] # jt[s]}
<1> SUFFICES ASSUME Bad # {} PROVE FALSE
  OBVIOUS
<1>1. PICK s \in Bad : \A t \in Bad : t \subseteq s => t = s
  <2>1. IsFiniteSet(T)
    BY FS_Subset
  <2>2. Bad \subseteq SUBSET T
    OBVIOUS
  <2> HIDE DEF Bad
  <2> QED BY <2>1, <2>2, SmallestSubset
<1>2. s # {}
  BY DEF Folds
<1>3. Max(s) \in s
  BY <1>2, LastOfSome
<1>4. s \ {Max(s)} \notin Bad
  BY <1>1, <1>3
<1>5. it[s \ {Max(s)}] = jt[s \ {Max(s)}]
  BY <1>4
<1>6. /\ it[s] = StreakRow(f, it[s \ {Max(s)}], rows[Max(s)])
      /\ jt[s] = StreakRow(f, jt[s \ {Max(s)}], rows[Max(s)])
  BY <1>2 DEF Folds
<1> QED BY <1>5, <1>6

LEMMA FoldExists ==
  ASSUME NEW f, NEW rows, NEW S, IsFiniteSet(S), \A x \in S : x \in Int
  PROVE  Folds(FoldOf(f, rows, S), f, rows, S)
<1> DEFINE Of(D) == FoldOf(f, rows, D)
           Bad == {T \in SUBSET S : ~Folds(Of(T), f, rows, T)}
<1> SUFFICES ASSUME Bad # {} PROVE FALSE
  OBVIOUS
<1>1. PICK T \in Bad : \A U \in Bad : U \subseteq T => U = T
  <2>1. Bad \subseteq SUBSET S
    OBVIOUS
  <2> HIDE DEF Bad
  <2> QED BY <2>1, SmallestSubset
<1>2. ASSUME NEW U \in SUBSET T, U # T
      PROVE  Folds(Of(U), f, rows, U)
  BY <1>1, <1>2
<1> DEFINE it == [s \in SUBSET T |->
      IF s = {} THEN NoStreak
      ELSE IF s # T THEN Of(s)[s]
      ELSE StreakRow(f, Of(s \ {Max(s)})[s \ {Max(s)}], rows[Max(s)])]
<1>3. ASSUME NEW s \in SUBSET T, s # {}
      PROVE  it[s] = StreakRow(f, it[s \ {Max(s)}], rows[Max(s)])
  <2> DEFINE u == s \ {Max(s)}
  <2>1. Max(s) \in s /\ u \in SUBSET T /\ u \subseteq s /\ u # s
    BY <1>3, LastOfSome
  <2>2. u # T
    BY <2>1
  <2>3. IsFiniteSet(s) /\ IsFiniteSet(u) /\ \A x \in s : x \in Int
    <3>1. IsFiniteSet(T)
      BY FS_Subset
    <3> QED BY <3>1, <2>1, FS_Subset
  <2>4. Folds(Of(u), f, rows, u)
    BY <1>2, <2>1, <2>2
  <2>5. it[u] = Of(u)[u]
    <3>1. CASE u = {}
      <4>1. Of(u)[u] = NoStreak
        BY <2>4, <3>1 DEF Folds
      <4> QED BY <3>1, <4>1
    <3>2. CASE u # {}
      BY <2>1, <2>2, <3>2
    <3> QED BY <3>1, <3>2
  <2>6. CASE s = T
    BY <1>3, <2>5, <2>6
  <2>7. CASE s # T
    <3>1. Folds(Of(s), f, rows, s)
      BY <1>2, <2>7
    <3>2. Of(s)[u] = Of(u)[u]
      <4>1. PICK all : all = Of(s)
        OBVIOUS
      <4>2. PICK some : some = Of(u)
        OBVIOUS
      <4>3. Folds(all, f, rows, s) /\ Folds(some, f, rows, u)
        BY <2>4, <3>1, <4>1, <4>2
      <4> HIDE DEF u, Of
      <4>4. \A v \in SUBSET u : all[v] = some[v]
        BY <2>1, <2>3, <4>3, FoldsAgree
      <4> QED BY <4>1, <4>2, <4>4
    <3>3. Of(s)[s] = StreakRow(f, Of(s)[u], rows[Max(s)])
      BY <1>3, <3>1 DEF Folds
    <3>4. it[s] = Of(s)[s]
      BY <1>3, <2>7
    <3> QED BY <2>5, <3>2, <3>3, <3>4
  <2> QED BY <2>6, <2>7
<1>4. Folds(it, f, rows, T)
  <2>1. \A s \in SUBSET T : it[s] = IF s = {} THEN NoStreak
                                    ELSE StreakRow(f, it[s \ {Max(s)}], rows[Max(s)])
    BY <1>3
  <2>2. it = [s \in SUBSET T |-> it[s]]
    OBVIOUS
  <2> HIDE DEF it
  <2> QED BY <2>1, <2>2 DEF Folds
<1>5. Folds(Of(T), f, rows, T)
  <2> HIDE DEF it
  <2> QED BY <1>4 DEF Folds, FoldOf
<1> QED BY <1>5

\* What the fold has after each row.
IsTable(tab, f, rows, n) ==
  /\ tab = [i \in 0..n |-> tab[i]]
  /\ tab[0] = NoStreak
  /\ \A i \in 1..n : tab[i] = StreakRow(f, tab[i - 1], rows[i])
  /\ OfficialStreak(f, rows) = tab[n].current

LEMMA TableExists ==
  ASSUME NEW f, NEW n \in Nat, NEW rows, DOMAIN rows = 1..n
  PROVE  \E tab : IsTable(tab, f, rows, n)
<1>1. IsFiniteSet(1..n) /\ \A x \in 1..n : x \in Int
  <2>1. 1 \in Int /\ n \in Int
    OBVIOUS
  <2> QED BY <2>1, FS_Interval
<1>2. PICK it : it = FoldOf(f, rows, 1..n)
  OBVIOUS
<1>3. Folds(it, f, rows, 1..n)
  BY <1>1, <1>2, FoldExists
<1>4. ASSUME NEW i \in 1..n
      PROVE  it[1..i] = StreakRow(f, it[1..(i - 1)], rows[i])
  <2>1. PICK s : s = 1..i
    OBVIOUS
  <2>2. s \in SUBSET (1..n) /\ s # {} /\ i \in s /\ \A x \in s : x <= i
    BY <2>1
  <2>3. Max(s) \in s /\ \A x \in s : x <= Max(s)
    <3>1. IsFiniteSet(s) /\ \A x \in s : x \in Int
      BY <1>1, <2>2, FS_Subset
    <3> QED BY <3>1, <2>2, GreatestExists
  <2>4. Max(s) = i
    <3>1. Max(s) \in Int
      BY <2>1, <2>3
    <3> QED BY <3>1, <2>2, <2>3
  <2>5. s \ {i} = 1..(i - 1)
    BY <2>1
  <2>6. it[s] = StreakRow(f, it[s \ {Max(s)}], rows[Max(s)])
    BY <1>3, <2>2 DEF Folds
  <2> QED BY <2>1, <2>4, <2>5, <2>6
<1> DEFINE tab == [i \in 0..n |-> it[1..i]]
<1>5. tab[0] = NoStreak
  <2>1. 1..0 = {}
    OBVIOUS
  <2> QED BY <1>3, <2>1 DEF Folds
<1>6. \A i \in 1..n : tab[i] = StreakRow(f, tab[i - 1], rows[i])
  BY <1>4
<1>7. OfficialStreak(f, rows) = tab[n].current
  BY <1>2, StreakIsFolded
<1>8. tab = [i \in 0..n |-> tab[i]]
  OBVIOUS
<1> HIDE DEF tab
<1> QED BY <1>5, <1>6, <1>7, <1>8 DEF IsTable

LEMMA LeastIndex ==
  ASSUME NEW n \in Nat, NEW B \in SUBSET (0..n), B # {}
  PROVE  \E i \in B : \A j \in B : i <= j
<1>1. IsFiniteSet(0..n)
  <2>1. 0 \in Int /\ n \in Int
    OBVIOUS
  <2> QED BY <2>1, FS_Interval
<1>2. IsFiniteSet(B)
  BY <1>1, FS_Subset
<1>3. \A x \in B : x \in Int
  OBVIOUS
<1> QED BY <1>2, <1>3, LeastExists

-----------------------------------------------------------------------------
(* Votes in an interval of rounds *)

LEMMA VotesAreNat ==
  ASSUME NEW V, NEW a \in Int, NEW b \in Int
  PROVE  IsFiniteSet({m \in a..b : m \in V}) /\ VotesIn(V, a, b) \in Nat
<1>1. IsFiniteSet(a..b)
  BY FS_Interval
<1>2. IsFiniteSet({m \in a..b : m \in V})
  BY <1>1, FS_Subset
<1> QED BY <1>2, FS_CardinalityType DEF VotesIn

LEMMA MoreVotes ==
  ASSUME NEW V, NEW W, V \subseteq W, NEW a \in Int, NEW b \in Int
  PROVE  VotesIn(V, a, b) <= VotesIn(W, a, b)
<1>1. {m \in a..b : m \in V} \subseteq {m \in a..b : m \in W}
  OBVIOUS
<1>2. IsFiniteSet({m \in a..b : m \in W})
  BY VotesAreNat
<1> QED BY <1>1, <1>2, FS_Subset DEF VotesIn

\* One more round.
LEMMA NextVote ==
  ASSUME NEW V, NEW a \in Int, NEW b \in Int, a <= b
  PROVE  VotesIn(V, a, b) = VotesIn(V, a, b - 1) + (IF b \in V THEN 1 ELSE 0)
<1> DEFINE all == {m \in a..b : m \in V}
           some == {m \in a..(b - 1) : m \in V}
<1>1. IsFiniteSet(some) /\ Cardinality(some) \in Nat
  <2>1. b - 1 \in Int
    OBVIOUS
  <2>2. IsFiniteSet(some)
    BY <2>1, VotesAreNat
  <2> HIDE DEF some
  <2> QED BY <2>2, FS_CardinalityType
<1>2. CASE b \in V
  <2>1. all = some \cup {b} /\ b \notin some
    BY <1>2
  <2> HIDE DEF all, some
  <2>2. Cardinality(all) = Cardinality(some) + 1
    BY <1>1, <2>1, FS_AddElement
  <2> QED BY <1>2, <2>2 DEF VotesIn, all, some
<1>3. CASE b \notin V
  <2>1. all = some
    BY <1>3
  <2> HIDE DEF all, some
  <2>2. Cardinality(all) = Cardinality(some)
    BY <2>1
  <2> QED BY <1>1, <1>3, <2>2 DEF VotesIn, all, some
<1> QED BY <1>2, <1>3

LEMMA NoVotes ==
  ASSUME NEW V, NEW a \in Int, NEW b \in Int, \A m \in a..b : m \notin V
  PROVE  VotesIn(V, a, b) = 0
<1>1. {m \in a..b : m \in V} = {}
  OBVIOUS
<1> QED BY <1>1, FS_EmptySet DEF VotesIn

LEMMA StreaksLast ==
  ASSUME NEW V, NEW W, V \subseteq W, NEW X, NEW Y, X \subseteq Y, NEW t \in Nat, Streaky(V, X, t)
  PROVE  Streaky(W, Y, t)
<1>1. PICK a \in 1..MaxRound, b \in 1..MaxRound : InRow(V, X, a, b) /\ VotesIn(V, a, b) >= t
  BY DEF Streaky
<1>2. a \in Int /\ b \in Int
  OBVIOUS
<1>3. InRow(W, Y, a, b)
  BY <1>1 DEF InRow
<1>4. VotesIn(W, a, b) >= t
  <2>1. VotesIn(V, a, b) <= VotesIn(W, a, b)
    BY <1>2, MoreVotes
  <2>2. VotesIn(V, a, b) \in Nat /\ VotesIn(W, a, b) \in Nat
    BY <1>2, VotesAreNat
  <2> QED BY <1>1, <2>1, <2>2
<1> QED BY <1>3, <1>4 DEF Streaky

-----------------------------------------------------------------------------
(* What a streak counts was earned *)

AccType == [number : 0..MaxRound, running : Nat, current : Nat]

\* A run of rounds that ends with b.
RunTo(V, X, b, r) == \E a \in 1..b : InRow(V, X, a, b) /\ VotesIn(V, a, b) >= r

Counted(acc, V, X) ==
  /\ acc \in AccType
  /\ acc.running > 0 => acc.number > 0 /\ RunTo(V, X, acc.number, acc.running)
  /\ acc.current > 0 => \E b \in 1..MaxRound : RunTo(V, X, b, acc.current)

LEMMA RunGoesOn ==
  ASSUME NEW V, NEW X, NEW b \in 1..MaxRound, b - 1 > 0, NEW r \in Nat,
         RunTo(V, X, b - 1, r), b \in V \/ b \in X
  PROVE  RunTo(V, X, b, r + (IF b \in V THEN 1 ELSE 0))
<1>1. PICK a \in 1..(b - 1) : InRow(V, X, a, b - 1) /\ VotesIn(V, a, b - 1) >= r
  BY DEF RunTo
<1>2. a \in Int /\ b \in Int /\ b - 1 \in Int /\ a <= b
  OBVIOUS
<1>3. VotesIn(V, a, b) = VotesIn(V, a, b - 1) + (IF b \in V THEN 1 ELSE 0)
  BY <1>2, NextVote
<1>4. VotesIn(V, a, b - 1) \in Nat
  BY <1>2, VotesAreNat
<1>5. InRow(V, X, a, b)
  BY <1>1 DEF InRow
<1>6. VotesIn(V, a, b) >= r + (IF b \in V THEN 1 ELSE 0)
  BY <1>1, <1>3, <1>4
<1> QED BY <1>2, <1>5, <1>6 DEF RunTo

LEMMA RunOfOne ==
  ASSUME NEW V, NEW X, NEW b \in 1..MaxRound, b \in V
  PROVE  RunTo(V, X, b, 1)
<1>1. b \in Int /\ b <= b /\ b - 1 \in Int
  OBVIOUS
<1>2. VotesIn(V, b, b) = VotesIn(V, b, b - 1) + 1
  BY <1>1, NextVote
<1>3. VotesIn(V, b, b - 1) \in Nat
  BY <1>1, VotesAreNat
<1>4. InRow(V, X, b, b)
  BY DEF InRow
<1> QED BY <1>2, <1>3, <1>4 DEF RunTo

LEMMA RunIsLess ==
  ASSUME NEW V, NEW X, NEW b \in 1..MaxRound, NEW r \in Nat, NEW q \in Nat, q <= r,
         RunTo(V, X, b, r)
  PROVE  RunTo(V, X, b, q)
<1>1. PICK a \in 1..b : InRow(V, X, a, b) /\ VotesIn(V, a, b) >= r
  BY DEF RunTo
<1>2. a \in Int /\ b \in Int
  OBVIOUS
<1>3. VotesIn(V, a, b) \in Nat
  BY <1>2, VotesAreNat
<1> QED BY <1>1, <1>3 DEF RunTo

\* One row.
LEMMA RowIsCounted ==
  ASSUME NEW V, NEW X, NEW acc, Counted(acc, V, X), NEW f, NEW c \in Official,
         round[c] = "cancelled" => RoundNo[c] \in X,
         round[c] # "cancelled" /\ f \in part[c] => RoundNo[c] \in V
  PROVE  Counted(StreakRow(f, acc, c), V, X)
<1>1. PICK n \in 1..MaxRound : n = RoundNo[c]
  BY RoundsAreNumbered
<1>2. PICK carried : carried = Carried(acc, n)
  OBVIOUS
<1>3. acc \in AccType /\ acc.number \in 0..MaxRound /\ acc.running \in Nat /\ acc.current \in Nat
  BY DEF Counted, AccType
<1>4. carried \in Nat /\ (carried = acc.running \/ carried = 0)
  BY <1>2, <1>3 DEF Carried
<1>5. carried > 0 => n - 1 > 0 /\ RunTo(V, X, n - 1, carried)
  <2>1. SUFFICES ASSUME carried > 0 PROVE n - 1 > 0 /\ RunTo(V, X, n - 1, carried)
    OBVIOUS
  <2>2. carried = acc.running /\ (acc.number = 0 \/ acc.number = n - 1)
    BY <1>2, <2>1 DEF Carried
  <2>3. acc.number > 0 /\ RunTo(V, X, acc.number, acc.running)
    BY <2>1, <2>2 DEF Counted
  <2> QED BY <1>3, <2>2, <2>3
<1>6. PICK carry : carry = StreakRow(f, acc, c)
  OBVIOUS
<1>7. CASE round[c] = "cancelled"
  <2>1. carry = [number |-> n, running |-> carried, current |-> acc.current]
    BY <1>1, <1>2, <1>6, <1>7 DEF StreakRow
  <2>2. carry \in AccType /\ carry.number = n /\ carry.running = carried /\ carry.current = acc.current
    BY <1>3, <1>4, <2>1 DEF AccType
  <2>3. carried > 0 => RunTo(V, X, n, carried)
    <3>1. SUFFICES ASSUME carried > 0 PROVE RunTo(V, X, n, carried)
      OBVIOUS
    <3>2. n \in X
      BY <1>1, <1>7
    <3>3. PICK more \in Nat : more = carried + (IF n \in V THEN 1 ELSE 0)
      BY <1>4
    <3>4. RunTo(V, X, n, more)
      BY <1>4, <1>5, <3>1, <3>2, <3>3, RunGoesOn
    <3>5. carried <= more
      BY <1>4, <3>3
    <3> QED BY <1>4, <3>4, <3>5, RunIsLess
  <2>4. carry.current > 0 => \E b \in 1..MaxRound : RunTo(V, X, b, carry.current)
    BY <2>2 DEF Counted
  <2> QED BY <1>6, <2>2, <2>3, <2>4 DEF Counted
<1>8. CASE round[c] # "cancelled" /\ f \in part[c]
  <2>1. PICK more \in Nat : more = carried + 1
    BY <1>4
  <2>2. carry = [number |-> n, running |-> more, current |-> more]
    BY <1>1, <1>2, <1>6, <1>8, <2>1 DEF StreakRow
  <2>3. carry \in AccType /\ carry.number = n /\ carry.running = more /\ carry.current = more
    BY <2>2 DEF AccType
  <2>4. n \in V
    BY <1>1, <1>8
  <2>5. RunTo(V, X, n, more)
    <3>1. CASE carried > 0
      <4>1. more = carried + (IF n \in V THEN 1 ELSE 0)
        BY <2>1, <2>4
      <4> QED BY <1>4, <1>5, <2>4, <3>1, <4>1, RunGoesOn
    <3>2. CASE carried = 0
      BY <2>1, <2>4, <3>2, RunOfOne
    <3> QED BY <1>4, <3>1, <3>2
  <2> QED BY <1>6, <2>3, <2>5 DEF Counted
<1>9. CASE round[c] # "cancelled" /\ f \notin part[c]
  <2>1. carry = [number |-> n, running |-> 0, current |-> 0]
    BY <1>1, <1>2, <1>6, <1>9 DEF StreakRow
  <2>2. carry \in AccType /\ carry.running = 0 /\ carry.current = 0
    BY <2>1 DEF AccType
  <2> QED BY <1>6, <2>2 DEF Counted
<1> QED BY <1>7, <1>8, <1>9

LEMMA TableIsCounted ==
  ASSUME NEW V, NEW X, NEW S \in SUBSET Official, NEW f,
         \A c \in S : /\ round[c] = "cancelled" => RoundNo[c] \in X
                      /\ round[c] # "cancelled" /\ f \in part[c] => RoundNo[c] \in V,
         NEW n \in Nat, NEW rows \in [1..n -> S], NEW tab, IsTable(tab, f, rows, n)
  PROVE  \A i \in 0..n : Counted(tab[i], V, X)
<1> DEFINE Bad == {i \in 0..n : ~Counted(tab[i], V, X)}
<1> SUFFICES ASSUME Bad # {} PROVE FALSE
  OBVIOUS
<1>1. PICK i \in Bad : \A j \in Bad : i <= j
  <2>1. Bad \in SUBSET (0..n)
    OBVIOUS
  <2> HIDE DEF Bad
  <2> QED BY <2>1, LeastIndex
<1>2. i # 0
  <2>1. tab[0] = NoStreak
    BY DEF IsTable
  <2>2. 0 \in 0..MaxRound
    BY StreaksAreCounted
  <2>3. Counted(NoStreak, V, X)
    BY <2>2 DEF Counted, NoStreak, AccType
  <2> QED BY <2>1, <2>3
<1>3. i - 1 \in 0..n /\ i - 1 \notin Bad /\ i \in 1..n
  BY <1>1, <1>2
<1>4. Counted(tab[i - 1], V, X)
  BY <1>3
<1>5. tab[i] = StreakRow(f, tab[i - 1], rows[i])
  BY <1>3 DEF IsTable
<1>6. rows[i] \in S
  BY <1>3
<1>7. Counted(tab[i], V, X)
  BY <1>4, <1>5, <1>6, RowIsCounted
<1> QED BY <1>7

LEMMA StreakIsNat ==
  ASSUME NEW f, NEW S \in SUBSET Official, NEW n \in Nat, NEW rows \in [1..n -> S]
  PROVE  OfficialStreak(f, rows) \in Nat
<1>1. DOMAIN rows = 1..n
  OBVIOUS
<1>2. PICK tab : IsTable(tab, f, rows, n)
  BY <1>1, TableExists
<1>3. PICK all : all = 1..MaxRound
  OBVIOUS
<1>4. \A c \in S : RoundNo[c] \in all
  BY <1>3, RoundsAreNumbered
<1>5. \A i \in 0..n : Counted(tab[i], all, all)
  BY <1>2, <1>4, TableIsCounted
<1>6. tab[n].current \in Nat
  BY <1>5 DEF Counted, AccType
<1> QED BY <1>2, <1>6 DEF IsTable

\* The streak of a fan counts rounds in a row.
LEMMA StreakIsEarned ==
  ASSUME NEW V, NEW X, NEW S \in SUBSET Official, NEW f,
         \A c \in S : /\ round[c] = "cancelled" => RoundNo[c] \in X
                      /\ round[c] # "cancelled" /\ f \in part[c] => RoundNo[c] \in V,
         NEW n \in Nat, NEW rows \in [1..n -> S],
         NEW t \in Nat \ {0}, t <= OfficialStreak(f, rows)
  PROVE  Streaky(V, X, t)
<1>1. DOMAIN rows = 1..n
  OBVIOUS
<1>2. PICK tab : IsTable(tab, f, rows, n)
  BY <1>1, TableExists
<1>3. \A i \in 0..n : Counted(tab[i], V, X)
  BY <1>2, TableIsCounted
<1>4. PICK r : r = tab[n].current
  OBVIOUS
<1>5. r \in Nat /\ (r > 0 => \E b \in 1..MaxRound : RunTo(V, X, b, r))
  BY <1>3, <1>4 DEF Counted, AccType
<1>6. OfficialStreak(f, rows) = r
  BY <1>2, <1>4 DEF IsTable
<1>7. PICK b \in 1..MaxRound : RunTo(V, X, b, r)
  BY <1>5, <1>6
<1>8. RunTo(V, X, b, t)
  BY <1>5, <1>6, <1>7, RunIsLess
<1>9. PICK a \in 1..b : InRow(V, X, a, b) /\ VotesIn(V, a, b) >= t
  BY <1>8 DEF RunTo
<1>10. a \in 1..MaxRound
  BY StreaksAreCounted
<1> QED BY <1>9, <1>10 DEF Streaky

-----------------------------------------------------------------------------
(* What was earned in turn is counted *)

\* After the i-th of the rounds numbered 1, 2 and so on.
CountsAll(acc, V, X, i) ==
  /\ acc.number = i /\ acc.running \in Nat
  /\ \A a \in 1..i : InRow(V, X, a, i) => VotesIn(V, a, i) <= acc.running

LEMMA RowCountsAll ==
  ASSUME NEW V, NEW X, NEW i \in Nat \ {0}, NEW acc, CountsAll(acc, V, X, i - 1), NEW f, NEW c,
         RoundNo[c] = i, i \in V => round[c] # "cancelled" /\ f \in part[c],
         i \in X => round[c] = "cancelled"
  PROVE  CountsAll(StreakRow(f, acc, c), V, X, i)
<1>1. PICK r \in Nat : r = acc.running
  BY DEF CountsAll
<1>2. acc.number = i - 1
  BY DEF CountsAll
<1>3. Carried(acc, i) = r
  BY <1>1, <1>2 DEF Carried
<1>4. PICK carry : carry = StreakRow(f, acc, c)
  OBVIOUS
<1>5. /\ carry.number = i /\ carry.running \in Nat
      /\ i \in V => carry.running = r + 1
      /\ i \in X => carry.running = r
  BY <1>3, <1>4 DEF StreakRow
<1>6. ASSUME NEW a \in 1..i, InRow(V, X, a, i)
      PROVE  VotesIn(V, a, i) <= carry.running
  <2>1. a \in Int /\ i \in Int /\ i - 1 \in Int /\ a <= i
    OBVIOUS
  <2>2. i \in V \/ i \in X
    BY <1>6, <2>1 DEF InRow
  <2>3. VotesIn(V, a, i) = VotesIn(V, a, i - 1) + (IF i \in V THEN 1 ELSE 0)
    BY <2>1, NextVote
  <2>4. VotesIn(V, a, i - 1) \in Nat
    BY <2>1, VotesAreNat
  <2>5. VotesIn(V, a, i - 1) <= r
    <3>1. CASE a = i
      <4>1. \A m \in a..(i - 1) : m \notin V
        BY <3>1
      <4>2. VotesIn(V, a, i - 1) = 0
        BY <2>1, <4>1, NoVotes
      <4> QED BY <4>2
    <3>2. CASE a # i
      <4>1. a \in 1..(i - 1)
        BY <3>2
      <4>2. InRow(V, X, a, i - 1)
        BY <1>6 DEF InRow
      <4> QED BY <1>1, <4>1, <4>2 DEF CountsAll
    <3> QED BY <3>1, <3>2
  <2>6. CASE i \in V
    BY <1>5, <2>3, <2>4, <2>5, <2>6
  <2>7. CASE i \notin V
    BY <1>5, <2>2, <2>3, <2>4, <2>5, <2>7
  <2> QED BY <2>6, <2>7
<1> QED BY <1>4, <1>5, <1>6 DEF CountsAll

\* Rows in the order of numbers that are 1..k, none twice.
LEMMA RowsAreNumbered ==
  ASSUME NEW S \in SUBSET Official, NEW k \in Nat, {RoundNo[d] : d \in S} = 1..k,
         \A c, d \in S : RoundNo[c] = RoundNo[d] => c = d,
         NEW rows \in InOrder(S)
  PROVE  rows \in [1..k -> S] /\ \A i \in 1..k : RoundNo[rows[i]] = i
<1>1. IsFiniteSet(S)
  BY StreaksAreCounted, FS_Subset
<1>2. PICK n \in Nat : n = Cardinality(S)
  BY <1>1, FS_CardinalityType
<1>3. /\ rows \in [1..n -> S]
      /\ \A i, j \in 1..n : i # j => rows[i] # rows[j]
      /\ \A i, j \in 1..n : i < j => RoundNo[rows[i]] <= RoundNo[rows[j]]
  BY <1>2 DEF InOrder, SetToSeqs
<1>4. IsFiniteSet(1..n) /\ Cardinality(1..n) = n
  <2>1. 1 \in Int /\ n \in Int
    OBVIOUS
  <2> QED BY <2>1, FS_Interval
<1>5. rows \in Surjection(1..n, S)
  <2>1. rows \in Injection(1..n, S)
    BY <1>3 DEF Injection, IsInjective
  <2> QED BY <1>1, <1>2, <1>4, <2>1, FS_Injection
<1>6. \A d \in S : \E i \in 1..n : rows[i] = d
  BY <1>5 DEF Surjection
<1>7. PICK no : no = [i \in 1..n |-> RoundNo[rows[i]]]
  OBVIOUS
<1>8. \A i \in 1..n : no[i] = RoundNo[rows[i]] /\ no[i] \in 1..k
  <2>1. \A i \in 1..n : rows[i] \in S
    BY <1>3
  <2> QED BY <1>7, <2>1
<1>9. \A m \in 1..k : \E i \in 1..n : no[i] = m
  <2> SUFFICES ASSUME NEW m \in 1..k PROVE \E i \in 1..n : no[i] = m
    OBVIOUS
  <2>1. PICK d \in S : RoundNo[d] = m
    OBVIOUS
  <2> QED BY <1>6, <1>8, <2>1
<1>10. \A i, j \in 1..n : i < j => no[i] < no[j]
  <2> SUFFICES ASSUME NEW i \in 1..n, NEW j \in 1..n, i < j PROVE no[i] < no[j]
    OBVIOUS
  <2>1. no[i] <= no[j]
    BY <1>3, <1>8
  <2>2. rows[i] \in S /\ rows[j] \in S /\ rows[i] # rows[j]
    BY <1>3
  <2>3. no[i] # no[j]
    BY <1>8, <2>2
  <2> QED BY <1>8, <2>1, <2>3
<1>11. \A i \in 1..n : no[i] = i
  <2> DEFINE Bad == {i \in 1..n : no[i] # i}
  <2> SUFFICES ASSUME Bad # {} PROVE FALSE
    OBVIOUS
  <2>1. PICK i \in Bad : \A j \in Bad : i <= j
    <3>1. Bad \in SUBSET (0..n)
      OBVIOUS
    <3> HIDE DEF Bad
    <3> QED BY <3>1, LeastIndex
  <2>2. \A j \in 1..n : j < i => no[j] = j
    BY <2>1
  <2>3. i \in 1..n /\ no[i] \in 1..k /\ no[i] # i
    BY <1>8, <2>1
  <2>4. no[i] >= i
    <3>1. CASE i = 1
      BY <2>3, <3>1
    <3>2. CASE i # 1
      <4>1. i - 1 \in 1..n /\ i - 1 < i
        BY <2>3, <3>2
      <4>2. no[i - 1] = i - 1 /\ no[i - 1] < no[i]
        BY <1>10, <2>2, <2>3, <4>1
      <4> QED BY <2>3, <4>2
    <3> QED BY <3>1, <3>2
  <2>5. i \in 1..k /\ i < no[i]
    BY <2>3, <2>4
  <2>6. PICK j \in 1..n : no[j] = i
    BY <1>9, <2>5
  <2>7. CASE j < i
    BY <2>2, <2>6, <2>7
  <2>8. CASE j = i
    BY <2>5, <2>6, <2>8
  <2>9. CASE j > i
    <3>1. no[i] < no[j]
      BY <1>10, <2>3, <2>9
    <3> QED BY <2>3, <2>5, <2>6, <3>1
  <2> QED BY <2>7, <2>8, <2>9, <2>3
<1>12. n = k
  <2>1. n <= k
    <3>1. CASE n = 0
      BY <3>1
    <3>2. CASE n # 0
      <4>1. n \in 1..n
        BY <3>2
      <4> QED BY <1>8, <1>11, <4>1
    <3> QED BY <3>1, <3>2
  <2>2. k <= n
    <3>1. CASE k = 0
      BY <3>1
    <3>2. CASE k # 0
      <4>1. k \in 1..k
        BY <3>2
      <4>2. PICK i \in 1..n : no[i] = k
        BY <1>9, <4>1
      <4> QED BY <1>11, <4>2
    <3> QED BY <3>1, <3>2
  <2> QED BY <2>1, <2>2
<1> QED BY <1>3, <1>8, <1>11, <1>12

\* A run up to the last of the rounds is counted.
LEMMA RunIsCounted ==
  ASSUME NEW S \in SUBSET Official, NEW k \in Nat \ {0}, {RoundNo[d] : d \in S} = 1..k,
         \A c, d \in S : RoundNo[c] = RoundNo[d] => c = d,
         NEW rows \in InOrder(S), NEW f, NEW V, NEW X,
         \A c \in S : /\ RoundNo[c] \in V => round[c] # "cancelled" /\ f \in part[c]
                      /\ RoundNo[c] \in X => round[c] = "cancelled",
         NEW last \in S, RoundNo[last] = k, round[last] # "cancelled",
         NEW a \in 1..k, InRow(V, X, a, k)
  PROVE  VotesIn(V, a, k) <= OfficialStreak(f, rows)
<1>1. rows \in [1..k -> S] /\ \A i \in 1..k : RoundNo[rows[i]] = i
  BY RowsAreNumbered
<1>2. DOMAIN rows = 1..k
  BY <1>1
<1>3. PICK tab : IsTable(tab, f, rows, k)
  BY <1>2, TableExists
<1>4. \A i \in 0..k : CountsAll(tab[i], V, X, i)
  <2> DEFINE Bad == {i \in 0..k : ~CountsAll(tab[i], V, X, i)}
  <2> SUFFICES ASSUME Bad # {} PROVE FALSE
    OBVIOUS
  <2>1. PICK i \in Bad : \A j \in Bad : i <= j
    <3>1. Bad \in SUBSET (0..k)
      OBVIOUS
    <3> HIDE DEF Bad
    <3> QED BY <3>1, LeastIndex
  <2>2. i # 0
    <3>1. tab[0] = NoStreak
      BY <1>3 DEF IsTable
    <3>2. CountsAll(NoStreak, V, X, 0)
      BY DEF CountsAll, NoStreak
    <3> QED BY <3>1, <3>2
  <2>3. i - 1 \in 0..k /\ i - 1 \notin Bad /\ i \in 1..k /\ i \in Nat \ {0}
    BY <2>1, <2>2
  <2>4. CountsAll(tab[i - 1], V, X, i - 1)
    BY <2>3
  <2>5. tab[i] = StreakRow(f, tab[i - 1], rows[i])
    BY <1>3, <2>3 DEF IsTable
  <2>6. rows[i] \in S /\ RoundNo[rows[i]] = i
    BY <1>1, <2>3
  <2>7. CountsAll(tab[i], V, X, i)
    BY <2>3, <2>4, <2>5, <2>6, RowCountsAll
  <2> QED BY <2>7
<1>5. VotesIn(V, a, k) <= tab[k].running
  BY <1>4 DEF CountsAll
<1>6. rows[k] \in S /\ RoundNo[rows[k]] = k
  BY <1>1
<1>7. rows[k] = last
  BY <1>6
<1>8. tab[k] = StreakRow(f, tab[k - 1], rows[k])
  BY <1>3 DEF IsTable
<1>9. tab[k].current = tab[k].running
  BY <1>7, <1>8 DEF StreakRow
<1>10. OfficialStreak(f, rows) = tab[k].current
  BY <1>3 DEF IsTable
<1> QED BY <1>5, <1>9, <1>10

-----------------------------------------------------------------------------
(* The votes of a state *)

\* Rounds that ended are as they were.
Frozen ==
  \A c \in Official : round[c] \in {"over", "finalized", "cancelled"} =>
    /\ part'[c] = part[c]
    /\ round[c] # "over" => round'[c] = round[c]

LEMMA VotesStay ==
  ASSUME Frozen, NEW f, NEW more, \A c \in more : round[c] = "over"
  PROVE  VotedNos(f, more) \subseteq VotedNos(f, more)' /\ CancelledNos \subseteq CancelledNos'
<1>1. VotedNos(f, more) \subseteq VotedNos(f, more)'
  <2> SUFFICES ASSUME NEW n \in VotedNos(f, more) PROVE n \in VotedNos(f, more)'
    OBVIOUS
  <2>1. PICK d \in Official : /\ n = RoundNo[d] /\ f \in part[d]
                              /\ round[d] = "finalized" \/ d \in more
    BY DEF VotedNos
  <2>2. part'[d] = part[d] /\ (round[d] = "finalized" => round'[d] = "finalized")
    BY <2>1 DEF Frozen
  <2> QED BY <2>1, <2>2 DEF VotedNos
<1>2. CancelledNos \subseteq CancelledNos'
  BY DEF CancelledNos, Frozen
<1> QED BY <1>1, <1>2

LEMMA EarnedStays ==
  ASSUME Frozen, NEW f, NEW more, \A c \in more : round[c] = "over", NEW t \in Nat,
         Earns(f, t, more)
  PROVE  Earns(f, t, more)'
<1>1. PICK V, W, X, Y : V = VotedNos(f, more) /\ W = VotedNos(f, more)'
                        /\ X = CancelledNos /\ Y = CancelledNos'
  OBVIOUS
<1>2. V \subseteq W /\ X \subseteq Y
  BY <1>1, VotesStay
<1>3. Streaky(V, X, t)
  BY <1>1 DEF Earns
<1>4. Streaky(W, Y, t)
  BY <1>2, <1>3, StreaksLast
<1> QED BY <1>1, <1>4 DEF Earns

\* A streak with one more round is older, or ends with that round.
LEMMA StreakEndsWithLast ==
  ASSUME NEW V, NEW X, NEW W, NEW Y, NEW k \in Nat, NEW t \in Nat \ {0}, Streaky(W, Y, t),
         \A m \in W : m \in 1..(k + 1) /\ (m = k + 1 \/ m \in V),
         \A m \in Y : m \in 1..(k + 1) /\ (m = k + 1 \/ m \in X)
  PROVE  \/ Streaky(V, X, t)
         \/ /\ k + 1 \in 1..MaxRound
            /\ \E a \in 1..(k + 1) : InRow(W, Y, a, k + 1) /\ VotesIn(W, a, k + 1) >= t
<1>1. PICK a \in 1..MaxRound, b \in 1..MaxRound : InRow(W, Y, a, b) /\ VotesIn(W, a, b) >= t
  BY DEF Streaky
<1>2. a \in Int /\ b \in Int
  OBVIOUS
<1>3. a <= b
  <2> SUFFICES ASSUME b < a PROVE FALSE
    BY <1>2
  <2>1. \A m \in a..b : m \notin W
    BY <1>2
  <2>2. VotesIn(W, a, b) = 0
    BY <1>2, <2>1, NoVotes
  <2> QED BY <1>1, <2>2
<1>4. b \in W \/ b \in Y
  BY <1>1, <1>2, <1>3 DEF InRow
<1>5. b \in 1..(k + 1)
  BY <1>4
<1>6. CASE b = k + 1
  BY <1>1, <1>2, <1>3, <1>6
<1>7. CASE b # k + 1
  <2>1. \A m \in a..b : m # k + 1
    BY <1>2, <1>5, <1>7
  <2>2. InRow(V, X, a, b)
    BY <1>1, <2>1 DEF InRow
  <2>3. {m \in a..b : m \in W} \subseteq {m \in a..b : m \in V}
    BY <2>1
  <2>4. PICK all : all = {m \in a..b : m \in V}
    OBVIOUS
  <2>5. IsFiniteSet(all) /\ VotesIn(V, a, b) \in Nat /\ VotesIn(W, a, b) \in Nat
    BY <1>2, <2>4, VotesAreNat
  <2>6. VotesIn(W, a, b) <= VotesIn(V, a, b)
    BY <2>3, <2>4, <2>5, FS_Subset DEF VotesIn
  <2>7. VotesIn(V, a, b) >= t
    BY <1>1, <2>5, <2>6
  <2> QED BY <2>2, <2>7 DEF Streaky
<1> QED BY <1>6, <1>7

\* A cancelled round at the end of a streak may be left out.
LEMMA CancelledLast ==
  ASSUME NEW V, NEW X, NEW Y, NEW k \in Nat, NEW t \in Nat \ {0}, Streaky(V, Y, t),
         \A m \in V : m \in 1..k,
         \A m \in Y : m \in 1..(k + 1) /\ (m = k + 1 \/ m \in X)
  PROVE  Streaky(V, X, t)
<1>1. \A m \in V : m \in 1..(k + 1) /\ (m = k + 1 \/ m \in V)
  OBVIOUS
<1>2. CASE Streaky(V, X, t)
  BY <1>2
<1>3. ASSUME k + 1 \in 1..MaxRound, NEW a \in 1..(k + 1), InRow(V, Y, a, k + 1),
             VotesIn(V, a, k + 1) >= t
      PROVE  Streaky(V, X, t)
  <2>1. a \in Int /\ k \in Int /\ k + 1 \in Int /\ a <= k + 1 /\ (k + 1) - 1 = k
    OBVIOUS
  <2>2. k + 1 \notin V
    OBVIOUS
  <2>3. VotesIn(V, a, k + 1) = VotesIn(V, a, (k + 1) - 1) + (IF k + 1 \in V THEN 1 ELSE 0)
    BY <2>1, NextVote
  <2>4. VotesIn(V, a, k) \in Nat
    BY <2>1, VotesAreNat
  <2>5. VotesIn(V, a, k) >= t
    BY <1>3, <2>1, <2>2, <2>3, <2>4
  <2>6. a <= k
    <3> SUFFICES ASSUME a = k + 1 PROVE FALSE
      BY <2>1
    <3>1. \A m \in a..k : m \notin V
      BY <2>1
    <3>2. VotesIn(V, a, k) = 0
      BY <2>1, <3>1, NoVotes
    <3> QED BY <2>5, <3>2
  <2>7. InRow(V, X, a, k)
    <3>1. \A m \in a..k : m \in a..(k + 1) /\ m # k + 1
      BY <2>1
    <3> QED BY <1>3, <3>1 DEF InRow
  <2>8. a \in 1..MaxRound /\ k \in 1..MaxRound
    BY <1>3, <2>6, StreaksAreCounted
  <2> QED BY <2>5, <2>7, <2>8 DEF Streaky
<1> QED BY <1>1, <1>2, <1>3, StreakEndsWithLast

-----------------------------------------------------------------------------
(* The invariant *)

LEMMA StreaksArePositive ==
  /\ \A t \in Streaks : t \in Nat /\ t \in Nat \ {0}
  /\ \A t \in Milestones : t \in Nat /\ t \in Nat \ {0}
BY StreaksAreCounted

LEMMA HeldIsOver ==
  ASSUME HoldsItsRound, NEW c \in Official, txn[c].on
  PROVE  round[c] = "over" /\ txn[c].left \subseteq part[c]
BY DEF HoldsItsRound

LEMMA ReleasedIsEmpty ==
  ASSUME HoldsItsRound, NEW c \in Official, ~txn[c].on
  PROVE  txn[c].badges = {} /\ txn[c].told = {}
BY DEF HoldsItsRound, NoTxn

\* Voters who are counted stay so.
LEMMA VotersStay ==
  ASSUME Frozen, RetentionTypeOK, RetentionTypeOK'
  PROVE  Cardinality(FinalizedVoters) <= Cardinality(FinalizedVoters')
         /\ Cardinality(FinalizedVoters) \in Nat /\ Cardinality(FinalizedVoters') \in Nat
<1>1. FinalizedVoters \subseteq FinalizedVoters'
  <2> SUFFICES ASSUME NEW f \in FinalizedVoters PROVE f \in FinalizedVoters'
    OBVIOUS
  <2>1. PICK d \in Official : round[d] = "finalized" /\ f \in part[d]
    BY DEF FinalizedVoters
  <2>2. part'[d] = part[d] /\ round'[d] = "finalized"
    BY <2>1 DEF Frozen
  <2> QED BY <2>1, <2>2 DEF FinalizedVoters
<1>2. FinalizedVoters' \subseteq Fans
  BY DEF FinalizedVoters, RetentionTypeOK
<1>3. IsFiniteSet(FinalizedVoters')
  BY <1>2, StreaksAreCounted, FS_Subset
<1>4. IsFiniteSet(FinalizedVoters)
      /\ Cardinality(FinalizedVoters) <= Cardinality(FinalizedVoters')
  BY <1>1, <1>3, FS_Subset
<1> QED BY <1>3, <1>4, FS_CardinalityType

LEMMA GoalsStay ==
  ASSUME Frozen, RetentionTypeOK, RetentionTypeOK', GoalsWereMet, unlocked' = unlocked
  PROVE  GoalsWereMet'
<1>1. \A g \in Goals : Target[g] \in Nat /\ unlocked[g] \in Nat
  BY GoalsWantSomebody DEF RetentionTypeOK
<1>2. PICK m, n : m = Cardinality(FinalizedVoters) /\ n = Cardinality(FinalizedVoters')
  OBVIOUS
<1>3. m \in Nat /\ n \in Nat /\ m <= n
  BY <1>2, VotersStay
<1>4. \A g \in Goals : unlocked[g] # 0 => unlocked[g] \in Target[g]..m
  BY <1>2 DEF GoalsWereMet
<1>5. \A g \in Goals : unlocked'[g] # 0 => unlocked'[g] \in Target[g]..n
  BY <1>1, <1>3, <1>4
<1> QED BY <1>2, <1>5 DEF GoalsWereMet

\* What was earned stays earned, and what is given by a step was earned by it.
LEMMA GivenStays ==
  ASSUME Frozen, HoldsItsRound, GivenIsEarned,
         \A f \in Fans, t \in Streaks : <<f, t>> \in streakBadges' =>
            <<f, t>> \in streakBadges \/ Earns(f, t, {})',
         \A f \in Fans, t \in Milestones : <<f, t>> \in told' =>
            <<f, t>> \in told \/ Earns(f, t, {})',
         \A c \in Official, f \in Fans, t \in Streaks : <<f, t>> \in txn'[c].badges =>
            (txn[c].on /\ <<f, t>> \in txn[c].badges) \/ Earns(f, t, {c})',
         \A c \in Official, f \in Fans, t \in Milestones : <<f, t>> \in txn'[c].told =>
            (txn[c].on /\ <<f, t>> \in txn[c].told) \/ Earns(f, t, {c})'
  PROVE  GivenIsEarned'
<1>1. \A f, t : t \in Nat /\ Earns(f, t, {}) => Earns(f, t, {})'
  BY EarnedStays
<1>2. \A c \in Official : \A f, t : t \in Nat /\ txn[c].on /\ Earns(f, t, {c}) => Earns(f, t, {c})'
  <2> SUFFICES ASSUME NEW c \in Official, NEW f, NEW t \in Nat, txn[c].on, Earns(f, t, {c})
               PROVE  Earns(f, t, {c})'
    OBVIOUS
  <2>1. \A d \in {c} : round[d] = "over"
    BY HeldIsOver
  <2> QED BY <2>1, EarnedStays
<1>3. ASSUME NEW f \in Fans, NEW t \in Streaks, <<f, t>> \in streakBadges'
      PROVE  Earns(f, t, {})'
  <2>1. t \in Nat
    BY StreaksArePositive
  <2> QED BY <1>1, <1>3, <2>1 DEF GivenIsEarned
<1>4. ASSUME NEW f \in Fans, NEW t \in Milestones, <<f, t>> \in told'
      PROVE  Earns(f, t, {})'
  <2>1. t \in Nat
    BY StreaksArePositive
  <2> QED BY <1>1, <1>4, <2>1 DEF GivenIsEarned
<1>5. ASSUME NEW c \in Official, NEW f \in Fans, NEW t \in Streaks, <<f, t>> \in txn'[c].badges
      PROVE  Earns(f, t, {c})'
  <2>1. t \in Nat
    BY StreaksArePositive
  <2> QED BY <1>2, <1>5, <2>1 DEF GivenIsEarned
<1>6. ASSUME NEW c \in Official, NEW f \in Fans, NEW t \in Milestones, <<f, t>> \in txn'[c].told
      PROVE  Earns(f, t, {c})'
  <2>1. t \in Nat
    BY StreaksArePositive
  <2> QED BY <1>2, <1>6, <2>1 DEF GivenIsEarned
<1> QED BY <1>3, <1>4, <1>5, <1>6 DEF GivenIsEarned

\* Steps that end no round and finalize none.
LEMMA QuietKeeps ==
  ASSUME RetentionInv, RetentionTypeOK', UNCHANGED <<txn, earned, unlocked, orderly>>,
         \A c \in Official :
           /\ round[c] \in {"over", "finalized", "cancelled"} =>
                round'[c] = round[c] /\ part'[c] = part[c]
           /\ round'[c] \in {"finalized", "cancelled"} => round'[c] = round[c]
  PROVE  RetentionInv'
<1>1. Frozen
  BY DEF Frozen
<1>2. txn' = txn /\ streakBadges' = streakBadges /\ told' = told /\ unlocked' = unlocked
      /\ orderly' = orderly
  BY DEF earned
<1>3. HoldsItsRound'
  BY <1>2 DEF RetentionInv, HoldsItsRound
<1>4. CancelledNos' = CancelledNos /\ Ended' = Ended
  BY DEF CancelledNos, Ended
<1>5. ASSUME NEW f, NEW more, \A c \in more : round[c] = "over"
      PROVE  VotedNos(f, more)' = VotedNos(f, more)
  <2>1. VotedNos(f, more) \subseteq VotedNos(f, more)'
    BY <1>1, <1>5, VotesStay
  <2>2. VotedNos(f, more)' \subseteq VotedNos(f, more)
    <3> SUFFICES ASSUME NEW n \in VotedNos(f, more)' PROVE n \in VotedNos(f, more)
      OBVIOUS
    <3>1. PICK d \in Official : /\ n = RoundNo[d] /\ f \in part'[d]
                                /\ round'[d] = "finalized" \/ d \in more
      BY DEF VotedNos
    <3>2. round[d] = "finalized" \/ d \in more
      BY <3>1
    <3>3. part'[d] = part[d]
      BY <1>5, <3>2
    <3> QED BY <3>1, <3>2, <3>3 DEF VotedNos
  <2> QED BY <2>1, <2>2
<1>6. GivenIsEarned'
  <2>1. \A c \in Official : txn'[c].badges # {} \/ txn'[c].told # {} => txn[c].on
    BY <1>2, ReleasedIsEmpty DEF RetentionInv
  <2> QED BY <1>1, <1>2, <2>1, GivenStays DEF RetentionInv
<1>7. InTurn'
  BY <1>2, <1>4 DEF RetentionInv, InTurn, NumberedTo
<1>8. EarnedIsGiven'
  <2> SUFFICES ASSUME orderly
               PROVE  /\ \A f \in Fans, t \in Streaks : Earns(f, t, {})' => <<f, t>> \in streakBadges
                      /\ \A c \in Official, f \in Fans, t \in Streaks :
                           txn[c].on /\ f \in part'[c] \ txn[c].left /\ Earns(f, t, {c})'
                             => <<f, t>> \in txn[c].badges \cup streakBadges
    BY <1>2 DEF EarnedIsGiven
  <2>1. ASSUME NEW f \in Fans, NEW t \in Streaks, Earns(f, t, {})'
        PROVE  <<f, t>> \in streakBadges
    <3>1. VotedNos(f, {})' = VotedNos(f, {})
      BY <1>5
    <3>2. Earns(f, t, {})
      BY <1>4, <2>1, <3>1 DEF Earns
    <3> QED BY <3>2 DEF RetentionInv, EarnedIsGiven
  <2>2. ASSUME NEW c \in Official, NEW f \in Fans, NEW t \in Streaks,
               txn[c].on, f \in part'[c] \ txn[c].left, Earns(f, t, {c})'
        PROVE  <<f, t>> \in txn[c].badges \cup streakBadges
    <3>1. round[c] = "over"
      BY <2>2, HeldIsOver DEF RetentionInv
    <3>2. VotedNos(f, {c})' = VotedNos(f, {c})
      BY <1>5, <3>1
    <3>3. Earns(f, t, {c})
      BY <1>4, <2>2, <3>2 DEF Earns
    <3>4. f \in part[c] \ txn[c].left
      BY <2>2, <3>1
    <3> QED BY <2>2, <3>3, <3>4 DEF RetentionInv, EarnedIsGiven
  <2> QED BY <2>1, <2>2
<1>9. GoalsWereMet'
  BY <1>1, <1>2, GoalsStay DEF RetentionInv
<1> QED BY <1>3, <1>6, <1>7, <1>8, <1>9 DEF RetentionInv

LEMMA OpenRoundKeeps ==
  ASSUME RetentionInv, NEW c \in Official, OpenRound(c)
  PROVE  RetentionInv'
<1>1. RetentionTypeOK'
  BY DEF OpenRound, RetentionInv, RetentionTypeOK, earned
<1>2. \A d \in Official : d # c => round'[d] = round[d]
  BY DEF OpenRound, RetentionInv, RetentionTypeOK
<1>3. round[c] = "none" /\ round'[c] = "voting"
  BY DEF OpenRound, RetentionInv, RetentionTypeOK
<1>4. UNCHANGED <<txn, earned, unlocked, orderly>> /\ part' = part
  BY DEF OpenRound
<1> QED BY <1>1, <1>2, <1>3, <1>4, QuietKeeps

LEMMA CloseRoundKeeps ==
  ASSUME RetentionInv, NEW c \in Official, CloseRound(c)
  PROVE  RetentionInv'
<1>1. RetentionTypeOK'
  BY DEF CloseRound, RetentionInv, RetentionTypeOK, earned
<1>2. \A d \in Official : d # c => round'[d] = round[d]
  BY DEF CloseRound, RetentionInv, RetentionTypeOK
<1>3. round[c] = "voting" /\ round'[c] = "over"
  BY DEF CloseRound, RetentionInv, RetentionTypeOK
<1>4. UNCHANGED <<txn, earned, unlocked, orderly>> /\ part' = part
  BY DEF CloseRound
<1> QED BY <1>1, <1>2, <1>3, <1>4, QuietKeeps

LEMMA TakePartKeeps ==
  ASSUME RetentionInv, NEW f \in Fans, NEW c \in Official, TakePart(f, c)
  PROVE  RetentionInv'
<1>1. RetentionTypeOK'
  BY DEF TakePart, RetentionInv, RetentionTypeOK, earned
<1>2. \A d \in Official : d # c => part'[d] = part[d]
  BY DEF TakePart, RetentionInv, RetentionTypeOK
<1>3. round[c] = "voting" /\ round' = round
  BY DEF TakePart
<1>4. UNCHANGED <<txn, earned, unlocked, orderly>>
  BY DEF TakePart
<1> QED BY <1>1, <1>2, <1>3, <1>4, QuietKeeps

LEMMA RecordEarlyVisitKeeps ==
  ASSUME RetentionInv, NEW f \in Fans, NEW c \in Official, RecordEarlyVisit(f, c)
  PROVE  RetentionInv'
<1>1. RetentionTypeOK'
  BY DEF RecordEarlyVisit, RetentionInv, RetentionTypeOK, earned
<1>2. round' = round /\ part' = part /\ UNCHANGED <<txn, earned, unlocked, orderly>>
  BY DEF RecordEarlyVisit
<1> QED BY <1>1, <1>2, QuietKeeps

-----------------------------------------------------------------------------
(* Finalization *)

\* The rounds of a state in turn, by number.
LEMMA TurnsAreNumbered ==
  ASSUME NEW k \in Nat, NumberedTo(k), NEW f, NEW c \in Official, RoundNo[c] = k + 1
  PROVE  /\ \A m \in VotedNos(f, {}) : m \in 1..k
         /\ \A m \in CancelledNos : m \in 1..k
         /\ \A m \in VotedNos(f, {c}) : m \in 1..(k + 1) /\ (m = k + 1 \/ m \in VotedNos(f, {}))
<1>1. \A d \in Ended : RoundNo[d] \in 1..k
  BY DEF NumberedTo
<1>2. \A m \in VotedNos(f, {}) : m \in 1..k
  BY <1>1 DEF VotedNos, Ended
<1>3. \A m \in CancelledNos : m \in 1..k
  BY <1>1 DEF CancelledNos, Ended
<1>4. ASSUME NEW m \in VotedNos(f, {c})
      PROVE  m = k + 1 \/ m \in VotedNos(f, {})
  <2>1. PICK d \in Official : m = RoundNo[d] /\ f \in part[d] /\ (round[d] = "finalized" \/ d \in {c})
    BY DEF VotedNos
  <2>2. CASE d = c
    BY <2>1, <2>2
  <2>3. CASE round[d] = "finalized"
    BY <2>1, <2>3 DEF VotedNos
  <2> QED BY <2>1, <2>2, <2>3
<1>5. \A m \in VotedNos(f, {c}) : m \in 1..(k + 1)
  <2>1. k + 1 \in 1..(k + 1) /\ \A m \in 1..k : m \in 1..(k + 1)
    OBVIOUS
  <2> QED BY <1>2, <1>4, <2>1
<1> QED BY <1>2, <1>3, <1>4, <1>5

LEMMA BeginFinalizeKeeps ==
  ASSUME RetentionInv, NEW c \in Official, BeginFinalize(c)
  PROVE  RetentionInv'
<1>1. PICK began : began = [NoTxn EXCEPT !.on = TRUE, !.left = part[c]]
  OBVIOUS
<1>2. began.on /\ began.left = part[c] /\ began.badges = {} /\ began.told = {}
      /\ began = [on |-> TRUE, left |-> part[c], badges |-> {}, told |-> {}]
  BY <1>1 DEF NoTxn
<1>3. RetentionTypeOK
  BY DEF RetentionInv
<1>4. txn'[c] = began /\ \A d \in Official \ {c} : txn'[d] = txn[d]
  BY <1>1, <1>3 DEF BeginFinalize, RetentionTypeOK
<1>5. round' = round /\ part' = part /\ early' = early /\ streakBadges' = streakBadges
      /\ discoverers' = discoverers /\ told' = told /\ unlocked' = unlocked
      /\ round[c] = "over" /\ ~txn[c].on /\ orderly' = StaysOrderly(c)
  BY DEF BeginFinalize, earned
<1>6. RetentionTypeOK'
  <2>1. part[c] \in SUBSET Fans
    BY <1>3 DEF RetentionTypeOK
  <2>2. began \in [on : BOOLEAN, left : SUBSET Fans, badges : SUBSET (Fans \X Streaks),
                   told : SUBSET (Fans \X Milestones)]
    BY <1>2, <2>1
  <2>3. txn' \in [Official -> [on : BOOLEAN, left : SUBSET Fans, badges : SUBSET (Fans \X Streaks),
                               told : SUBSET (Fans \X Milestones)]]
    BY <1>1, <1>3, <2>2 DEF BeginFinalize, RetentionTypeOK
  <2>4. orderly' \in BOOLEAN
    BY <1>3, <1>5 DEF StaysOrderly, RetentionTypeOK
  <2> QED BY <1>3, <1>5, <2>3, <2>4 DEF RetentionTypeOK
<1>7. Frozen
  BY <1>5 DEF Frozen
<1>8. HoldsItsRound'
  BY <1>2, <1>4, <1>5 DEF RetentionInv, HoldsItsRound
<1>9. GivenIsEarned'
  <2>1. \A d \in Official : txn'[d].badges # {} \/ txn'[d].told # {} => txn[d].on /\ txn'[d] = txn[d]
    BY <1>2, <1>4, ReleasedIsEmpty DEF RetentionInv
  <2> QED BY <1>5, <1>7, <2>1, GivenStays DEF RetentionInv
<1>10. InTurn'
  <2> SUFFICES ASSUME orderly' PROVE \E k \in Nat : NumberedTo(k)'
    BY DEF InTurn
  <2>1. orderly /\ (\A d \in Official \ {c} : ~txn[d].on)
        /\ {RoundNo[d] : d \in Ended} = 1..(RoundNo[c] - 1)
    BY <1>5 DEF StaysOrderly
  <2>2. PICK k \in Nat : k = RoundNo[c] - 1
    BY RoundsAreNumbered
  <2>3. RoundNo[c] = k + 1
    BY <2>2, RoundsAreNumbered
  <2>4. \A d, e \in Ended : RoundNo[d] = RoundNo[e] => d = e
    BY <2>1 DEF RetentionInv, InTurn, NumberedTo
  <2>5. Ended' = Ended
    BY <1>5 DEF Ended
  <2>6. \A d \in Official : txn'[d].on => d = c
    BY <1>4, <2>1
  <2>7. NumberedTo(k)'
    BY <2>1, <2>2, <2>3, <2>4, <2>5, <2>6 DEF NumberedTo
  <2> QED BY <2>7
<1>11. EarnedIsGiven'
  <2> SUFFICES ASSUME orderly'
               PROVE  /\ \A f \in Fans, t \in Streaks : Earns(f, t, {})' => <<f, t>> \in streakBadges'
                      /\ \A d \in Official, f \in Fans, t \in Streaks :
                           txn'[d].on /\ f \in part'[d] \ txn'[d].left /\ Earns(f, t, {d})'
                             => <<f, t>> \in txn'[d].badges \cup streakBadges'
    BY DEF EarnedIsGiven
  <2>1. orderly
    BY <1>5 DEF StaysOrderly
  <2>2. \A f, more : VotedNos(f, more)' = VotedNos(f, more)
    BY <1>5 DEF VotedNos
  <2>3. CancelledNos' = CancelledNos
    BY <1>5 DEF CancelledNos
  <2>4. \A f, t, more : Earns(f, t, more)' = Earns(f, t, more)
    BY <2>2, <2>3 DEF Earns
  <2>5. part[c] \ began.left = {}
    BY <1>2
  <2> QED BY <1>4, <1>5, <2>1, <2>4, <2>5 DEF RetentionInv, EarnedIsGiven
<1>12. GoalsWereMet'
  BY <1>3, <1>5, <1>6, <1>7, GoalsStay DEF RetentionInv
<1> QED BY <1>6, <1>8, <1>9, <1>10, <1>11, <1>12 DEF RetentionInv

LEMMA AbortFinalizeKeeps ==
  ASSUME RetentionInv, NEW c \in Official, AbortFinalize(c)
  PROVE  RetentionInv'
<1>1. RetentionTypeOK
  BY DEF RetentionInv
<1>2. txn'[c] = NoTxn /\ \A d \in Official \ {c} : txn'[d] = txn[d]
  BY <1>1 DEF AbortFinalize, RetentionTypeOK
<1>3. round' = round /\ part' = part /\ early' = early /\ streakBadges' = streakBadges
      /\ discoverers' = discoverers /\ told' = told /\ unlocked' = unlocked /\ orderly' = orderly
  BY DEF AbortFinalize, earned
<1>4. RetentionTypeOK'
  <2>1. NoTxn \in [on : BOOLEAN, left : SUBSET Fans, badges : SUBSET (Fans \X Streaks),
                   told : SUBSET (Fans \X Milestones)]
    BY DEF NoTxn
  <2>2. txn' \in [Official -> [on : BOOLEAN, left : SUBSET Fans, badges : SUBSET (Fans \X Streaks),
                               told : SUBSET (Fans \X Milestones)]]
    BY <1>1, <2>1 DEF AbortFinalize, RetentionTypeOK
  <2> QED BY <1>1, <1>3, <2>2 DEF RetentionTypeOK
<1>5. Frozen
  BY <1>3 DEF Frozen
<1>6. ~NoTxn.on /\ NoTxn.badges = {} /\ NoTxn.told = {}
  BY DEF NoTxn
<1>7. HoldsItsRound'
  BY <1>2, <1>3, <1>6 DEF RetentionInv, HoldsItsRound
<1>8. GivenIsEarned'
  <2>1. \A d \in Official : txn'[d].badges # {} \/ txn'[d].told # {} => txn[d].on /\ txn'[d] = txn[d]
    BY <1>2, <1>6, ReleasedIsEmpty DEF RetentionInv
  <2> QED BY <1>3, <1>5, <2>1, GivenStays DEF RetentionInv
<1>9. \A d \in Official : txn'[d].on => d # c /\ txn'[d] = txn[d]
  BY <1>2, <1>6
<1>10. InTurn'
  <2>1. Ended' = Ended
    BY <1>3 DEF Ended
  <2> QED BY <1>3, <1>9, <2>1 DEF RetentionInv, InTurn, NumberedTo
<1>11. EarnedIsGiven'
  <2>1. \A f, more : VotedNos(f, more)' = VotedNos(f, more)
    BY <1>3 DEF VotedNos
  <2>2. CancelledNos' = CancelledNos
    BY <1>3 DEF CancelledNos
  <2>3. \A f, t, more : Earns(f, t, more)' = Earns(f, t, more)
    BY <2>1, <2>2 DEF Earns
  <2> QED BY <1>3, <1>9, <2>3 DEF RetentionInv, EarnedIsGiven
<1>12. GoalsWereMet'
  BY <1>1, <1>3, <1>4, <1>5, GoalsStay DEF RetentionInv
<1> QED BY <1>4, <1>7, <1>8, <1>10, <1>11, <1>12 DEF RetentionInv

LEMMA CancelRoundKeeps ==
  ASSUME RetentionInv, NEW c \in Official, CancelRound(c)
  PROVE  RetentionInv'
<1>1. RetentionTypeOK
  BY DEF RetentionInv
<1>2. round'[c] = "cancelled" /\ \A d \in Official \ {c} : round'[d] = round[d]
  BY <1>1 DEF CancelRound, RetentionTypeOK
<1>3. round[c] \in {"voting", "over"} /\ ~txn[c].on /\ orderly' = StaysOrderly(c)
      /\ part' = part /\ early' = early /\ txn' = txn /\ streakBadges' = streakBadges
      /\ discoverers' = discoverers /\ told' = told /\ unlocked' = unlocked
  BY DEF CancelRound, earned
<1>4. RetentionTypeOK'
  <2>1. orderly' \in BOOLEAN
    BY <1>1, <1>3 DEF StaysOrderly, RetentionTypeOK
  <2>2. round' \in [Official -> {"none", "voting", "over", "finalized", "cancelled"}]
    BY <1>1 DEF CancelRound, RetentionTypeOK
  <2> QED BY <1>1, <1>3, <2>1, <2>2 DEF RetentionTypeOK
<1>5. Frozen
  BY <1>2, <1>3 DEF Frozen
<1>6. HoldsItsRound'
  BY <1>2, <1>3 DEF RetentionInv, HoldsItsRound
<1>7. GivenIsEarned'
  <2>1. \A d \in Official : txn[d].badges # {} \/ txn[d].told # {} => txn[d].on
    BY ReleasedIsEmpty DEF RetentionInv
  <2> QED BY <1>3, <1>5, <2>1, GivenStays DEF RetentionInv
<1>8. ASSUME orderly'
      PROVE  \E k \in Nat : NumberedTo(k) /\ RoundNo[c] = k + 1 /\ orderly
             /\ (\A d \in Official : ~txn[d].on)
  <2>1. orderly /\ (\A d \in Official : ~txn[d].on)
        /\ {RoundNo[d] : d \in Ended} = 1..(RoundNo[c] - 1)
    BY <1>3, <1>8 DEF StaysOrderly
  <2>2. PICK k \in Nat : k = RoundNo[c] - 1
    BY RoundsAreNumbered
  <2>3. RoundNo[c] = k + 1
    BY <2>2, RoundsAreNumbered
  <2>4. \A d, e \in Ended : RoundNo[d] = RoundNo[e] => d = e
    BY <2>1 DEF RetentionInv, InTurn, NumberedTo
  <2>5. NumberedTo(k)
    BY <2>1, <2>2, <2>4 DEF NumberedTo
  <2> QED BY <2>1, <2>3, <2>5
<1>9. InTurn'
  <2> SUFFICES ASSUME orderly' PROVE \E k \in Nat : NumberedTo(k)'
    BY DEF InTurn
  <2>1. PICK k \in Nat : NumberedTo(k) /\ RoundNo[c] = k + 1 /\ orderly
                         /\ (\A d \in Official : ~txn[d].on)
    BY <1>8
  <2>2. Ended' = Ended \cup {c}
    BY <1>2, <1>3 DEF Ended
  <2>3. {RoundNo[d] : d \in Ended} = 1..k /\ \A d, e \in Ended : RoundNo[d] = RoundNo[e] => d = e
    BY <2>1 DEF NumberedTo
  <2>4. {RoundNo[d] : d \in Ended'} = 1..(k + 1)
    <3>1. {RoundNo[d] : d \in Ended'} = {RoundNo[d] : d \in Ended} \cup {k + 1}
      BY <2>1, <2>2
    <3>2. 1..(k + 1) = (1..k) \cup {k + 1}
      OBVIOUS
    <3> QED BY <2>3, <3>1, <3>2
  <2>5. \A d \in Ended : RoundNo[d] \in 1..k
    BY <2>3
  <2>6. \A d, e \in Ended' : RoundNo[d] = RoundNo[e] => d = e
    BY <2>1, <2>2, <2>3, <2>5
  <2>7. NumberedTo(k + 1)'
    BY <1>3, <2>1, <2>4, <2>6 DEF NumberedTo
  <2> QED BY <2>7
<1>10. EarnedIsGiven'
  <2> SUFFICES ASSUME orderly'
               PROVE  /\ \A f \in Fans, t \in Streaks : Earns(f, t, {})' => <<f, t>> \in streakBadges'
                      /\ \A d \in Official : ~txn'[d].on
    BY DEF EarnedIsGiven
  <2>1. PICK k \in Nat : NumberedTo(k) /\ RoundNo[c] = k + 1 /\ orderly
                         /\ (\A d \in Official : ~txn[d].on)
    BY <1>8
  <2>2. ASSUME NEW f \in Fans, NEW t \in Streaks, Earns(f, t, {})'
        PROVE  <<f, t>> \in streakBadges'
    <3>1. t \in Nat \ {0}
      BY StreaksArePositive
    <3>2. VotedNos(f, {})' = VotedNos(f, {})
      BY <1>2, <1>3 DEF VotedNos
    <3>3. PICK V, X, Y : V = VotedNos(f, {}) /\ X = CancelledNos /\ Y = CancelledNos'
      OBVIOUS
    <3>4. Streaky(V, Y, t)
      BY <2>2, <3>2, <3>3 DEF Earns
    <3>5. (\A m \in V : m \in 1..k) /\ (\A m \in X : m \in 1..k)
      BY <2>1, <3>3, TurnsAreNumbered
    <3>6. \A m \in Y : m = k + 1 \/ m \in X
      BY <1>2, <2>1, <3>3 DEF CancelledNos
    <3>7. \A m \in Y : m \in 1..(k + 1)
      BY <3>5, <3>6
    <3>8. Streaky(V, X, t)
      BY <3>1, <3>4, <3>5, <3>6, <3>7, CancelledLast
    <3>9. Earns(f, t, {})
      BY <3>3, <3>8 DEF Earns
    <3> QED BY <1>3, <2>1, <3>9 DEF RetentionInv, EarnedIsGiven
  <2> QED BY <1>3, <2>1, <2>2
<1>11. GoalsWereMet'
  BY <1>1, <1>3, <1>4, <1>5, GoalsStay DEF RetentionInv
<1> QED BY <1>4, <1>6, <1>7, <1>9, <1>10, <1>11 DEF RetentionInv

\* What one participant's rounds give was earned.
LEMMA FanIsRewarded ==
  ASSUME RetentionInv, NEW c \in Official, txn[c].on, NEW f \in Fans,
         NEW rows \in InOrder(Ended \cup {c}), NEW t \in Nat \ {0}, t <= OfficialStreak(f, rows)
  PROVE  Earns(f, t, {c})
<1>1. round[c] = "over"
  BY HeldIsOver DEF RetentionInv
<1>2. PICK S \in SUBSET Official : S = Ended \cup {c}
  BY DEF Ended
<1>3. PICK V, X : V = VotedNos(f, {c}) /\ X = CancelledNos
  OBVIOUS
<1>4. ASSUME NEW d \in S
      PROVE  /\ round[d] = "cancelled" => RoundNo[d] \in X
             /\ round[d] # "cancelled" /\ f \in part[d] => RoundNo[d] \in V
  <2>1. round[d] = "cancelled" => RoundNo[d] \in X
    BY <1>3 DEF CancelledNos
  <2>2. round[d] # "cancelled" => round[d] = "finalized" \/ d \in {c}
    BY <1>2 DEF Ended
  <2>3. round[d] # "cancelled" /\ f \in part[d] => RoundNo[d] \in V
    BY <1>3, <2>2 DEF VotedNos
  <2> QED BY <2>1, <2>3
<1>5. PICK n \in Nat : rows \in [1..n -> S]
  <2>1. IsFiniteSet(S)
    BY StreaksAreCounted, FS_Subset
  <2>2. Cardinality(S) \in Nat
    BY <2>1, FS_CardinalityType
  <2>3. rows \in [1..Cardinality(S) -> S]
    BY <1>2 DEF InOrder, SetToSeqs
  <2> QED BY <2>2, <2>3
<1>6. Streaky(V, X, t)
  BY <1>4, <1>5, StreakIsEarned
<1> QED BY <1>3, <1>6 DEF Earns

\* And where rounds end in turn, all of it is given.
LEMMA FanIsRewardedInTurn ==
  ASSUME RetentionInv, NEW c \in Official, txn[c].on, orderly, NEW f \in part[c], f \in Fans,
         NEW rows \in InOrder(Ended \cup {c}), NEW t \in Streaks, Earns(f, t, {c})
  PROVE  t <= OfficialStreak(f, rows) \/ <<f, t>> \in streakBadges
<1>1. PICK k \in Nat : NumberedTo(k)
  BY DEF RetentionInv, InTurn
<1>2. RoundNo[c] = k + 1 /\ {RoundNo[d] : d \in Ended} = 1..k
      /\ (\A d, e \in Ended : RoundNo[d] = RoundNo[e] => d = e)
  BY <1>1 DEF NumberedTo
<1>3. round[c] = "over"
  BY HeldIsOver DEF RetentionInv
<1>4. PICK S \in SUBSET Official : S = Ended \cup {c}
  BY DEF Ended
<1>5. {RoundNo[d] : d \in S} = 1..(k + 1)
  <2>1. {RoundNo[d] : d \in S} = {RoundNo[d] : d \in Ended} \cup {k + 1}
    BY <1>2, <1>4
  <2>2. 1..(k + 1) = (1..k) \cup {k + 1}
    OBVIOUS
  <2> QED BY <1>2, <2>1, <2>2
<1>6. \A d, e \in S : RoundNo[d] = RoundNo[e] => d = e
  <2>1. \A d \in Ended : RoundNo[d] \in 1..k
    BY <1>2
  <2>2. \A d \in Ended : RoundNo[d] # k + 1
    BY <2>1
  <2> QED BY <1>2, <1>4, <2>2
<1>7. PICK V, X, W : V = VotedNos(f, {}) /\ X = CancelledNos /\ W = VotedNos(f, {c})
  OBVIOUS
<1>8. Streaky(W, X, t)
  BY <1>7 DEF Earns
<1>9. /\ \A m \in W : m \in 1..(k + 1) /\ (m = k + 1 \/ m \in V)
      /\ \A m \in X : m \in 1..k
  BY <1>1, <1>2, <1>7, TurnsAreNumbered
<1>10. \A m \in X : m \in 1..(k + 1) /\ (m = k + 1 \/ m \in X)
  BY <1>9
<1>11. t \in Nat \ {0}
  BY StreaksArePositive
<1>12. CASE Streaky(V, X, t)
  <2>1. Earns(f, t, {})
    BY <1>7, <1>12 DEF Earns
  <2> QED BY <2>1 DEF RetentionInv, EarnedIsGiven
<1>13. ASSUME NEW a \in 1..(k + 1), InRow(W, X, a, k + 1), VotesIn(W, a, k + 1) >= t
       PROVE  t <= OfficialStreak(f, rows)
  <2>1. PICK n \in Nat \ {0} : n = k + 1
    OBVIOUS
  <2>2. ASSUME NEW d \in S
        PROVE  /\ RoundNo[d] \in W => round[d] # "cancelled" /\ f \in part[d]
               /\ RoundNo[d] \in X => round[d] = "cancelled"
    <3>1. ASSUME RoundNo[d] \in W
          PROVE  round[d] # "cancelled" /\ f \in part[d]
      <4>1. PICK e \in Official : /\ RoundNo[d] = RoundNo[e] /\ f \in part[e]
                                  /\ round[e] = "finalized" \/ e \in {c}
        BY <1>7, <3>1 DEF VotedNos
      <4>2. e \in S
        BY <1>4, <4>1 DEF Ended
      <4>3. e = d
        BY <1>6, <4>1, <4>2
      <4> QED BY <1>3, <4>1, <4>3
    <3>2. ASSUME RoundNo[d] \in X
          PROVE  round[d] = "cancelled"
      <4>1. PICK e \in Official : RoundNo[d] = RoundNo[e] /\ round[e] = "cancelled"
        BY <1>7, <3>2 DEF CancelledNos
      <4>2. e \in S
        BY <1>4, <4>1 DEF Ended
      <4> QED BY <1>6, <4>1, <4>2
    <3> QED BY <3>1, <3>2
  <2>3. c \in S /\ RoundNo[c] = n /\ round[c] # "cancelled"
    BY <1>2, <1>3, <1>4, <2>1
  <2>4. rows \in InOrder(S)
    BY <1>4
  <2>5. {RoundNo[d] : d \in S} = 1..n /\ a \in 1..n /\ InRow(W, X, a, n)
        /\ VotesIn(W, a, n) >= t
    BY <1>5, <1>13, <2>1
  <2>6. VotesIn(W, a, n) <= OfficialStreak(f, rows)
    BY <1>6, <2>2, <2>3, <2>4, <2>5, RunIsCounted
  <2>7. VotesIn(W, a, n) \in Nat
    <3>1. a \in Int /\ n \in Int
      BY <2>1
    <3> QED BY <3>1, VotesAreNat
  <2>8. OfficialStreak(f, rows) \in Nat
    <3>1. rows \in [1..n -> S]
      BY <1>6, <2>1, <2>4, <2>5, RowsAreNumbered
    <3> QED BY <3>1, StreakIsNat
  <2> QED BY <1>11, <2>5, <2>6, <2>7, <2>8
<1> QED BY <1>8, <1>9, <1>10, <1>11, <1>12, <1>13, StreakEndsWithLast

LEMMA EvaluateFanKeeps ==
  ASSUME RetentionInv, NEW c \in Official, NEW f \in Fans, EvaluateFan(c, f)
  PROVE  RetentionInv'
<1>1. RetentionTypeOK
  BY DEF RetentionInv
<1>2. PICK rows \in InOrder(Ended \cup {c}), telling \in BOOLEAN :
        txn' = [txn EXCEPT
          ![c].left = @ \ {f},
          ![c].badges = @ \cup ({f} \X {t \in Streaks : t <= OfficialStreak(f, rows)}),
          ![c].told = @ \cup IF telling THEN {f} \X ({OfficialStreak(f, rows)} \cap Milestones)
                              ELSE {}]
  BY DEF EvaluateFan
<1>3. txn[c].on /\ f \in txn[c].left /\ round' = round /\ part' = part /\ early' = early
      /\ streakBadges' = streakBadges /\ discoverers' = discoverers /\ told' = told
      /\ unlocked' = unlocked /\ orderly' = orderly
  BY DEF EvaluateFan, earned
<1>4. PICK given : given = {f} \X {t \in Streaks : t <= OfficialStreak(f, rows)}
  OBVIOUS
<1>5. PICK says : says = IF telling THEN {f} \X ({OfficialStreak(f, rows)} \cap Milestones) ELSE {}
  OBVIOUS
<1>6. PICK old : old = txn[c]
  OBVIOUS
<1>7. PICK a, b, tells : a = old.left \ {f} /\ b = old.badges \cup given /\ tells = old.told \cup says
  OBVIOUS
<1>8. PICK new : new = [old EXCEPT !.left = a, !.badges = b, !.told = tells]
  OBVIOUS
<1>9. txn' = [txn EXCEPT ![c] = new]
  <2>1. txn' = [txn EXCEPT ![c].left = a, ![c].badges = b, ![c].told = tells]
    BY <1>2, <1>4, <1>5, <1>6, <1>7
  <2> QED BY <1>6, <1>8, <2>1
<1>10. old \in [on : BOOLEAN, left : SUBSET Fans, badges : SUBSET (Fans \X Streaks),
                told : SUBSET (Fans \X Milestones)]
  BY <1>1, <1>6 DEF RetentionTypeOK
<1>11. /\ new \in [on : BOOLEAN, left : SUBSET Fans, badges : SUBSET (Fans \X Streaks),
                   told : SUBSET (Fans \X Milestones)]
       /\ new.on = old.on /\ new.left = a /\ new.badges = b /\ new.told = tells
  <2>1. given \subseteq Fans \X Streaks /\ says \subseteq Fans \X Milestones
    BY <1>4, <1>5
  <2>2. a \in SUBSET Fans /\ b \in SUBSET (Fans \X Streaks) /\ tells \in SUBSET (Fans \X Milestones)
    BY <1>7, <1>10, <2>1
  <2> QED BY <1>8, <1>10, <2>2
<1>12. RetentionTypeOK'
  <2>1. txn' \in [Official -> [on : BOOLEAN, left : SUBSET Fans, badges : SUBSET (Fans \X Streaks),
                               told : SUBSET (Fans \X Milestones)]]
    BY <1>1, <1>9, <1>11 DEF RetentionTypeOK
  <2> QED BY <1>1, <1>3, <2>1 DEF RetentionTypeOK
<1>13. txn'[c] = new /\ \A d \in Official \ {c} : txn'[d] = txn[d]
  BY <1>1, <1>9 DEF RetentionTypeOK
<1>14. new.on /\ new.left = old.left \ {f} /\ new.badges = old.badges \cup given
       /\ new.told = old.told \cup says
  BY <1>3, <1>6, <1>7, <1>11
<1>15. \A d \in Official : txn'[d].on = txn[d].on
  BY <1>6, <1>11, <1>13
<1>16. HoldsItsRound'
  BY <1>3, <1>6, <1>13, <1>14 DEF RetentionInv, HoldsItsRound
<1>17. \A e, t, more : Earns(e, t, more)' = Earns(e, t, more)
  <2>1. \A e, more : VotedNos(e, more)' = VotedNos(e, more)
    BY <1>3 DEF VotedNos
  <2>2. CancelledNos' = CancelledNos
    BY <1>3 DEF CancelledNos
  <2> QED BY <2>1, <2>2 DEF Earns
<1>18. GivenIsEarned'
  <2>1. \A e \in Fans, t \in Streaks : <<e, t>> \in streakBadges => Earns(e, t, {})
    BY DEF RetentionInv, GivenIsEarned
  <2>2. \A e \in Fans, t \in Milestones : <<e, t>> \in told => Earns(e, t, {})
    BY DEF RetentionInv, GivenIsEarned
  <2>3. ASSUME NEW d \in Official, NEW e \in Fans, NEW t \in Streaks, <<e, t>> \in txn'[d].badges
        PROVE  Earns(e, t, {d})
    <3>1. CASE <<e, t>> \in txn[d].badges
      BY <3>1 DEF RetentionInv, GivenIsEarned
    <3>2. CASE <<e, t>> \notin txn[d].badges
      <4>1. d = c
        BY <1>13, <2>3, <3>2
      <4>2. <<e, t>> \in given
        BY <1>6, <1>13, <1>14, <2>3, <3>2, <4>1
      <4>3. e = f /\ t <= OfficialStreak(f, rows)
        BY <1>4, <4>2
      <4> QED BY <1>3, <4>1, <4>3, FanIsRewarded, StreaksArePositive
    <3> QED BY <3>1, <3>2
  <2>4. ASSUME NEW d \in Official, NEW e \in Fans, NEW t \in Milestones, <<e, t>> \in txn'[d].told
        PROVE  Earns(e, t, {d})
    <3>1. CASE <<e, t>> \in txn[d].told
      BY <3>1 DEF RetentionInv, GivenIsEarned
    <3>2. CASE <<e, t>> \notin txn[d].told
      <4>1. d = c
        BY <1>13, <2>4, <3>2
      <4>2. <<e, t>> \in says
        BY <1>6, <1>13, <1>14, <2>4, <3>2, <4>1
      <4>3. e = f /\ t = OfficialStreak(f, rows)
        BY <1>5, <4>2
      <4>4. t \in Nat \ {0} /\ t <= OfficialStreak(f, rows)
        BY <4>3, StreaksArePositive
      <4> QED BY <1>3, <4>1, <4>3, <4>4, FanIsRewarded
    <3> QED BY <3>1, <3>2
  <2> QED BY <1>3, <1>17, <2>1, <2>2, <2>3, <2>4 DEF GivenIsEarned
<1>19. InTurn'
  <2>1. Ended' = Ended
    BY <1>3 DEF Ended
  <2> QED BY <1>3, <1>15, <2>1 DEF RetentionInv, InTurn, NumberedTo
<1>20. EarnedIsGiven'
  <2> SUFFICES ASSUME orderly
               PROVE  /\ \A e \in Fans, t \in Streaks : Earns(e, t, {}) => <<e, t>> \in streakBadges
                      /\ \A d \in Official, e \in Fans, t \in Streaks :
                           txn'[d].on /\ e \in part[d] \ txn'[d].left /\ Earns(e, t, {d})
                             => <<e, t>> \in txn'[d].badges \cup streakBadges
    BY <1>3, <1>17 DEF EarnedIsGiven
  <2>1. \A e \in Fans, t \in Streaks : Earns(e, t, {}) => <<e, t>> \in streakBadges
    BY DEF RetentionInv, EarnedIsGiven
  <2>2. ASSUME NEW d \in Official, NEW e \in Fans, NEW t \in Streaks,
               txn'[d].on, e \in part[d] \ txn'[d].left, Earns(e, t, {d})
        PROVE  <<e, t>> \in txn'[d].badges \cup streakBadges
    <3>1. txn[d].on
      BY <1>15, <2>2
    <3>2. CASE e \in part[d] \ txn[d].left
      <4>1. <<e, t>> \in txn[d].badges \cup streakBadges
        BY <2>2, <3>1, <3>2 DEF RetentionInv, EarnedIsGiven
      <4>2. txn[d].badges \subseteq txn'[d].badges
        BY <1>6, <1>13, <1>14
      <4> QED BY <4>1, <4>2
    <3>3. CASE e \in txn[d].left
      <4>1. d = c /\ e = f
        BY <1>6, <1>13, <1>14, <2>2, <3>3
      <4>2. t <= OfficialStreak(f, rows) \/ <<f, t>> \in streakBadges
        BY <1>3, <2>2, <4>1, FanIsRewardedInTurn
      <4>3. CASE t <= OfficialStreak(f, rows)
        BY <1>4, <1>13, <1>14, <4>1, <4>3
      <4> QED BY <4>1, <4>2, <4>3
    <3> QED BY <2>2, <3>2, <3>3
  <2> QED BY <2>1, <2>2
<1>21. GoalsWereMet'
  <2>1. Frozen
    BY <1>3 DEF Frozen
  <2> QED BY <1>1, <1>3, <1>12, <2>1, GoalsStay DEF RetentionInv
<1> QED BY <1>12, <1>16, <1>18, <1>19, <1>20, <1>21 DEF RetentionInv

LEMMA CommitFinalizeKeeps ==
  ASSUME RetentionInv, NEW c \in Official, CommitFinalize(c)
  PROVE  RetentionInv'
<1>1. RetentionTypeOK
  BY DEF RetentionInv
<1>2. round'[c] = "finalized" /\ \A d \in Official \ {c} : round'[d] = round[d]
  BY <1>1 DEF CommitFinalize, RetentionTypeOK
<1>3. txn[c].on /\ txn[c].left = {} /\ part' = part /\ early' = early /\ unlocked' = unlocked
      /\ orderly' = orderly /\ streakBadges' = streakBadges \cup txn[c].badges
      /\ told' = told \cup txn[c].told /\ discoverers' = discoverers \cup early[c]
  BY DEF CommitFinalize
<1>4. txn'[c] = NoTxn /\ \A d \in Official \ {c} : txn'[d] = txn[d]
  BY <1>1 DEF CommitFinalize, RetentionTypeOK
<1>5. round[c] = "over"
  BY <1>3, HeldIsOver DEF RetentionInv
<1>6. ~NoTxn.on /\ NoTxn.badges = {} /\ NoTxn.told = {}
  BY DEF NoTxn
<1>7. RetentionTypeOK'
  <2>1. NoTxn \in [on : BOOLEAN, left : SUBSET Fans, badges : SUBSET (Fans \X Streaks),
                   told : SUBSET (Fans \X Milestones)]
    BY DEF NoTxn
  <2>2. txn' \in [Official -> [on : BOOLEAN, left : SUBSET Fans, badges : SUBSET (Fans \X Streaks),
                               told : SUBSET (Fans \X Milestones)]]
    BY <1>1, <2>1 DEF CommitFinalize, RetentionTypeOK
  <2>3. round' \in [Official -> {"none", "voting", "over", "finalized", "cancelled"}]
    BY <1>1 DEF CommitFinalize, RetentionTypeOK
  <2>4. txn[c].badges \subseteq Fans \X Streaks /\ txn[c].told \subseteq Fans \X Milestones
        /\ early[c] \subseteq Fans
    BY <1>1 DEF RetentionTypeOK
  <2> QED BY <1>1, <1>3, <2>2, <2>3, <2>4 DEF RetentionTypeOK
<1>8. Frozen
  BY <1>2, <1>3, <1>5 DEF Frozen
<1>9. \A d \in Official : txn'[d].on => d # c /\ txn'[d] = txn[d]
  BY <1>4, <1>6
<1>10. HoldsItsRound'
  BY <1>2, <1>3, <1>4, <1>6 DEF RetentionInv, HoldsItsRound
<1>11. CancelledNos' = CancelledNos
  BY <1>2, <1>5 DEF CancelledNos
<1>12. \A f : VotedNos(f, {})' = VotedNos(f, {c})
  BY <1>2, <1>3 DEF VotedNos
<1>13. \A f, t : Earns(f, t, {})' = Earns(f, t, {c})
  BY <1>11, <1>12 DEF Earns
<1>14. GivenIsEarned'
  <2>1. \A f \in Fans, t \in Streaks : <<f, t>> \in txn[c].badges => Earns(f, t, {c})
    BY DEF RetentionInv, GivenIsEarned
  <2>2. \A f \in Fans, t \in Milestones : <<f, t>> \in txn[c].told => Earns(f, t, {c})
    BY DEF RetentionInv, GivenIsEarned
  <2>3. \A d \in Official : txn'[d].badges # {} \/ txn'[d].told # {} => txn[d].on /\ txn'[d] = txn[d]
    BY <1>4, <1>6, ReleasedIsEmpty DEF RetentionInv
  <2>4. \A f \in Fans, t \in Streaks :
          <<f, t>> \in streakBadges' => <<f, t>> \in streakBadges \/ Earns(f, t, {})'
    BY <1>3, <1>13, <2>1
  <2>5. \A f \in Fans, t \in Milestones : <<f, t>> \in told' => <<f, t>> \in told \/ Earns(f, t, {})'
    BY <1>3, <1>13, <2>2
  <2> QED BY <1>8, <2>3, <2>4, <2>5, GivenStays DEF RetentionInv
<1>15. ASSUME orderly
       PROVE  \E k \in Nat : NumberedTo(k) /\ RoundNo[c] = k + 1
              /\ (\A d \in Official : txn[d].on => d = c)
  <2>1. PICK k \in Nat : NumberedTo(k)
    BY <1>15 DEF RetentionInv, InTurn
  <2> QED BY <1>3, <2>1 DEF NumberedTo
<1>16. InTurn'
  <2> SUFFICES ASSUME orderly PROVE \E k \in Nat : NumberedTo(k)'
    BY <1>3 DEF InTurn
  <2>1. PICK k \in Nat : NumberedTo(k) /\ RoundNo[c] = k + 1
                         /\ (\A d \in Official : txn[d].on => d = c)
    BY <1>15
  <2>2. Ended' = Ended \cup {c}
    BY <1>2 DEF Ended
  <2>3. {RoundNo[d] : d \in Ended} = 1..k /\ \A d, e \in Ended : RoundNo[d] = RoundNo[e] => d = e
    BY <2>1 DEF NumberedTo
  <2>4. {RoundNo[d] : d \in Ended'} = 1..(k + 1)
    <3>1. {RoundNo[d] : d \in Ended'} = {RoundNo[d] : d \in Ended} \cup {k + 1}
      BY <2>1, <2>2
    <3>2. 1..(k + 1) = (1..k) \cup {k + 1}
      OBVIOUS
    <3> QED BY <2>3, <3>1, <3>2
  <2>5. \A d \in Ended : RoundNo[d] \in 1..k
    BY <2>3
  <2>6. \A d, e \in Ended' : RoundNo[d] = RoundNo[e] => d = e
    BY <2>1, <2>2, <2>3, <2>5
  <2>7. \A d \in Official : ~txn'[d].on
    BY <1>9, <2>1
  <2>8. NumberedTo(k + 1)'
    BY <2>4, <2>6, <2>7 DEF NumberedTo
  <2> QED BY <2>8
<1>17. EarnedIsGiven'
  <2> SUFFICES ASSUME orderly
               PROVE  /\ \A f \in Fans, t \in Streaks : Earns(f, t, {c}) => <<f, t>> \in streakBadges'
                      /\ \A d \in Official : ~txn'[d].on
    BY <1>3, <1>13 DEF EarnedIsGiven
  <2>1. \A d \in Official : ~txn'[d].on
    BY <1>9, <1>15
  <2>2. ASSUME NEW f \in Fans, NEW t \in Streaks, Earns(f, t, {c})
        PROVE  <<f, t>> \in streakBadges'
    <3>1. CASE f \in part[c]
      <4>1. f \in part[c] \ txn[c].left
        BY <1>3, <3>1
      <4>2. <<f, t>> \in txn[c].badges \cup streakBadges
        BY <1>3, <2>2, <4>1 DEF RetentionInv, EarnedIsGiven
      <4> QED BY <1>3, <4>2
    <3>2. CASE f \notin part[c]
      <4>1. VotedNos(f, {c}) = VotedNos(f, {})
        BY <3>2 DEF VotedNos
      <4>2. Earns(f, t, {})
        BY <2>2, <4>1 DEF Earns
      <4> QED BY <1>3, <4>2 DEF RetentionInv, EarnedIsGiven
    <3> QED BY <3>1, <3>2
  <2> QED BY <2>1, <2>2
<1>18. GoalsWereMet'
  BY <1>1, <1>3, <1>7, <1>8, GoalsStay DEF RetentionInv
<1> QED BY <1>7, <1>10, <1>14, <1>16, <1>17, <1>18 DEF RetentionInv

LEMMA EvaluateGoalsKeeps ==
  ASSUME RetentionInv, NEW free \in SUBSET Goals, EvaluateGoals(free)
  PROVE  RetentionInv'
<1>1. RetentionTypeOK /\ GoalsWereMet
  BY DEF RetentionInv
<1>2. round' = round /\ part' = part /\ early' = early /\ txn' = txn
      /\ streakBadges' = streakBadges /\ discoverers' = discoverers /\ told' = told
      /\ orderly' = orderly
  BY DEF EvaluateGoals, earned
<1>3. PICK count : count = Cardinality(FinalizedVoters)
  OBVIOUS
<1>4. count \in Nat
  <2>1. FinalizedVoters \subseteq Fans
    BY <1>1 DEF FinalizedVoters, RetentionTypeOK
  <2>2. IsFiniteSet(FinalizedVoters)
    BY <2>1, StreaksAreCounted, FS_Subset
  <2> QED BY <1>3, <2>2, FS_CardinalityType
<1>5. PICK met : met = {g \in free : unlocked[g] = 0 /\ count >= Target[g]}
  OBVIOUS
<1>6. unlocked' = [g \in Goals |-> IF g \in met THEN count ELSE unlocked[g]]
  BY <1>3, <1>5 DEF EvaluateGoals
<1>7. unlocked \in [Goals -> Nat] /\ Target \in [Goals -> Nat \ {0}]
  BY <1>1, GoalsWantSomebody DEF RetentionTypeOK
<1>8. unlocked' \in [Goals -> Nat]
  BY <1>4, <1>6, <1>7
<1>9. RetentionTypeOK'
  BY <1>1, <1>2, <1>8 DEF RetentionTypeOK
<1>10. \A g \in Goals : unlocked'[g] # 0 => unlocked'[g] \in Target[g]..count
  <2>1. \A g \in Goals : unlocked[g] # 0 => unlocked[g] \in Target[g]..count
    BY <1>1, <1>3 DEF GoalsWereMet
  <2>2. \A g \in met : count \in Target[g]..count
    BY <1>4, <1>5, <1>7
  <2> QED BY <1>6, <2>1, <2>2
<1>11. FinalizedVoters' = FinalizedVoters
  BY <1>2 DEF FinalizedVoters
<1>12. GoalsWereMet'
  BY <1>3, <1>10, <1>11 DEF GoalsWereMet
<1>13. HoldsItsRound'
  BY <1>2 DEF RetentionInv, HoldsItsRound
<1>14. (\A f, more : VotedNos(f, more)' = VotedNos(f, more)) /\ CancelledNos' = CancelledNos
       /\ Ended' = Ended
  BY <1>2 DEF VotedNos, CancelledNos, Ended
<1>15. \A f, t, more : Earns(f, t, more)' = Earns(f, t, more)
  BY <1>14 DEF Earns
<1>16. GivenIsEarned'
  BY <1>2, <1>15 DEF RetentionInv, GivenIsEarned
<1>17. InTurn'
  BY <1>2, <1>14 DEF RetentionInv, InTurn, NumberedTo
<1>18. EarnedIsGiven'
  BY <1>2, <1>15 DEF RetentionInv, EarnedIsGiven
<1> QED BY <1>9, <1>12, <1>13, <1>16, <1>17, <1>18 DEF RetentionInv

LEMMA RetentionStarts ==
  ASSUME RetentionInit
  PROVE  RetentionInv
<1>1. RetentionTypeOK
  BY DEF RetentionInit, RetentionTypeOK, NoTxn
<1>2. \A c \in Official : ~txn[c].on /\ txn[c] = NoTxn /\ txn[c].badges = {} /\ txn[c].told = {}
  BY DEF RetentionInit, NoTxn
<1>3. \A f : VotedNos(f, {}) = {}
  BY DEF RetentionInit, VotedNos
<1>4. Ended = {} /\ CancelledNos = {}
  BY DEF RetentionInit, Ended, CancelledNos
<1>5. InTurn
  <2>1. 1..0 = {} /\ 0 \in Nat
    OBVIOUS
  <2>2. NumberedTo(0)
    BY <1>2, <1>4, <2>1 DEF NumberedTo
  <2> QED BY <2>1, <2>2 DEF InTurn
<1>6. \A f, t : t \in Nat \ {0} => ~Earns(f, t, {})
  <2> SUFFICES ASSUME NEW f, NEW t \in Nat \ {0}, Earns(f, t, {}) PROVE FALSE
    OBVIOUS
  <2>1. PICK V, X : V = {} /\ V = VotedNos(f, {}) /\ X = CancelledNos
    BY <1>3
  <2>2. PICK a \in 1..MaxRound, b \in 1..MaxRound : VotesIn(V, a, b) >= t
    BY <2>1 DEF Earns, Streaky
  <2>3. a \in Int /\ b \in Int /\ \A m \in a..b : m \notin V
    BY <2>1
  <2>4. VotesIn(V, a, b) = 0
    BY <2>3, NoVotes
  <2> QED BY <2>2, <2>4
<1>7. EarnedIsGiven
  BY <1>2, <1>6, StreaksArePositive DEF EarnedIsGiven
<1> QED BY <1>1, <1>2, <1>5, <1>7 DEF RetentionInit, RetentionInv, HoldsItsRound, GivenIsEarned,
        GoalsWereMet

LEMMA RetentionKeeps ==
  ASSUME RetentionInv, [RetentionNext]_retentionVars
  PROVE  RetentionInv'
<1>1. CASE UNCHANGED retentionVars
  <2>1. RetentionTypeOK'
    BY <1>1 DEF retentionVars, RetentionInv, RetentionTypeOK
  <2>2. UNCHANGED <<round, part>> /\ UNCHANGED <<txn, earned, unlocked, orderly>>
    BY <1>1 DEF retentionVars, earned
  <2> QED BY <2>1, <2>2, QuietKeeps
<1>2. ASSUME NEW c \in Official, RoundStep(c)
      PROVE  RetentionInv'
  BY <1>2, OpenRoundKeeps, CloseRoundKeeps, CancelRoundKeeps, TakePartKeeps, RecordEarlyVisitKeeps
     DEF RoundStep
<1>3. ASSUME NEW c \in Official, FinalizeStep(c)
      PROVE  RetentionInv'
  BY <1>3, BeginFinalizeKeeps, CommitFinalizeKeeps, AbortFinalizeKeeps, EvaluateFanKeeps
     DEF FinalizeStep
<1>4. ASSUME NEW free \in SUBSET Goals, EvaluateGoals(free)
      PROVE  RetentionInv'
  BY <1>4, EvaluateGoalsKeeps
<1> QED BY <1>1, <1>2, <1>3, <1>4 DEF RetentionNext

\* The invariant's streaks are those of the property.
LEMMA StreaksAreTheSame ==
  ASSUME NEW f, NEW t
  PROVE  HasStreak(f, t) <=> Earns(f, t, {})
<1>1. \A n : VotedIn(f, n) <=> n \in VotedNos(f, {})
  BY DEF VotedIn, VotedNos
<1>2. \A n : (\E c \in Official : RoundNo[c] = n /\ round[c] = "cancelled") <=> n \in CancelledNos
  BY DEF CancelledNos
<1>3. \A a, b : InARow(f, a, b) <=> InRow(VotedNos(f, {}), CancelledNos, a, b)
  BY <1>1, <1>2 DEF InARow, InRow
<1>4. \A a, b : {n \in a..b : VotedIn(f, n)} = {n \in a..b : n \in VotedNos(f, {})}
  BY <1>1
<1>5. \A a, b : Cardinality({n \in a..b : VotedIn(f, n)}) = VotesIn(VotedNos(f, {}), a, b)
  BY <1>4 DEF VotesIn
<1> QED BY <1>3, <1>5 DEF HasStreak, Earns, Streaky

LEMMA RetentionGives ==
  ASSUME RetentionInv
  PROVE  StreaksAreEarned
<1>1. \A f \in Fans, t \in Streaks : <<f, t>> \in streakBadges => HasStreak(f, t)
  BY StreaksAreTheSame DEF RetentionInv, GivenIsEarned
<1>2. \A f \in Fans, t \in Milestones : <<f, t>> \in told => HasStreak(f, t)
  BY StreaksAreTheSame DEF RetentionInv, GivenIsEarned
<1>3. orderly => \A f \in Fans, t \in Streaks : HasStreak(f, t) => <<f, t>> \in streakBadges
  BY StreaksAreTheSame DEF RetentionInv, EarnedIsGiven
<1>4. GoalsWereMet
  BY DEF RetentionInv
<1> QED BY <1>1, <1>2, <1>3, <1>4 DEF StreaksAreEarned, GoalsWereMet

\* However rounds overlap, are cancelled, numbered again or finalized beside each other:
\* no badge and no story of a streak without one, every streak has its badge where the
\* rounds ended one by one, and a goal is unlocked by as many voters as it wants, for
\* any number of rounds, voters and thresholds (progression/retention.ts).
THEOREM RetentionIsSound == RetentionSpec => [](RetentionTypeOK /\ StreaksAreEarned)
<1>1. RetentionInit => RetentionInv
  BY RetentionStarts
<1>2. RetentionInv /\ [RetentionNext]_retentionVars => RetentionInv'
  BY RetentionKeeps
<1>3. RetentionInv => RetentionTypeOK /\ StreaksAreEarned
  BY RetentionGives DEF RetentionInv
<1> QED BY <1>1, <1>2, <1>3, PTL DEF RetentionSpec

-----------------------------------------------------------------------------
(* Branches *)

\* The sets of blocks that hold the parents of their blocks.
ClosedSet(S) == \A b \in S : Height[b] # 0 => Parent[b] \in S

Ancestors(b) == {a \in Blocks : \A S \in SUBSET Blocks : b \in S /\ ClosedSet(S) => a \in S}

LEMMA ParentIsBelow ==
  ASSUME NEW b \in Blocks
  PROVE  /\ Height[b] \in Nat
         /\ Height[b] = 0 => Parent[b] = NoBlock
         /\ Height[b] # 0 => Parent[b] \in Blocks /\ Height[Parent[b]] = Height[b] - 1
BY BlocksFormATree

LEMMA AncestorsOfParent ==
  ASSUME NEW b \in Blocks
  PROVE  Ancestors(b) = {b} \cup IF Height[b] = 0 THEN {} ELSE Ancestors(Parent[b])
<1>1. b \in Ancestors(b)
  BY DEF Ancestors
<1>2. CASE Height[b] = 0
  <2>1. ClosedSet({b})
    BY <1>2 DEF ClosedSet
  <2>2. Ancestors(b) \subseteq {b}
    BY <2>1 DEF Ancestors
  <2> QED BY <1>1, <1>2, <2>2
<1>3. CASE Height[b] # 0
  <2>1. PICK p \in Blocks : p = Parent[b]
    BY <1>3, ParentIsBelow
  <2>2. Ancestors(p) \subseteq Ancestors(b)
    BY <1>3, <2>1 DEF Ancestors, ClosedSet
  <2>3. ClosedSet(Ancestors(p))
    <3> SUFFICES ASSUME NEW a \in Ancestors(p), Height[a] # 0 PROVE Parent[a] \in Ancestors(p)
      BY DEF ClosedSet
    <3>1. a \in Blocks /\ Parent[a] \in Blocks
      BY ParentIsBelow DEF Ancestors
    <3>2. ASSUME NEW S \in SUBSET Blocks, p \in S, ClosedSet(S)
          PROVE  Parent[a] \in S
      <4>1. a \in S
        BY <3>2 DEF Ancestors
      <4> QED BY <3>2, <4>1 DEF ClosedSet
    <3> QED BY <3>1, <3>2 DEF Ancestors
  <2>4. p \in Ancestors(p)
    BY DEF Ancestors
  <2>5. PICK S : S = {b} \cup Ancestors(p)
    OBVIOUS
  <2>6. S \subseteq Blocks /\ b \in S
    BY <2>5 DEF Ancestors
  <2>7. ClosedSet(S)
    BY <2>1, <2>3, <2>4, <2>5 DEF ClosedSet
  <2>8. Ancestors(b) \subseteq S
    BY <2>6, <2>7 DEF Ancestors
  <2> QED BY <1>1, <1>3, <2>1, <2>2, <2>5, <2>8
<1> QED BY <1>2, <1>3

LEMMA LineageOfParent ==
  ASSUME NEW b \in Blocks
  PROVE  Lineage[b] = {b} \cup IF Height[b] = 0 THEN {} ELSE Lineage[Parent[b]]
<1> DEFINE Satisfies(L) == L = [a \in Blocks |-> {a} \cup IF Height[a] = 0 THEN {} ELSE L[Parent[a]]]
           anc == [a \in Blocks |-> Ancestors(a)]
<1>1. Satisfies(anc)
  <2>1. \A a \in Blocks : anc[a] = {a} \cup IF Height[a] = 0 THEN {} ELSE anc[Parent[a]]
    <3> SUFFICES ASSUME NEW a \in Blocks
                 PROVE  anc[a] = {a} \cup IF Height[a] = 0 THEN {} ELSE anc[Parent[a]]
      OBVIOUS
    <3>1. CASE Height[a] = 0
      BY <3>1, AncestorsOfParent
    <3>2. CASE Height[a] # 0
      <4>1. Parent[a] \in Blocks
        BY <3>2, ParentIsBelow
      <4> QED BY <3>2, <4>1, AncestorsOfParent
    <3> QED BY <3>1, <3>2
  <2>2. anc = [a \in Blocks |-> anc[a]]
    OBVIOUS
  <2> HIDE DEF anc
  <2> QED BY <2>1, <2>2
<1>2. Lineage = CHOOSE L : Satisfies(L)
  BY DEF Lineage
<1>3. Satisfies(Lineage)
  <2> HIDE DEF Satisfies, anc
  <2> QED BY <1>1, <1>2
<1> QED BY <1>3

\* The branch of a block: below it, one block for each height, and each
\* with the branch that leads to it.
Branch(b) ==
  /\ Lineage[b] \subseteq Blocks /\ b \in Lineage[b]
  /\ \A a \in Lineage[b] : Height[a] <= Height[b]
  /\ \A a \in Lineage[b] : Height[a] = Height[b] => a = b
  /\ \A a \in Lineage[b] : Lineage[a] = {x \in Lineage[b] : Height[x] <= Height[a]}
  /\ \A n \in 0..Height[b] : \E a \in Lineage[b] : Height[a] = n

LEMMA LowestBlock ==
  ASSUME NEW B \in SUBSET Blocks, B # {}
  PROVE  \E b \in B : \A a \in B : Height[b] <= Height[a]
<1>1. PICK c \in B : TRUE
  OBVIOUS
<1>2. PICK H : H = {Height[b] : b \in {a \in B : Height[a] <= Height[c]}}
  OBVIOUS
<1>3. \A b \in B : Height[b] \in Nat
  BY ParentIsBelow
<1>4. H \subseteq 0..Height[c] /\ Height[c] \in H
  BY <1>2, <1>3
<1>5. IsFiniteSet(H)
  <2>1. 0 \in Int /\ Height[c] \in Int
    BY <1>3
  <2>2. IsFiniteSet(0..Height[c])
    BY <2>1, FS_Interval
  <2> QED BY <1>4, <2>2, FS_Subset
<1>6. \A x \in H : x \in Int
  BY <1>4
<1>7. Min(H) \in H /\ \A x \in H : Min(H) <= x
  BY <1>4, <1>5, <1>6, LeastExists
<1>8. PICK b \in B : Height[b] = Min(H) /\ Height[b] <= Height[c]
  BY <1>2, <1>7
<1>9. ASSUME NEW a \in B
      PROVE  Height[b] <= Height[a]
  <2>1. CASE Height[a] <= Height[c]
    BY <1>2, <1>7, <1>8, <2>1
  <2>2. CASE ~(Height[a] <= Height[c])
    BY <1>3, <1>8, <2>2
  <2> QED BY <2>1, <2>2
<1> QED BY <1>9

LEMMA Branches ==
  ASSUME NEW b \in Blocks
  PROVE  Branch(b)
<1> DEFINE Bad == {a \in Blocks : ~Branch(a)}
<1> SUFFICES ASSUME Bad # {} PROVE FALSE
  OBVIOUS
<1>1. PICK c \in Bad : \A a \in Bad : Height[c] <= Height[a]
  <2>1. Bad \in SUBSET Blocks
    OBVIOUS
  <2> HIDE DEF Bad
  <2> QED BY <2>1, LowestBlock
<1>2. c \in Blocks /\ ~Branch(c)
  OBVIOUS
<1>3. Height[c] \in Nat
  BY <1>2, ParentIsBelow
<1>4. CASE Height[c] = 0
  <2>1. Lineage[c] = {c}
    BY <1>2, <1>4, LineageOfParent
  <2> QED BY <1>2, <1>4, <2>1 DEF Branch
<1>5. CASE Height[c] # 0
  <2>1. PICK p \in Blocks : p = Parent[c]
    BY <1>2, <1>5, ParentIsBelow
  <2>2. Height[p] = Height[c] - 1 /\ Height[p] \in Nat
    BY <1>2, <1>5, <2>1, ParentIsBelow
  <2>3. Branch(p)
    BY <1>1, <1>3, <2>2
  <2>4. Lineage[c] = {c} \cup Lineage[p]
    BY <1>2, <1>5, <2>1, LineageOfParent
  <2>5. \A a \in Lineage[p] : a \in Blocks /\ Height[a] \in Nat /\ Height[a] <= Height[p]
    BY <2>3, ParentIsBelow DEF Branch
  <2>6. \A a \in Lineage[p] : Height[a] < Height[c]
    BY <1>3, <2>2, <2>5
  <2>7. Lineage[c] \subseteq Blocks /\ c \in Lineage[c]
    BY <1>2, <2>4, <2>5
  <2>8. \A a \in Lineage[c] : Height[a] <= Height[c]
    BY <1>3, <2>4, <2>5, <2>6
  <2>9. \A a \in Lineage[c] : Height[a] = Height[c] => a = c
    BY <1>3, <2>4, <2>5, <2>6
  <2>10. ASSUME NEW a \in Lineage[c]
         PROVE  Lineage[a] = {x \in Lineage[c] : Height[x] <= Height[a]}
    <3>1. CASE a = c
      BY <2>8, <3>1
    <3>2. CASE a \in Lineage[p]
      <4>1. Lineage[a] = {x \in Lineage[p] : Height[x] <= Height[a]}
        BY <2>3, <3>2 DEF Branch
      <4>2. ~(Height[c] <= Height[a])
        BY <1>3, <2>5, <2>6, <3>2
      <4> QED BY <2>4, <4>1, <4>2
    <3> QED BY <2>4, <3>1, <3>2
  <2>11. ASSUME NEW n \in 0..Height[c]
         PROVE  \E a \in Lineage[c] : Height[a] = n
    <3>1. CASE n = Height[c]
      BY <2>7, <3>1
    <3>2. CASE n # Height[c]
      <4>1. n \in 0..Height[p]
        BY <1>3, <2>2, <3>2
      <4> QED BY <2>3, <2>4, <4>1 DEF Branch
    <3> QED BY <3>1, <3>2
  <2>12. Branch(c)
    BY <2>7, <2>8, <2>9, <2>10, <2>11 DEF Branch
  <2> QED BY <1>2, <2>12
<1> QED BY <1>4, <1>5

LEMMA BlockAtHeight ==
  ASSUME tip \in Blocks, NEW n \in Nat
  PROVE  /\ NetworkAt(n) \in Blocks \cup {NoBlock}
         /\ NetworkAt(n) # NoBlock => NetworkAt(n) \in Blocks /\ Height[NetworkAt(n)] = n
<1>1. CASE Height[tip] < n
  BY <1>1 DEF NetworkAt
<1>2. CASE ~(Height[tip] < n)
  <2>1. n \in 0..Height[tip]
    BY <1>2, ParentIsBelow
  <2>2. Branch(tip)
    BY Branches
  <2>3. \E a \in Lineage[tip] : Height[a] = n
    BY <2>1, <2>2 DEF Branch
  <2>4. PICK a : a = CHOOSE x \in Lineage[tip] : Height[x] = n
    OBVIOUS
  <2>5. a \in Lineage[tip] /\ Height[a] = n
    BY <2>3, <2>4
  <2>6. NetworkAt(n) = a
    BY <1>2, <2>4 DEF NetworkAt
  <2>7. a \in Blocks
    BY <2>2, <2>5 DEF Branch
  <2> QED BY <2>5, <2>6, <2>7
<1> QED BY <1>1, <1>2

-----------------------------------------------------------------------------
(* What an indexer does has its type *)

\* What an indexer has read when it gets to a step.
GoodState(s) ==
  /\ s \in IndexerState
  /\ s.pc = "compare" => s.current \in Blocks
  /\ s.pc = "rewind" => s.block \in Blocks
  /\ s.pc = "store" => s.block \in Blocks /\ s.left > 0

RowsHaveType ==
  /\ headers \subseteq Blocks
  /\ logs \subseteq Blocks \X (UNION {LogsIn[b] : b \in Blocks})
  /\ checkpoint \in Blocks \cup {NoBlock}
  /\ audit \subseteq (UNION {LogsIn[b] : b \in Blocks}) \X Nat
  /\ command \in {"submitted", "finalized", "unknown"}

IndexInv ==
  /\ tip \in Blocks /\ reorgs \in 0..MaxReorgs
  /\ RowsHaveType
  /\ indexer = [i \in Indexers |-> indexer[i]]
  /\ \A i \in Indexers : GoodState(indexer[i])
  /\ synced \subseteq Indexers

\* A step of an indexer that leaves the rows alone.
OnlyReads(i) ==
  UNCHANGED <<tip, reorgs, projections>> /\ synced' \in {synced, synced \cup {i}}

LEMMA IndexGivesType == IndexInv => IndexTypeOK
BY DEF IndexInv, RowsHaveType, GoodState, IndexTypeOK

LEMMA RestingIsGood == GoodState(Resting)
<1>1. 0 \in 0..SyncLimit
  BY SyncsAreCounted
<1> QED BY <1>1 DEF GoodState, IndexerState, Resting

LEMMA StateChanges ==
  ASSUME IndexInv, NEW i \in Indexers, NEW new, GoodState(new), Goes(i, new),
         RowsHaveType', tip' \in Blocks, reorgs' \in 0..MaxReorgs,
         synced' \in {synced, synced \cup {i}}
  PROVE  IndexInv'
<1>1. indexer' = [indexer EXCEPT ![i] = new]
  BY DEF Goes
<1>2. \A j \in Indexers : GoodState(indexer'[j])
  BY <1>1 DEF IndexInv
<1>3. indexer' = [j \in Indexers |-> indexer'[j]]
  BY <1>1 DEF IndexInv
<1>4. synced' \subseteq Indexers
  BY DEF IndexInv
<1> QED BY <1>2, <1>3, <1>4 DEF IndexInv

\* A step that only reads.
LEMMA ReadKeeps ==
  ASSUME IndexInv, NEW i \in Indexers, NEW new, GoodState(new), Goes(i, new), OnlyReads(i)
  PROVE  IndexInv'
<1>1. tip' = tip /\ reorgs' = reorgs /\ headers' = headers /\ logs' = logs
      /\ checkpoint' = checkpoint /\ audit' = audit /\ command' = command
  BY DEF projections, OnlyReads
<1>2. RowsHaveType' /\ tip' \in Blocks /\ reorgs' \in 0..MaxReorgs
  BY <1>1 DEF IndexInv, RowsHaveType
<1> QED BY <1>2, StateChanges DEF OnlyReads

LEMMA HeightsOfTip ==
  ASSUME IndexInv
  PROVE  Height[tip] \in Nat /\ Height[tip] - Confirmations \in Int
BY ParentIsBelow, SyncsAreCounted DEF IndexInv

LEMMA BeginSyncState ==
  ASSUME IndexInv
  PROVE  GoodState([Resting EXCEPT !.pc = "current", !.left = SyncLimit,
                                   !.safe = Height[tip] - Confirmations])
<1>1. PICK safe \in Int : safe = Height[tip] - Confirmations
  BY HeightsOfTip
<1>2. SyncLimit \in 0..SyncLimit
  BY SyncsAreCounted
<1>3. PICK new : new = [Resting EXCEPT !.pc = "current", !.left = SyncLimit, !.safe = safe]
  OBVIOUS
<1>4. Resting \in IndexerState
  BY RestingIsGood DEF GoodState
<1>5. new \in IndexerState /\ new.pc = "current"
  BY <1>2, <1>3, <1>4 DEF IndexerState
<1>6. GoodState(new)
  BY <1>5 DEF GoodState
<1> QED BY <1>1, <1>3, <1>6

LEMMA BeginSyncKeeps ==
  ASSUME IndexInv, NEW i \in Indexers, BeginSync(i)
  PROVE  IndexInv'
<1>1. PICK new : new = [Resting EXCEPT !.pc = "current", !.left = SyncLimit,
                                       !.safe = Height[tip] - Confirmations]
  OBVIOUS
<1>2. GoodState(new)
  BY <1>1, BeginSyncState
<1>3. Goes(i, new) /\ OnlyReads(i)
  BY <1>1 DEF BeginSync, OnlyReads
<1> QED BY <1>2, <1>3, ReadKeeps

LEMMA ReadCurrentKeeps ==
  ASSUME IndexInv, NEW i \in Indexers, ReadCurrent(i)
  PROVE  IndexInv'
<1>1. PICK s : s = indexer[i]
  OBVIOUS
<1>2. s \in IndexerState /\ checkpoint \in Blocks \cup {NoBlock}
  BY <1>1 DEF IndexInv, GoodState, RowsHaveType
<1>3. PICK pc : pc = IF checkpoint = NoBlock THEN "reread" ELSE "compare"
  OBVIOUS
<1>4. PICK new : new = [s EXCEPT !.current = checkpoint, !.pc = pc]
  OBVIOUS
<1>5. Goes(i, new) /\ OnlyReads(i)
  BY <1>1, <1>3, <1>4 DEF ReadCurrent, OnlyReads
<1>6. pc \in {"reread", "compare"} /\ (pc = "compare" => checkpoint \in Blocks)
  BY <1>2, <1>3
<1>7. new \in IndexerState /\ new.pc = pc /\ new.current = checkpoint
  BY <1>2, <1>4, <1>6 DEF IndexerState
<1>8. GoodState(new)
  BY <1>6, <1>7 DEF GoodState
<1> QED BY <1>5, <1>8, ReadKeeps

LEMMA CompareHeadKeeps ==
  ASSUME IndexInv, NEW i \in Indexers, CompareHead(i)
  PROVE  IndexInv'
<1>1. PICK s : s = indexer[i]
  OBVIOUS
<1>2. s \in IndexerState /\ s.current \in Blocks
  BY <1>1 DEF IndexInv, GoodState, CompareHead, At
<1>3. OnlyReads(i)
  BY DEF CompareHead, OnlyReads
<1>4. CASE Goes(i, Resting)
  BY <1>3, <1>4, ReadKeeps, RestingIsGood
<1>5. CASE ~Goes(i, Resting)
  <2>1. PICK pc : pc = IF NetworkAt(Height[s.current]) = s.current THEN "reread" ELSE "walk"
    OBVIOUS
  <2>2. PICK w \in Int : w = Height[s.current] - 1
    BY <1>2, ParentIsBelow
  <2>3. PICK new : new = [s EXCEPT !.pc = pc, !.walk = w]
    OBVIOUS
  <2>4. Goes(i, new)
    BY <1>1, <1>5, <2>1, <2>2, <2>3 DEF CompareHead, Rests
  <2>5. pc \in {"reread", "walk"}
    BY <2>1
  <2>6. new \in IndexerState /\ new.pc = pc
    BY <1>2, <2>3, <2>5 DEF IndexerState
  <2>7. GoodState(new)
    BY <2>5, <2>6 DEF GoodState
  <2> QED BY <1>3, <2>4, <2>7, ReadKeeps
<1> QED BY <1>4, <1>5

\* The block an indexer goes on with is one of the headers.
LEMMA ReadStoredState ==
  ASSUME IndexInv, NEW i \in Indexers, ReadStored(i)
  PROVE  \E new : /\ GoodState(new) /\ Goes(i, new)
                  /\ new.pc # "idle" => new.block \in headers \cup {NoBlock}
<1>1. PICK s : s = indexer[i]
  OBVIOUS
<1>2. s \in IndexerState /\ s.pc = "walk"
  BY <1>1 DEF IndexInv, GoodState, ReadStored, At
<1>3. PICK stored : stored = {b \in headers : Height[b] = s.walk}
  OBVIOUS
<1>4. CASE s.walk < 0
  <2>1. Goes(i, Resting)
    BY <1>1, <1>4 DEF ReadStored, Rests
  <2>2. Resting.pc = "idle"
    BY DEF Resting
  <2> QED BY <2>1, <2>2, RestingIsGood
<1>5. CASE ~(s.walk < 0)
  <2>1. PICK b \in (IF stored = {} THEN {NoBlock} ELSE stored) :
          Goes(i, [s EXCEPT !.pc = "probe", !.block = b])
    BY <1>1, <1>3, <1>5 DEF ReadStored
  <2>2. b \in headers \cup {NoBlock}
    BY <1>3, <2>1
  <2>3. b \in Blocks \cup {NoBlock}
    BY <2>2 DEF IndexInv, RowsHaveType
  <2>4. PICK new : new = [s EXCEPT !.pc = "probe", !.block = b]
    OBVIOUS
  <2>5. new \in IndexerState /\ new.pc = "probe" /\ new.block = b
    BY <1>2, <2>3, <2>4 DEF IndexerState
  <2>6. GoodState(new)
    BY <2>5 DEF GoodState
  <2> QED BY <2>1, <2>2, <2>4, <2>5, <2>6
<1> QED BY <1>4, <1>5

LEMMA ReadStoredKeeps ==
  ASSUME IndexInv, NEW i \in Indexers, ReadStored(i)
  PROVE  IndexInv'
<1>1. OnlyReads(i)
  BY DEF ReadStored, OnlyReads
<1> QED BY <1>1, ReadStoredState, ReadKeeps

\* It rewinds to the block it read before.
LEMMA ReadNetworkState ==
  ASSUME IndexInv, NEW i \in Indexers, ReadNetwork(i)
  PROVE  \E new : /\ GoodState(new) /\ Goes(i, new)
                  /\ new.pc = "rewind" => new.block = indexer[i].block
                  /\ new.pc # "probe"
<1>1. PICK s : s = indexer[i]
  OBVIOUS
<1>2. s \in IndexerState /\ s.pc = "probe"
  BY <1>1 DEF IndexInv, GoodState, ReadNetwork, At
<1>3. CASE NetworkAt(s.walk) = NoBlock
  <2>1. Goes(i, Resting)
    BY <1>1, <1>3 DEF ReadNetwork, Rests
  <2>2. Resting.pc = "idle"
    BY DEF Resting
  <2> QED BY <2>1, <2>2, RestingIsGood
<1>4. CASE NetworkAt(s.walk) # NoBlock /\ NetworkAt(s.walk) = s.block
  <2>1. PICK new : new = [s EXCEPT !.pc = "rewind"]
    OBVIOUS
  <2>2. Goes(i, new)
    BY <1>1, <1>4, <2>1 DEF ReadNetwork
  <2>3. new \in IndexerState /\ new.pc = "rewind" /\ new.block = s.block
    BY <1>2, <2>1 DEF IndexerState
  <2>4. s.block \in Blocks
    BY <1>2, <1>4 DEF IndexerState
  <2>5. GoodState(new)
    BY <2>3, <2>4 DEF GoodState
  <2> QED BY <1>1, <2>2, <2>3, <2>5
<1>5. CASE NetworkAt(s.walk) # NoBlock /\ NetworkAt(s.walk) # s.block
  <2>1. PICK m \in Int : m = s.walk - 1
    BY <1>2 DEF IndexerState
  <2>2. PICK new : new = [s EXCEPT !.pc = "walk", !.block = NoBlock, !.walk = m]
    OBVIOUS
  <2>3. Goes(i, new)
    BY <1>1, <1>5, <2>1, <2>2 DEF ReadNetwork
  <2>4. new \in IndexerState /\ new.pc = "walk"
    BY <1>2, <2>1, <2>2 DEF IndexerState
  <2>5. GoodState(new)
    BY <2>4 DEF GoodState
  <2> QED BY <2>3, <2>4, <2>5
<1> QED BY <1>3, <1>4, <1>5

LEMMA ReadNetworkKeeps ==
  ASSUME IndexInv, NEW i \in Indexers, ReadNetwork(i)
  PROVE  IndexInv'
<1>1. OnlyReads(i)
  BY DEF ReadNetwork, OnlyReads
<1> QED BY <1>1, ReadNetworkState, ReadKeeps

LEMMA RereadKeeps ==
  ASSUME IndexInv, NEW i \in Indexers, Reread(i)
  PROVE  IndexInv'
<1>1. PICK s : s = indexer[i]
  OBVIOUS
<1>2. s \in IndexerState /\ checkpoint \in Blocks \cup {NoBlock}
  BY <1>1 DEF IndexInv, GoodState, RowsHaveType
<1>3. PICK new : new = [s EXCEPT !.pc = "fetch", !.current = checkpoint]
  OBVIOUS
<1>4. Goes(i, new) /\ OnlyReads(i)
  BY <1>1, <1>3 DEF Reread, OnlyReads
<1>5. new \in IndexerState /\ new.pc = "fetch"
  BY <1>2, <1>3 DEF IndexerState
<1>6. GoodState(new)
  BY <1>5 DEF GoodState
<1> QED BY <1>4, <1>6, ReadKeeps

LEMMA FetchBlockKeeps ==
  ASSUME IndexInv, NEW i \in Indexers, FetchBlock(i)
  PROVE  IndexInv'
<1>1. PICK s : s = indexer[i]
  OBVIOUS
<1>2. s \in IndexerState /\ s.current \in Blocks \cup {NoBlock} /\ s.left \in 0..SyncLimit
  BY <1>1 DEF IndexInv, GoodState, IndexerState
<1>3. OnlyReads(i)
  BY DEF FetchBlock, OnlyReads
<1>4. PICK b : b = NetworkAt(Number(s.current) + 1)
  OBVIOUS
<1>5. PICK n \in Nat : n = Number(s.current) + 1
  <2>1. CASE s.current = NoBlock
    BY <2>1 DEF Number
  <2>2. CASE s.current # NoBlock
    <3>1. s.current \in Blocks /\ Number(s.current) = Height[s.current]
      BY <1>2, <2>2 DEF Number
    <3> QED BY <3>1, ParentIsBelow
  <2> QED BY <2>1, <2>2
<1>6. b # NoBlock => b \in Blocks
  BY <1>4, <1>5, BlockAtHeight DEF IndexInv
<1>7. CASE s.left = 0 \/ Number(s.current) >= s.safe \/ b = NoBlock
  <2>1. Goes(i, Resting)
    BY <1>1, <1>4, <1>7 DEF FetchBlock, Rests
  <2> QED BY <1>3, <2>1, ReadKeeps, RestingIsGood
<1>8. CASE /\ ~(s.left = 0 \/ Number(s.current) >= s.safe \/ b = NoBlock)
           /\ Parent[b] # s.current /\ s.current # NoBlock
  <2>1. PICK new : new = [s EXCEPT !.pc = "current"]
    OBVIOUS
  <2>2. Goes(i, new)
    BY <1>1, <1>4, <1>8, <2>1 DEF FetchBlock
  <2>3. new \in IndexerState /\ new.pc = "current"
    BY <1>2, <2>1 DEF IndexerState
  <2>4. GoodState(new)
    BY <2>3 DEF GoodState
  <2> QED BY <1>3, <2>2, <2>4, ReadKeeps
<1>9. CASE /\ ~(s.left = 0 \/ Number(s.current) >= s.safe \/ b = NoBlock)
           /\ ~(Parent[b] # s.current /\ s.current # NoBlock)
  <2>1. PICK new : new = [s EXCEPT !.pc = "store", !.block = b]
    OBVIOUS
  <2>2. Goes(i, new)
    BY <1>1, <1>4, <1>9, <2>1 DEF FetchBlock
  <2>3. b \in Blocks /\ s.left > 0
    BY <1>2, <1>6, <1>9
  <2>4. new \in IndexerState /\ new.pc = "store" /\ new.block = b /\ new.left = s.left
    BY <1>2, <2>1, <2>3 DEF IndexerState
  <2>5. GoodState(new)
    BY <2>3, <2>4 DEF GoodState
  <2> QED BY <1>3, <2>2, <2>5, ReadKeeps
<1> QED BY <1>7, <1>8, <1>9

LEMMA AbortSyncKeeps ==
  ASSUME IndexInv, NEW i \in Indexers, AbortSync(i)
  PROVE  IndexInv'
BY ReadKeeps, RestingIsGood DEF AbortSync, Rests, OnlyReads

LEMMA NetworkMovesKeeps ==
  ASSUME IndexInv, NEW b \in Blocks, NetworkMoves(b)
  PROVE  IndexInv'
<1>1. tip' = b /\ reorgs' \in 0..MaxReorgs /\ indexer' = indexer /\ synced' = synced
  BY SyncsAreCounted DEF NetworkMoves, IndexInv
<1>2. headers' = headers /\ logs' = logs /\ checkpoint' = checkpoint /\ audit' = audit
      /\ command' = command
  BY DEF NetworkMoves, projections
<1>3. RowsHaveType'
  BY <1>2 DEF IndexInv, RowsHaveType
<1> QED BY <1>1, <1>3 DEF IndexInv

LEMMA StatusHasType ==
  ASSUME NEW status \in {"submitted", "finalized", "unknown"}, NEW rows, NEW heads
  PROVE  Projected(status, rows, heads) \in {"submitted", "finalized", "unknown"}
BY DEF Projected

LEMMA AuditHasType ==
  ASSUME NEW L, NEW rows, rows \subseteq L \X Nat, NEW heads,
         NEW events, events \subseteq Blocks \X L
  PROVE  Audited(rows, heads, events) \subseteq L \X Nat
<1>1. ASSUME NEW e \in events
      PROVE  <<e[2], Height[e[1]]>> \in L \X Nat
  <2>1. e[1] \in Blocks /\ e[2] \in L
    BY <1>1
  <2> QED BY <2>1, ParentIsBelow
<1> QED BY <1>1 DEF Audited

LEMMA RewindKeeps ==
  ASSUME IndexInv, NEW i \in Indexers, Rewind(i)
  PROVE  IndexInv'
<1>1. PICK s : s = indexer[i]
  OBVIOUS
<1>2. s \in IndexerState /\ s.block \in Blocks
  BY <1>1 DEF IndexInv, GoodState, Rewind, At
<1>3. PICK n : n = Height[s.block]
  OBVIOUS
<1>4. tip' = tip /\ reorgs' = reorgs /\ synced' = synced
  BY DEF Rewind
<1>5. CASE Number(checkpoint) <= n
  <2>1. Goes(i, Resting) /\ UNCHANGED projections
    BY <1>1, <1>3, <1>5 DEF Rewind, Rests
  <2>2. OnlyReads(i)
    BY <1>4, <2>1 DEF OnlyReads
  <2> QED BY <2>1, <2>2, ReadKeeps, RestingIsGood
<1>6. CASE ~(Number(checkpoint) <= n)
  <2>1. /\ headers' = {b \in headers : Height[b] <= n}
        /\ logs' = Kept(logs, n)
        /\ checkpoint' = s.block
        /\ audit' = {a \in audit : a[2] <= n}
        /\ command' = Projected(command, logs', headers')
    BY <1>1, <1>3, <1>6 DEF Rewind
  <2>2. headers' \subseteq headers /\ logs' \subseteq logs /\ audit' \subseteq audit
    BY <2>1 DEF Kept
  <2>3. command' \in {"submitted", "finalized", "unknown"}
    BY <2>1, StatusHasType DEF IndexInv, RowsHaveType
  <2>4. RowsHaveType'
    BY <1>2, <2>1, <2>2, <2>3 DEF IndexInv, RowsHaveType
  <2>5. PICK new : new = [s EXCEPT !.pc = "reread"]
    OBVIOUS
  <2>6. Goes(i, new)
    BY <1>1, <1>3, <1>6, <2>5 DEF Rewind
  <2>7. new \in IndexerState /\ new.pc = "reread"
    BY <1>2, <2>5 DEF IndexerState
  <2>8. GoodState(new)
    BY <2>7 DEF GoodState
  <2>9. tip' \in Blocks /\ reorgs' \in 0..MaxReorgs
    BY <1>4 DEF IndexInv
  <2> QED BY <1>4, <2>4, <2>6, <2>8, <2>9, StateChanges
<1> QED BY <1>5, <1>6

LEMMA StoreBlockKeeps ==
  ASSUME IndexInv, NEW i \in Indexers, StoreBlock(i)
  PROVE  IndexInv'
<1>1. PICK s : s = indexer[i]
  OBVIOUS
<1>2. s \in IndexerState /\ s.block \in Blocks /\ s.left > 0
  BY <1>1 DEF IndexInv, GoodState, StoreBlock, At
<1>3. PICK b \in Blocks : b = s.block
  BY <1>2
<1>4. tip' = tip /\ reorgs' = reorgs /\ synced' = synced
  BY DEF StoreBlock
<1>5. CASE ~Storable(b)
  <2>1. Goes(i, Resting) /\ UNCHANGED projections
    BY <1>1, <1>3, <1>5 DEF StoreBlock, Rests
  <2>2. OnlyReads(i)
    BY <1>4, <2>1 DEF OnlyReads
  <2> QED BY <2>1, <2>2, ReadKeeps, RestingIsGood
<1>6. CASE Storable(b)
  <2>1. /\ headers' = headers \cup {b}
        /\ logs' = logs \cup ({b} \X LogsIn[b])
        /\ checkpoint' = b
        /\ command' = Projected(command, logs', headers')
        /\ audit' = Audited(audit, headers', logs')
    BY <1>1, <1>3, <1>6 DEF StoreBlock
  <2>2. PICK L : L = UNION {LogsIn[a] : a \in Blocks}
    OBVIOUS
  <2>3. logs \subseteq Blocks \X L /\ audit \subseteq L \X Nat
    BY <2>2 DEF IndexInv, RowsHaveType
  <2>4. {b} \X LogsIn[b] \subseteq Blocks \X L
    BY <2>2
  <2>5. logs' \subseteq Blocks \X L
    BY <2>1, <2>3, <2>4
  <2>6. audit' \subseteq L \X Nat
    BY <2>1, <2>3, <2>5, AuditHasType
  <2>7. command' \in {"submitted", "finalized", "unknown"}
    BY <2>1, StatusHasType DEF IndexInv, RowsHaveType
  <2>8. RowsHaveType'
    BY <2>1, <2>2, <2>5, <2>6, <2>7 DEF IndexInv, RowsHaveType
  <2>9. PICK m \in 0..SyncLimit : m = s.left - 1
    BY <1>2, SyncsAreCounted DEF IndexerState
  <2>10. PICK new : new = [s EXCEPT !.pc = "fetch", !.current = b, !.left = m]
    OBVIOUS
  <2>11. Goes(i, new)
    BY <1>1, <1>3, <1>6, <2>9, <2>10 DEF StoreBlock
  <2>12. new \in IndexerState /\ new.pc = "fetch"
    BY <1>2, <2>10 DEF IndexerState
  <2>13. GoodState(new)
    BY <2>12 DEF GoodState
  <2>14. tip' \in Blocks /\ reorgs' \in 0..MaxReorgs
    BY <1>4 DEF IndexInv
  <2> QED BY <1>4, <2>8, <2>11, <2>13, <2>14, StateChanges
<1> QED BY <1>5, <1>6

LEMMA IndexInitHolds ==
  IndexInit => IndexInv
<1> SUFFICES ASSUME IndexInit PROVE IndexInv
  OBVIOUS
<1>1. RowsHaveType
  BY DEF IndexInit, RowsHaveType
<1>2. indexer = [i \in Indexers |-> indexer[i]] /\ \A i \in Indexers : GoodState(indexer[i])
  BY RestingIsGood DEF IndexInit
<1> QED BY <1>1, <1>2, SyncsAreCounted DEF IndexInit, IndexInv

LEMMA IndexStutters ==
  IndexInv /\ UNCHANGED indexVars => IndexInv'
BY DEF indexVars, IndexInv, RowsHaveType

LEMMA IndexStepKeeps ==
  IndexInv /\ [IndexNext]_indexVars => IndexInv'
<1> SUFFICES ASSUME IndexInv, [IndexNext]_indexVars PROVE IndexInv'
  OBVIOUS
<1>1. CASE UNCHANGED indexVars
  BY <1>1, IndexStutters
<1>2. ASSUME NEW i \in Indexers, SyncStep(i) \/ AbortSync(i)
      PROVE  IndexInv'
  BY <1>2, BeginSyncKeeps, ReadCurrentKeeps, CompareHeadKeeps, ReadStoredKeeps, ReadNetworkKeeps,
     RewindKeeps, RereadKeeps, FetchBlockKeeps, StoreBlockKeeps, AbortSyncKeeps DEF SyncStep
<1>3. ASSUME NEW b \in Blocks, NetworkMoves(b)
      PROVE  IndexInv'
  BY <1>3, NetworkMovesKeeps
<1> QED BY <1>1, <1>2, <1>3 DEF IndexNext

\* Rows and what indexers have read have their types, for any tree of blocks and any
\* number of indexers (chain/indexer.ts).
THEOREM IndexTypeCorrect == IndexSpec => [](IndexInv /\ IndexTypeOK)
<1>1. IndexSpec => []IndexInv
  BY IndexInitHolds, IndexStepKeeps, PTL DEF IndexSpec
<1> QED BY <1>1, IndexGivesType, PTL

-----------------------------------------------------------------------------
(* What the headers are, and what was projected *)

\* The rows of the headers, and what they were projected onto.
RowsProject ==
  /\ \A entry \in logs : entry[1] \in headers /\ entry[2] \in LogsIn[entry[1]]
  /\ \A b \in headers : \A l \in LogsIn[b] : <<b, l>> \in logs
  /\ command = "finalized" <=> \E entry \in logs : entry[2] = ClaimLog
  /\ \A a \in audit : \E entry \in logs :
       entry[2] # ClaimLog /\ a = <<entry[2], Height[entry[1]]>>
  /\ \A entry \in logs : entry[2] # ClaimLog => <<entry[2], Height[entry[1]]>> \in audit

\* One header for each height up to the checkpoint's.
HeadersStack ==
  /\ \A b1, b2 \in headers : Height[b1] = Height[b2] => b1 = b2
  /\ {Height[b] : b \in headers} = 0..Number(checkpoint)

OnBranch == headers = IF checkpoint = NoBlock THEN {} ELSE Lineage[checkpoint]

\* The block an indexer goes back to is one of the headers.
RewindsOnBranch ==
  \A i \in Indexers :
    At(i, "probe") \/ At(i, "rewind") => indexer[i].block \in headers \cup {NoBlock}

\* Only one indexer has ever run.
Alone == \E i \in Indexers : synced \subseteq {i}

ActiveSynced == \A i \in Indexers : At(i, "idle") \/ i \in synced

BranchInv == Alone => OnBranch /\ RewindsOnBranch

LEMMA HeadersTell ==
  ASSUME IndexInv, RowsProject, HeadersStack, BranchInv
  PROVE  IndexFollowsOneBranch
<1>1. headers \subseteq Blocks
  BY DEF IndexInv, RowsHaveType
<1>2. \A entry \in logs : entry = <<entry[1], entry[2]>>
  BY DEF IndexInv, RowsHaveType
<1>3. logs = UNION {{b} \X LogsIn[b] : b \in headers}
  <2>1. ASSUME NEW entry \in logs
        PROVE  entry \in UNION {{b} \X LogsIn[b] : b \in headers}
    <3>1. entry[1] \in headers /\ entry \in {entry[1]} \X LogsIn[entry[1]]
      BY <1>2 DEF RowsProject
    <3> QED BY <3>1
  <2>2. ASSUME NEW b \in headers, NEW entry \in {b} \X LogsIn[b]
        PROVE  entry \in logs
    BY <2>2 DEF RowsProject
  <2> QED BY <2>1, <2>2
<1>4. audit = {<<entry[2], Height[entry[1]]>> : entry \in {r \in logs : r[2] # ClaimLog}}
  BY DEF RowsProject
<1>5. ProjectsItsHeaders
  BY <1>3, <1>4 DEF RowsProject, HeadersStack, ProjectsItsHeaders
<1> QED BY <1>5 DEF BranchInv, Alone, OnBranch, IndexFollowsOneBranch

LEMMA UnchangedProject ==
  ASSUME RowsProject, HeadersStack, UNCHANGED projections
  PROVE  RowsProject' /\ HeadersStack' /\ (OnBranch => OnBranch')
<1>1. headers' = headers /\ logs' = logs
      /\ checkpoint' = checkpoint /\ audit' = audit /\ command' = command
  BY DEF projections
<1>2. Number(checkpoint') = Number(checkpoint)
  BY <1>1 DEF Number
<1> QED BY <1>1, <1>2 DEF RowsProject, HeadersStack, OnBranch

\* A command is projected as the logs say.
LEMMA ProjectedTells ==
  ASSUME NEW status, NEW rows, NEW heads, \A entry \in rows : entry[1] \in heads
  PROVE  Projected(status, rows, heads) = "finalized" <=> \E entry \in rows : entry[2] = ClaimLog
<1>1. CASE \E entry \in rows : entry[2] = ClaimLog
  BY <1>1 DEF Projected
<1>2. CASE ~\E entry \in rows : entry[2] = ClaimLog
  <2>1. Projected(status, rows, heads) = IF status = "finalized" THEN "unknown" ELSE status
    BY <1>2 DEF Projected
  <2> QED BY <1>2, <2>1
<1> QED BY <1>1, <1>2

LEMMA RewindProjects ==
  ASSUME IndexInv, RowsProject, HeadersStack, NEW i \in Indexers, Rewind(i)
  PROVE  RowsProject' /\ HeadersStack'
<1>1. PICK b : b = indexer[i].block
  OBVIOUS
<1>2. b \in Blocks /\ b # NoBlock
  BY <1>1, BlocksFormATree DEF IndexInv, GoodState, Rewind, At
<1>3. CASE Number(checkpoint) <= Height[b]
  BY <1>1, <1>3, UnchangedProject DEF Rewind
<1>4. CASE ~(Number(checkpoint) <= Height[b])
  <2>1. PICK n : n = Height[b]
    OBVIOUS
  <2>2. /\ headers' = {a \in headers : Height[a] <= n}
        /\ logs' = {entry \in logs : Height[entry[1]] <= n}
        /\ checkpoint' = b
        /\ audit' = {a \in audit : a[2] <= n}
        /\ command' = Projected(command, logs', headers')
    BY <1>1, <1>4, <2>1 DEF Rewind, Kept
  <2>3. n \in Nat /\ Number(b) = n
    BY <1>2, <2>1, ParentIsBelow DEF Number
  <2>4. PICK m : m = Number(checkpoint)
    OBVIOUS
  <2>5. HeadersStack'
    <3>1. m \in Int /\ n < m
      <4>1. CASE checkpoint = NoBlock
        BY <1>4, <2>1, <2>3, <2>4, <4>1 DEF Number
      <4>2. CASE checkpoint # NoBlock
        <5>1. checkpoint \in Blocks /\ m = Height[checkpoint]
          BY <2>4, <4>2 DEF IndexInv, RowsHaveType, Number
        <5> QED BY <1>4, <2>1, <2>3, <2>4, <5>1, ParentIsBelow
      <4> QED BY <4>1, <4>2
    <3>2. {Height[a] : a \in headers} = 0..m
      BY <2>4 DEF HeadersStack
    <3>3. \A a \in headers : Height[a] \in 0..m
      BY <3>2
    <3>4. \A k \in 0..m : \E a \in headers : Height[a] = k
      BY <3>2
    <3>5. \A a \in headers' : Height[a] \in 0..n
      BY <2>2, <2>3, <3>1, <3>3
    <3>6. \A k \in 0..n : \E a \in headers' : Height[a] = k
      <4> SUFFICES ASSUME NEW k \in 0..n PROVE \E a \in headers' : Height[a] = k
        OBVIOUS
      <4>1. k \in 0..m /\ k <= n
        BY <2>3, <3>1
      <4>2. PICK a \in headers : Height[a] = k
        BY <3>4, <4>1
      <4> QED BY <2>2, <4>1, <4>2
    <3>7. {Height[a] : a \in headers'} = 0..n
      BY <3>5, <3>6
    <3>8. Number(checkpoint') = n
      BY <2>2, <2>3
    <3>9. \A b1, b2 \in headers' : Height[b1] = Height[b2] => b1 = b2
      BY <2>2 DEF HeadersStack
    <3> QED BY <3>7, <3>8, <3>9 DEF HeadersStack
  <2>6. \A entry \in logs' : entry[1] \in headers' /\ entry[2] \in LogsIn[entry[1]]
    BY <2>2 DEF RowsProject
  <2>7. ASSUME NEW a \in headers', NEW l \in LogsIn[a]
        PROVE  <<a, l>> \in logs'
    <3>1. a \in headers /\ Height[a] <= n
      BY <2>2
    <3>2. <<a, l>> \in logs
      BY <3>1 DEF RowsProject
    <3> QED BY <2>2, <3>1, <3>2
  <2>8. command' = "finalized" <=> \E entry \in logs' : entry[2] = ClaimLog
    BY <2>2, <2>6, ProjectedTells
  <2>9. ASSUME NEW a \in audit'
        PROVE  \E entry \in logs' : entry[2] # ClaimLog /\ a = <<entry[2], Height[entry[1]]>>
    <3>1. a \in audit /\ a[2] <= n
      BY <2>2
    <3>2. PICK entry \in logs : entry[2] # ClaimLog /\ a = <<entry[2], Height[entry[1]]>>
      BY <3>1 DEF RowsProject
    <3>3. entry \in logs'
      BY <2>2, <3>1, <3>2
    <3> QED BY <3>2, <3>3
  <2>10. ASSUME NEW entry \in logs', entry[2] # ClaimLog
         PROVE  <<entry[2], Height[entry[1]]>> \in audit'
    <3>1. entry \in logs /\ Height[entry[1]] <= n
      BY <2>2
    <3>2. <<entry[2], Height[entry[1]]>> \in audit
      BY <2>10, <3>1 DEF RowsProject
    <3> QED BY <2>2, <3>1, <3>2
  <2> QED BY <2>5, <2>6, <2>7, <2>8, <2>9, <2>10 DEF RowsProject
<1> QED BY <1>3, <1>4

LEMMA RewindOnBranch ==
  ASSUME IndexInv, OnBranch, RewindsOnBranch, NEW i \in Indexers, Rewind(i)
  PROVE  OnBranch'
<1>1. PICK b : b = indexer[i].block
  OBVIOUS
<1>2. b \in headers /\ b \in Blocks /\ b # NoBlock
  BY <1>1, BlocksFormATree DEF RewindsOnBranch, IndexInv, GoodState, Rewind, At
<1>3. CASE Number(checkpoint) <= Height[b]
  BY <1>1, <1>3 DEF Rewind, projections, OnBranch
<1>4. CASE ~(Number(checkpoint) <= Height[b])
  <2>1. headers' = {a \in headers : Height[a] <= Height[b]} /\ checkpoint' = b
    BY <1>1, <1>4 DEF Rewind
  <2>2. checkpoint \in Blocks /\ headers = Lineage[checkpoint]
    BY <1>2 DEF OnBranch, IndexInv, RowsHaveType
  <2>3. Lineage[b] = {a \in headers : Height[a] <= Height[b]}
    BY <1>2, <2>2, Branches DEF Branch
  <2> QED BY <1>2, <2>1, <2>3 DEF OnBranch
<1> QED BY <1>3, <1>4

LEMMA StoreBlockProjects ==
  ASSUME IndexInv, RowsProject, HeadersStack, NEW i \in Indexers, StoreBlock(i)
  PROVE  RowsProject' /\ HeadersStack'
<1>1. PICK b \in Blocks : b = indexer[i].block
  BY DEF IndexInv, GoodState, StoreBlock, At
<1>2. CASE ~Storable(b)
  BY <1>1, <1>2, UnchangedProject DEF StoreBlock
<1>3. CASE Storable(b)
  <2>1. /\ headers' = headers \cup {b}
        /\ logs' = logs \cup ({b} \X LogsIn[b])
        /\ checkpoint' = b
        /\ command' = Projected(command, logs', headers')
        /\ audit' = Audited(audit, headers', logs')
    BY <1>1, <1>3 DEF StoreBlock
  <2>2. checkpoint = Parent[b] /\ \A entry \in logs : entry[2] \in LogsIn[b] => entry[1] = b
    BY <1>3 DEF Storable, Follows
  <2>3. HeadersStack'
    <3>1. PICK h \in Nat : h = Height[b]
      BY ParentIsBelow
    <3>2. Number(checkpoint) = h - 1
      <4>1. CASE h = 0
        <5>1. checkpoint = NoBlock
          BY <2>2, <3>1, <4>1, ParentIsBelow
        <5>2. Number(checkpoint) = -1
          BY <5>1 DEF Number
        <5> QED BY <4>1, <5>2
      <4>2. CASE h # 0
        <5>1. checkpoint \in Blocks /\ checkpoint # NoBlock /\ Height[checkpoint] = h - 1
          BY <2>2, <3>1, <4>2, ParentIsBelow, BlocksFormATree
        <5> QED BY <5>1 DEF Number
      <4> QED BY <4>1, <4>2
    <3>3. {Height[a] : a \in headers} = 0..(h - 1)
      BY <3>2 DEF HeadersStack
    <3>4. \A a \in headers : Height[a] \in 0..(h - 1)
      BY <3>3
    <3>5. \A k \in 0..(h - 1) : \E a \in headers : Height[a] = k
      BY <3>3
    <3>6. \A a \in headers' : Height[a] \in 0..h
      BY <2>1, <3>1, <3>4
    <3>7. \A k \in 0..h : \E a \in headers' : Height[a] = k
      <4> SUFFICES ASSUME NEW k \in 0..h PROVE \E a \in headers' : Height[a] = k
        OBVIOUS
      <4>1. CASE k = h
        BY <2>1, <3>1, <4>1
      <4>2. CASE k # h
        <5>1. k \in 0..(h - 1)
          BY <3>1, <4>2
        <5> QED BY <2>1, <3>5, <5>1
      <4> QED BY <4>1, <4>2
    <3>8. {Height[a] : a \in headers'} = 0..h
      BY <3>6, <3>7
    <3>9. b # NoBlock
      BY BlocksFormATree
    <3>10. Number(checkpoint') = h
      BY <2>1, <3>1, <3>9 DEF Number
    <3>11. \A a \in headers : Height[a] # Height[b]
      BY <3>1, <3>4
    <3>12. \A b1, b2 \in headers' : Height[b1] = Height[b2] => b1 = b2
      BY <2>1, <3>11 DEF HeadersStack
    <3> QED BY <3>8, <3>10, <3>12 DEF HeadersStack
  <2>4. \A entry \in logs' : entry[1] \in headers' /\ entry[2] \in LogsIn[entry[1]]
    BY <2>1 DEF RowsProject
  <2>5. ASSUME NEW a \in headers', NEW l \in LogsIn[a]
        PROVE  <<a, l>> \in logs'
    <3>1. CASE a = b
      BY <2>1, <2>5, <3>1
    <3>2. CASE a \in headers
      BY <2>1, <2>5, <3>2 DEF RowsProject
    <3> QED BY <2>1, <3>1, <3>2
  <2>6. command' = "finalized" <=> \E entry \in logs' : entry[2] = ClaimLog
    BY <2>1, <2>4, ProjectedTells
  <2>7. ASSUME NEW a \in audit'
        PROVE  \E entry \in logs' : entry[2] # ClaimLog /\ a = <<entry[2], Height[entry[1]]>>
    <3>1. CASE a \in audit
      <4>1. PICK entry \in logs : entry[2] # ClaimLog /\ a = <<entry[2], Height[entry[1]]>>
        BY <3>1 DEF RowsProject
      <4> QED BY <2>1, <4>1
    <3>2. CASE a \notin audit
      BY <2>1, <3>2 DEF Audited
    <3> QED BY <3>1, <3>2
  <2>8. ASSUME NEW entry \in logs', entry[2] # ClaimLog
        PROVE  <<entry[2], Height[entry[1]]>> \in audit'
    <3>1. audit \subseteq audit'
      BY <2>1 DEF Audited
    <3>2. CASE entry \in logs
      BY <2>8, <3>1, <3>2 DEF RowsProject
    <3>3. CASE entry \notin logs
      <4>1. entry \in {b} \X LogsIn[b] /\ entry[1] = b /\ entry[2] \in LogsIn[b] /\ entry = <<b, entry[2]>>
        BY <2>1, <3>3
      <4>2. ASSUME NEW a \in audit, a[1] = entry[2]
            PROVE  FALSE
        <5>1. PICK old \in logs : a = <<old[2], Height[old[1]]>>
          BY <4>2 DEF RowsProject
        <5>2. old[2] = entry[2]
          BY <4>2, <5>1
        <5>3. old[1] = b
          BY <2>2, <4>1, <5>1, <5>2
        <5>4. old = <<old[1], old[2]>>
          BY <5>1 DEF IndexInv, RowsHaveType
        <5> QED BY <3>3, <4>1, <5>1, <5>2, <5>3, <5>4
      <4>3. entry[1] \in headers'
        BY <2>4
      <4> QED BY <2>1, <2>8, <4>2, <4>3 DEF Audited
    <3> QED BY <3>2, <3>3
  <2> QED BY <2>3, <2>4, <2>5, <2>6, <2>7, <2>8 DEF RowsProject
<1> QED BY <1>2, <1>3

LEMMA StoreBlockOnBranch ==
  ASSUME IndexInv, OnBranch, NEW i \in Indexers, StoreBlock(i)
  PROVE  OnBranch'
<1>1. PICK b \in Blocks : b = indexer[i].block
  BY DEF IndexInv, GoodState, StoreBlock, At
<1>2. CASE ~Storable(b)
  BY <1>1, <1>2 DEF StoreBlock, projections, OnBranch
<1>3. CASE Storable(b)
  <2>1. headers' = headers \cup {b} /\ checkpoint' = b
    BY <1>1, <1>3 DEF StoreBlock
  <2>2. checkpoint = Parent[b]
    BY <1>3 DEF Storable, Follows
  <2>3. headers' = IF checkpoint' = NoBlock THEN {} ELSE Lineage[checkpoint']
    <3>1. b # NoBlock
      BY BlocksFormATree
    <3>2. CASE Height[b] = 0
      <4>1. headers = {}
        BY <2>2, <3>2, ParentIsBelow DEF OnBranch
      <4>2. Lineage[b] = {b}
        BY <3>2, LineageOfParent
      <4> QED BY <2>1, <3>1, <4>1, <4>2
    <3>3. CASE Height[b] # 0
      <4>1. checkpoint \in Blocks /\ checkpoint # NoBlock
        BY <2>2, <3>3, ParentIsBelow, BlocksFormATree
      <4>2. headers = Lineage[checkpoint]
        BY <4>1 DEF OnBranch
      <4>3. Lineage[b] = {b} \cup Lineage[checkpoint]
        BY <2>2, <3>3, LineageOfParent
      <4> QED BY <2>1, <3>1, <4>2, <4>3
    <3> QED BY <3>2, <3>3
  <2> QED BY <2>3 DEF OnBranch
<1> QED BY <1>2, <1>3

\* Which steps make an indexer rewind.
LEMMA NewStateRewinds ==
  ASSUME IndexInv, NEW i \in Indexers, NEW new, Goes(i, new),
         \A j \in Indexers : j # i => At(j, "idle"),
         new.pc \in {"probe", "rewind"} => new.block \in headers' \cup {NoBlock}
  PROVE  RewindsOnBranch'
<1>1. indexer' = [indexer EXCEPT ![i] = new]
  BY DEF Goes
<1>2. indexer'[i] = new /\ \A j \in Indexers : j # i => indexer'[j].pc = "idle"
  BY <1>1 DEF IndexInv, At
<1> QED BY <1>2 DEF RewindsOnBranch, At

LEMMA RestsRewinds ==
  ASSUME IndexInv, NEW i \in Indexers, Rests(i),
         \A j \in Indexers : j # i => At(j, "idle")
  PROVE  RewindsOnBranch'
<1>1. Resting.pc = "idle"
  BY DEF Resting
<1> QED BY <1>1, NewStateRewinds DEF Rests

LEMMA SyncStepRewinds ==
  ASSUME IndexInv, RewindsOnBranch, NEW i \in Indexers,
         \A j \in Indexers : j # i => At(j, "idle"),
         SyncStep(i) \/ AbortSync(i)
  PROVE  RewindsOnBranch'
<1>1. PICK s : s = indexer[i]
  OBVIOUS
<1>2. s \in IndexerState
  BY <1>1 DEF IndexInv, GoodState
<1>3. CASE BeginSync(i)
  <2>1. PICK new : new = [Resting EXCEPT !.pc = "current", !.left = SyncLimit,
                                         !.safe = Height[tip] - Confirmations]
    OBVIOUS
  <2>2. new.pc = "current" /\ Goes(i, new)
    BY <1>3, <2>1 DEF BeginSync, Resting
  <2> QED BY <2>2, NewStateRewinds
<1>4. CASE ReadCurrent(i)
  <2>1. PICK pc : pc = IF checkpoint = NoBlock THEN "reread" ELSE "compare"
    OBVIOUS
  <2>2. PICK new : new = [s EXCEPT !.current = checkpoint, !.pc = pc]
    OBVIOUS
  <2>3. new.pc = pc /\ pc \notin {"probe", "rewind"} /\ Goes(i, new)
    BY <1>1, <1>2, <1>4, <2>1, <2>2 DEF ReadCurrent, IndexerState
  <2> QED BY <2>3, NewStateRewinds
<1>5. CASE CompareHead(i)
  <2>1. CASE Rests(i)
    BY <2>1, RestsRewinds
  <2>2. CASE ~Rests(i)
    <3>1. PICK pc : pc = IF NetworkAt(Height[s.current]) = s.current THEN "reread" ELSE "walk"
      OBVIOUS
    <3>2. PICK new : new = [s EXCEPT !.pc = pc, !.walk = Height[s.current] - 1]
      OBVIOUS
    <3>3. Goes(i, new)
      BY <1>1, <1>5, <2>2, <3>1, <3>2 DEF CompareHead
    <3>4. new.pc = pc /\ pc \notin {"probe", "rewind"}
      BY <1>2, <3>1, <3>2 DEF IndexerState
    <3> QED BY <3>3, <3>4, NewStateRewinds
  <2> QED BY <2>1, <2>2
<1>6. CASE ReadStored(i)
  <2>1. headers' = headers
    BY <1>6 DEF ReadStored, projections
  <2>2. PICK new : /\ GoodState(new) /\ Goes(i, new)
                   /\ new.pc # "idle" => new.block \in headers \cup {NoBlock}
    BY <1>6, ReadStoredState
  <2> QED BY <2>1, <2>2, NewStateRewinds
<1>12. CASE ReadNetwork(i)
  <2>1. headers' = headers
    BY <1>12 DEF ReadNetwork, projections
  <2>2. PICK new : /\ GoodState(new) /\ Goes(i, new)
                   /\ new.pc = "rewind" => new.block = indexer[i].block
                   /\ new.pc # "probe"
    BY <1>12, ReadNetworkState
  <2>3. indexer[i].block \in headers \cup {NoBlock}
    BY <1>12 DEF RewindsOnBranch, ReadNetwork
  <2> QED BY <2>1, <2>2, <2>3, NewStateRewinds
<1>7. CASE Rewind(i)
  <2>1. CASE Rests(i)
    BY <2>1, RestsRewinds
  <2>2. CASE ~Rests(i)
    <3>1. PICK new : new = [s EXCEPT !.pc = "reread"]
      OBVIOUS
    <3>2. Goes(i, new)
      BY <1>1, <1>7, <2>2, <3>1 DEF Rewind
    <3>3. new.pc = "reread"
      BY <1>2, <3>1 DEF IndexerState
    <3> QED BY <3>2, <3>3, NewStateRewinds
  <2> QED BY <2>1, <2>2
<1>8. CASE Reread(i)
  <2>1. PICK new : new = [s EXCEPT !.pc = "fetch", !.current = checkpoint]
    OBVIOUS
  <2>2. Goes(i, new)
    BY <1>1, <1>8, <2>1 DEF Reread
  <2>3. new.pc = "fetch"
    BY <1>2, <2>1 DEF IndexerState
  <2> QED BY <2>2, <2>3, NewStateRewinds
<1>9. CASE FetchBlock(i)
  <2>1. PICK b : b = NetworkAt(Number(s.current) + 1)
    OBVIOUS
  <2>2. PICK again : again = [s EXCEPT !.pc = "current"]
    OBVIOUS
  <2>3. PICK store : store = [s EXCEPT !.pc = "store", !.block = b]
    OBVIOUS
  <2>4. Rests(i) \/ Goes(i, again) \/ Goes(i, store)
    BY <1>1, <1>9, <2>1, <2>2, <2>3 DEF FetchBlock
  <2>5. again.pc = "current" /\ store.pc = "store"
    BY <1>2, <2>2, <2>3 DEF IndexerState
  <2> QED BY <2>4, <2>5, NewStateRewinds, RestsRewinds
<1>10. CASE StoreBlock(i)
  <2>1. PICK b : b = s.block
    OBVIOUS
  <2>2. PICK new : new = [s EXCEPT !.pc = "fetch", !.current = b, !.left = s.left - 1]
    OBVIOUS
  <2>3. Rests(i) \/ Goes(i, new)
    BY <1>1, <1>10, <2>1, <2>2 DEF StoreBlock
  <2>4. new.pc = "fetch"
    BY <1>2, <2>2 DEF IndexerState
  <2> QED BY <2>3, <2>4, NewStateRewinds, RestsRewinds
<1>11. CASE AbortSync(i)
  BY <1>11, RestsRewinds DEF AbortSync
<1> QED BY <1>3, <1>4, <1>5, <1>6, <1>7, <1>8, <1>9, <1>10, <1>11, <1>12
   DEF SyncStep

LEMMA SyncedActs ==
  ASSUME IndexInv, ActiveSynced, NEW i \in Indexers, SyncStep(i) \/ AbortSync(i)
  PROVE  /\ synced \subseteq synced' /\ i \in synced'
         /\ \A j \in Indexers : j # i => indexer'[j] = indexer[j]
<1>1. BeginSync(i) \/ (~At(i, "idle") /\ synced' = synced)
  BY DEF SyncStep, ReadCurrent, CompareHead, ReadStored, ReadNetwork, Rewind, Reread,
         FetchBlock, StoreBlock, AbortSync, At
<1>2. synced \subseteq synced' /\ i \in synced'
  BY <1>1 DEF BeginSync, ActiveSynced
<1>3. \E new : Goes(i, new)
  BY DEF SyncStep, BeginSync, ReadCurrent, CompareHead, ReadStored, ReadNetwork, Rewind,
         Reread, FetchBlock, StoreBlock, AbortSync, Rests
<1>4. PICK new : indexer' = [indexer EXCEPT ![i] = new]
  BY <1>3 DEF Goes
<1>5. \A j \in Indexers : j # i => indexer'[j] = indexer[j]
  BY <1>4 DEF IndexInv
<1> QED BY <1>2, <1>5

LEMMA SyncStepFollows ==
  ASSUME IndexInv, RowsProject, HeadersStack, ActiveSynced, BranchInv,
         NEW i \in Indexers, SyncStep(i) \/ AbortSync(i)
  PROVE  RowsProject' /\ HeadersStack' /\ ActiveSynced' /\ BranchInv'
<1>1. /\ synced \subseteq synced' /\ i \in synced'
      /\ \A j \in Indexers : j # i => indexer'[j] = indexer[j]
  BY SyncedActs
<1>2. ActiveSynced'
  BY <1>1 DEF ActiveSynced, At
<1>3. Rewind(i) \/ StoreBlock(i) \/ UNCHANGED projections
  BY DEF SyncStep, BeginSync, ReadCurrent, CompareHead, ReadStored, ReadNetwork, Reread,
         FetchBlock, AbortSync
<1>4. RowsProject' /\ HeadersStack'
  BY <1>3, UnchangedProject, RewindProjects, StoreBlockProjects
<1>5. ASSUME Alone'
      PROVE  OnBranch' /\ RewindsOnBranch'
  <2>1. synced' = {i}
    BY <1>1, <1>5 DEF Alone
  <2>2. Alone
    BY <1>1, <2>1 DEF Alone
  <2>3. OnBranch /\ RewindsOnBranch
    BY <2>2 DEF BranchInv
  <2>4. \A j \in Indexers : j # i => At(j, "idle")
    BY <1>1, <2>1 DEF ActiveSynced
  <2>5. RewindsOnBranch'
    BY <2>3, <2>4, SyncStepRewinds
  <2>6. OnBranch'
    BY <1>3, <2>3, UnchangedProject, RewindOnBranch, StoreBlockOnBranch
  <2> QED BY <2>5, <2>6
<1> QED BY <1>2, <1>4, <1>5 DEF BranchInv

LEMMA RowsStay ==
  ASSUME RowsProject, HeadersStack, ActiveSynced, BranchInv,
         UNCHANGED <<projections, indexer, synced>>
  PROVE  RowsProject' /\ HeadersStack' /\ ActiveSynced' /\ BranchInv'
<1>1. UNCHANGED projections /\ indexer' = indexer /\ synced' = synced
  OBVIOUS
<1>2. headers' = headers
  BY <1>1 DEF projections
<1>3. RowsProject' /\ HeadersStack' /\ (OnBranch => OnBranch')
  BY <1>1, UnchangedProject
<1>4. (RewindsOnBranch => RewindsOnBranch') /\ ActiveSynced'
  BY <1>1, <1>2 DEF RewindsOnBranch, ActiveSynced, At
<1>5. Alone' => Alone
  BY <1>1 DEF Alone
<1> QED BY <1>3, <1>4, <1>5 DEF BranchInv

LEMMA IndexStepFollows ==
  ASSUME IndexInv, RowsProject, HeadersStack, ActiveSynced, BranchInv, [IndexNext]_indexVars
  PROVE  RowsProject' /\ HeadersStack' /\ ActiveSynced' /\ BranchInv'
<1>1. CASE UNCHANGED indexVars
  <2>1. UNCHANGED <<projections, indexer, synced>>
    BY <1>1 DEF indexVars, projections
  <2> QED BY <2>1, RowsStay
<1>2. ASSUME NEW b \in Blocks, NetworkMoves(b)
      PROVE  UNCHANGED <<projections, indexer, synced>>
  BY <1>2 DEF NetworkMoves
<1> QED BY <1>1, <1>2, RowsStay, SyncStepFollows DEF IndexNext

\* However many indexers there are, however often the network reorganises, whatever
\* call fails and wherever a process stops: the headers are one block for each height
\* up to the checkpoint's, the logs are theirs, and commands and audit are what the
\* logs say; and as long as a single indexer has run, those headers are the
\* checkpoint's branch (chain/indexer.ts).
THEOREM IndexersFollowOneBranch == IndexSpec => []IndexFollowsOneBranch
<1> DEFINE Inv == /\ IndexInv /\ RowsProject /\ HeadersStack /\ ActiveSynced /\ BranchInv
<1>1. IndexInit => Inv
  <2> SUFFICES ASSUME IndexInit PROVE Inv
    OBVIOUS
  <2>1. headers = {} /\ logs = {} /\ checkpoint = NoBlock /\ audit = {} /\ command = "submitted"
    BY DEF IndexInit
  <2>2. RowsProject
    BY <2>1 DEF RowsProject
  <2>3. {Height[b] : b \in headers} = {} /\ 0..Number(checkpoint) = {}
    BY <2>1 DEF Number
  <2>4. HeadersStack
    BY <2>1, <2>3 DEF HeadersStack
  <2>5. \A i \in Indexers : At(i, "idle")
    BY DEF IndexInit, At, Resting
  <2>6. ActiveSynced /\ BranchInv
    BY <2>1, <2>5 DEF ActiveSynced, BranchInv, OnBranch, RewindsOnBranch, At
  <2> QED BY <2>2, <2>4, <2>6, IndexInitHolds
<1>2. Inv /\ [IndexNext]_indexVars => Inv'
  BY IndexStepKeeps, IndexStepFollows
<1>3. Inv => IndexFollowsOneBranch
  BY HeadersTell
<1> HIDE DEF Inv
<1> QED BY <1>1, <1>2, <1>3, PTL DEF IndexSpec

-----------------------------------------------------------------------------
(* The workers together *)

\* What travelers are awarded, for visits and for rounds, was earned.
THEOREM AwardsEarned == AwardSpec => []AwardsAreEarned
BY ProgressionIsSound, RetentionIsSound, PTL DEF AwardSpec, AwardsAreEarned

\* The tables of all the workers have their types.
THEOREM WorkersTypeCorrect == WorkersSpec => []WorkersTypeOK
BY OutboxTypeCorrect, ProgressionIsSound, RetentionIsSound, IndexTypeCorrect, SendsWithinCaps, PTL
   DEF WorkersSpec, AwardSpec, WorkersTypeOK
=============================================================================
