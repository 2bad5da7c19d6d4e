---------------------------- MODULE EconomicOutbox ----------------------------
(***************************************************************************)
(* Delivery of the economy's events (economy/outbox.ts,                    *)
(* jobs/economy-outbox.ts).  Every posting inserts a row into              *)
(* economic_outbox; workers in any number of processes claim rows under a  *)
(* lease, deliver each to the one local consumer by inserting a receipt,   *)
(* and report failures, which are retried with backoff until the attempts  *)
(* run out.                                                                *)
(*                                                                         *)
(* Workers crash and restart, a delivery may fail, and its answer may be   *)
(* lost after it was committed.  timer counts down to the instant at which *)
(* a row may be claimed again: `lease_expires_at > now` is timer > 0 and   *)
(* `lease_expires_at <= now`, `next_attempt_at <= now` are timer = 0.      *)
(***************************************************************************)
EXTENDS Naturals, FiniteSets

CONSTANTS
  Workers,      \* the processes that run the worker
  NoWorker,     \* SQL NULL in lease_owner
  MaxEvents,    \* bound: rows of economic_outbox
  BatchSize,    \* rows one claimBatch takes
  LeaseTicks,   \* the lease, in ticks
  MaxAttempts,  \* MAX_ATTEMPTS
  Retry         \* the backoff after an attempt, in ticks

ASSUME NoWorkerIsNoWorker == NoWorker \notin Workers
ASSUME OutboxLimits ==
  /\ MaxEvents \in Nat
  /\ BatchSize \in Nat \ {0}
  /\ LeaseTicks \in Nat \ {0}
  /\ MaxAttempts \in Nat \ {0}
  /\ Retry \in [1..MaxAttempts -> Nat \ {0}]

VARIABLES
  row,       \* economic_outbox
  timer,     \* ticks until a failed or processing row is due
  receipts,  \* the outbox_ids of economic_outbox_receipts
  claims,    \* the claims each worker has still to process
  failing    \* the workers whose current delivery threw

vars == <<row, timer, receipts, claims, failing>>

Events == 1..MaxEvents  \* in the order of created_at

\* A claim is named by the row and by how many times the row was claimed: the
\* claim_token of a claim is drawn once and never again.
Claim == [event : Events, token : 1..MaxAttempts]

OutboxRow == [status : {"none", "pending", "processing", "completed", "failed",
                        "dead_letter"},
              owner : Workers \cup {NoWorker},
              attempts : 0..MaxAttempts]

-----------------------------------------------------------------------------

\* As Due, for a worker that takes over a running lease, and for one that never
\* takes over an expired one.
Due_AnyLease ==
  {e \in Events :
     \/ row[e].status \in {"pending", "failed"} /\ timer[e] = 0
     \/ row[e].status = "processing"}
Due_NoTakeover ==
  {e \in Events : row[e].status \in {"pending", "failed"} /\ timer[e] = 0}

\* The rows claimBatch may take.
Due ==
  {e \in Events :
     row[e].status \in {"pending", "failed", "processing"} /\ timer[e] = 0}

\* ORDER BY created_at, id LIMIT batchSize
FirstOf(rows) ==
  {e \in rows : Cardinality({d \in rows : d < e}) < BatchSize}

\* Rows another worker is working on; their locks may make a claim skip them.
BusyElsewhere(w) == {c.event : c \in UNION {claims[v] : v \in Workers \ {w}}}

\* The claim a worker processes next: the batch is processed in order.
Current(w) ==
  {c \in claims[w] : \A d \in claims[w] : c.event <= d.event}

\* As HoldsLease, without the lease.
HoldsLease_Ever(w, c) == row[c.event].attempts = c.token

\* The fence of complete and fail.
HoldsLease(w, c) ==
  /\ row[c.event].status = "processing"
  /\ row[c.event].owner = w
  /\ row[c.event].attempts = c.token
  /\ timer[c.event] > 0

-----------------------------------------------------------------------------

\* economic_post_transfer inserts the next event.
Post ==
  \E e \in Events :
    /\ row[e].status = "none"
    /\ \A d \in Events : d < e => row[d].status # "none"
    /\ row' = [row EXCEPT ![e].status = "pending"]
    /\ UNCHANGED <<timer, receipts, claims, failing>>

\* Mutant: one attempt late.
Exhausted_Late(e) == row[e].attempts > MaxAttempts

Exhausted(e) == row[e].attempts >= MaxAttempts

\* claimBatch: due rows are leased to the worker, or dead-lettered when their
\* attempts are exhausted.
ClaimBatch(w) ==
  /\ claims[w] = {}
  /\ \E skipped \in SUBSET BusyElsewhere(w) :
       LET rows == FirstOf(Due \ skipped)
           taken == {e \in rows : ~Exhausted(e)}
       IN
       /\ rows # {}
       /\ row' = [e \in Events |->
            IF e \in taken
            THEN [status |-> "processing", owner |-> w,
                  attempts |-> row[e].attempts + 1]
            ELSE IF e \in rows
            THEN [row[e] EXCEPT !.status = "dead_letter", !.owner = NoWorker]
            ELSE row[e]]
       /\ timer' = [e \in Events |-> IF e \in taken THEN LeaseTicks ELSE timer[e]]
       /\ claims' = [claims EXCEPT ![w] =
            {[event |-> e, token |-> row[e].attempts + 1] : e \in taken}]
  /\ UNCHANGED <<receipts, failing>>

\* The row and receipt a successful complete leaves behind.
Deliver(e) ==
  /\ row' = [row EXCEPT ![e].status = "completed", ![e].owner = NoWorker]
  /\ timer' = [timer EXCEPT ![e] = 0]
  /\ receipts' = receipts \cup {e}

\* complete.  answered says whether the worker learns of it: a commit whose
\* answer is lost throws in the worker like one that was rolled back.
Complete(w, answered) ==
  /\ w \notin failing
  /\ \E c \in Current(w) :
       /\ \/ HoldsLease(w, c) /\ Deliver(c.event)
          \/ ~(HoldsLease(w, c) /\ answered) /\ UNCHANGED <<row, timer, receipts>>
       /\ IF answered
          THEN claims' = [claims EXCEPT ![w] = @ \ {c}] /\ UNCHANGED failing
          ELSE failing' = failing \cup {w} /\ UNCHANGED claims

\* fail, and the catch around it: when fail throws too, the claim is dropped
\* and left to its lease.
Fail(w) ==
  /\ w \in failing
  /\ \E c \in Current(w), reached \in BOOLEAN :
       /\ IF reached /\ HoldsLease(w, c)
          THEN /\ row' = [row EXCEPT ![c.event].status =
                              IF Exhausted(c.event) THEN "dead_letter"
                              ELSE "failed",
                            ![c.event].owner = NoWorker]
               /\ timer' = [timer EXCEPT ![c.event] = Retry[c.token]]
          ELSE UNCHANGED <<row, timer>>
       /\ claims' = [claims EXCEPT ![w] = @ \ {c}]
  /\ failing' = failing \ {w}
  /\ UNCHANGED receipts

\* The process ends, and another one starts in its place.
Crash(w) ==
  /\ claims[w] # {}
  /\ claims' = [claims EXCEPT ![w] = {}]
  /\ failing' = failing \ {w}
  /\ UNCHANGED <<row, timer, receipts>>

Tick ==
  /\ \E e \in Events : timer[e] > 0
  /\ timer' = [e \in Events |-> IF timer[e] > 0 THEN timer[e] - 1 ELSE 0]
  /\ UNCHANGED <<row, receipts, claims, failing>>

-----------------------------------------------------------------------------

Init ==
  /\ row = [e \in Events |->
             [status |-> "none", owner |-> NoWorker, attempts |-> 0]]
  /\ timer = [e \in Events |-> 0]
  /\ receipts = {}
  /\ claims = [w \in Workers |-> {}]
  /\ failing = {}

Process(w) == Fail(w) \/ \E answered \in BOOLEAN : Complete(w, answered)

Next ==
  \/ Post
  \/ Tick
  \/ \E w \in Workers : ClaimBatch(w) \/ Process(w) \/ Crash(w)

\* The interval of each process fires, a started drain goes on, time passes.
\* Deliveries may all fail and crashes never stop.
Fairness ==
  /\ WF_vars(Tick)
  /\ \A w \in Workers : WF_vars(ClaimBatch(w)) /\ WF_vars(Process(w))

Spec == Init /\ [][Next]_vars
FairSpec == Spec /\ Fairness

-----------------------------------------------------------------------------
(* Properties *)

\* Every row and claim has the form its table and interface allow.
TypeOK ==
  /\ row \in [Events -> OutboxRow]
  /\ timer \in [Events -> Nat]
  /\ receipts \subseteq Events
  /\ claims \in [Workers -> SUBSET Claim]
  /\ failing \subseteq Workers

\* The consumer has its receipt exactly when the row says so, however many
\* workers tried, whatever answers were lost: nothing is delivered and then
\* reported as failed, and nothing is reported and was not delivered.
ReceiptIffCompleted ==
  receipts = {e \in Events : row[e].status = "completed"}

\* A row is given up only after all its attempts were made.
GivenUpLast ==
  \A e \in Events : row[e].status = "dead_letter" => row[e].attempts = MaxAttempts

\* A late worker, whose lease ran out, cannot touch a row that was completed or
\* given up.
OutcomeIsFinal ==
  [][\A e \in Events :
       row[e].status \in {"completed", "dead_letter"} => row'[e] = row[e]]_vars

\* While a lease runs, nobody else claims the row, and only the worker that
\* still has the claim in hand settles it: the lease of a crashed worker is
\* waited out.
LeaseIsExclusive ==
  [][\A e \in Events :
       row[e].status = "processing" /\ timer[e] > 0 /\ row'[e] # row[e] =>
         /\ row'[e].status # "processing"
         /\ [event |-> e, token |-> row[e].attempts] \in claims[row[e].owner]
    ]_vars

\* Both: whoever works on a row has the right to.
LeasesRespected == OutcomeIsFinal /\ LeaseIsExclusive

\* Every event is delivered or given up in the end, though every delivery may
\* fail and every worker crash.
EventsSettle ==
  \A e \in Events :
    row[e].status = "pending" ~> row[e].status \in {"completed", "dead_letter"}
=============================================================================
