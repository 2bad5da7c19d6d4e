----------------------------- MODULE BadgeMinter -----------------------------
(***************************************************************************)
(* The badge minter (chain/badgeMinter.ts): a loop, one process at a time, *)
(* that walks the chain_commands of earned achievements.  A tick enqueues, *)
(* reconciles what is in flight against the chain, and sends at most one   *)
(* transaction.  Every await is a point where the chain may move or the    *)
(* process may die, so a tick is a sequence of actions over pc.            *)
(*                                                                         *)
(* The chain is external.  It is modelled by what the loop can see of it:  *)
(* the issuer's transactions in its pool, the recent blocks a              *)
(* reorganisation may still take away, and the transactions with           *)
(* Confirmations blocks on top, which it may not.                          *)
(*                                                                         *)
(* Left out: the columns of a transaction attempt nothing reads back       *)
(* (status, block, error text), the order of due commands among            *)
(* themselves, and two processes at once, which the advisory lock forbids  *)
(* for as long as its connection lives.                                    *)
(***************************************************************************)
EXTENDS Naturals, Sequences, FiniteSets

CONSTANTS
  Badges,         \* the awards that may be minted, one command each
  Other,          \* the owner of an issuer transaction this loop did not send
  NoBadge,
  MaxAttempts,    \* CHAIN_BADGE_MAX_ATTEMPTS
  Confirmations,  \* CHAIN_CONFIRMATIONS
  MaxFailures,    \* bound: calls that fail, low balance, drops, reverts,
                  \* replacements, reorganisations, revocations
  MaxCrashes,     \* bound: ticks cut short
  MaxRetries      \* bound: retries by an admin

ASSUME BadgesAssumption == Other \notin Badges /\ NoBadge \notin Badges
ASSUME LimitsAssumption ==
  /\ MaxAttempts \in Nat \ {0}
  /\ Confirmations \in Nat \ {0}
  /\ MaxFailures \in Nat
  /\ MaxCrashes \in Nat
  /\ MaxRetries \in Nat

VARIABLES
  status,    \* chain_commands.status, "none" before the row exists
  attempts,  \* chain_commands.attempt_count
  latest,    \* the newest chain_transaction_attempts row, 0 for none
  elapsed,   \* commands past next_attempt_at, or 15 minutes after the send
  revoked,   \* awards with revoked_at set
  pc,        \* where the tick is
  cur,       \* the command it works on
  todo,      \* rows read by reconcile and not visited yet
  deep,      \* transactions Confirmations blocks below the head it read
  sent,      \* the transaction broadcast and not recorded yet
  txs,       \* issuer transactions ever broadcast: badge and nonce
  pool,      \* those waiting to be mined
  window,    \* the last Confirmations blocks, each with a transaction or 0
  buried,    \* transactions mined below the window
  good,      \* mined transactions that succeeded
  undone,    \* transactions a reorganisation took out of a block, ever
  dropped,   \* transactions the network forgot
  failures, crashes, retries

command == <<status, attempts, latest, elapsed>>
tick == <<pc, cur, todo, deep, sent>>
chain == <<txs, pool, window, buried, good, undone, dropped>>
bounds == <<failures, crashes, retries>>
vars == <<command, revoked, tick, chain, bounds>>

Statuses == {"none", "queued", "submitted", "included", "finalized", "failed"}
Steps == {"idle", "reconcile", "nonce", "used", "broadcast", "record", "mark"}

-----------------------------------------------------------------------------
(* What the loop can ask of the chain. *)

Txs == DOMAIN txs
Mined(t) == t \in buried \/ \E i \in DOMAIN window : window[i] = t

\* minedNonce: the number of issuer transactions in blocks.
MinedNonce == Cardinality({t \in Txs : Mined(t)})

\* pendingNonce: the first nonce neither mined nor waiting in sequence.
IsPendingNonce(n) ==
  LET waiting == {txs[t].nonce : t \in pool}
  IN  /\ n >= MinedNonce /\ n \notin waiting
      /\ \A m \in MinedNonce..(n - 1) : m \in waiting

\* usedEntitlement: the contract mints an entitlement once.
IsEntitlementUsed(b) == \E t \in good : txs[t].badge = b

-----------------------------------------------------------------------------
TypeOK ==
  /\ status \in [Badges -> Statuses]
  /\ attempts \in [Badges -> Nat]
  /\ txs \in Seq([badge : Badges \cup {Other}, nonce : Nat])
  /\ latest \in [Badges -> Txs \cup {0}]
  /\ elapsed \subseteq Badges
  /\ revoked \subseteq Badges
  /\ pc \in Steps
  /\ cur \in Badges \cup {NoBadge}
  /\ todo \subseteq Badges
  /\ sent \in Txs \cup {0}
  /\ window \in Seq(Txs \cup {0}) /\ Len(window) <= Confirmations
  /\ deep \subseteq buried /\ buried \subseteq Txs
  /\ pool \subseteq Txs /\ good \subseteq Txs
  /\ undone \subseteq Txs /\ dropped \subseteq Txs
  /\ failures \in 0..MaxFailures /\ crashes \in 0..MaxCrashes
  /\ retries \in 0..MaxRetries

Init ==
  /\ status = [b \in Badges |-> "none"]
  /\ attempts = [b \in Badges |-> 0]
  /\ latest = [b \in Badges |-> 0]
  /\ elapsed = {} /\ revoked = {}
  /\ pc = "idle" /\ cur = NoBadge /\ todo = {} /\ deep = {} /\ sent = 0
  /\ txs = <<>> /\ pool = {} /\ window = <<>> /\ buried = {}
  /\ good = {} /\ undone = {} /\ dropped = {}
  /\ failures = 0 /\ crashes = 0 /\ retries = 0

-----------------------------------------------------------------------------
(* The tick. *)

\* enqueueEligibleBadges, then the rows reconcile reads and the head it asks
\* for.  An award is passed over while its traveler has no wallet.
StartTick ==
  /\ pc = "idle"
  /\ \E E \in SUBSET {b \in Badges \ revoked : status[b] = "none"} :
       /\ status' = [b \in Badges |-> IF b \in E THEN "queued" ELSE status[b]]
       /\ elapsed' = elapsed \cup E
  /\ todo' = {b \in Badges : status[b] \in {"submitted", "included"}
                               /\ latest[b] # 0}
  /\ deep' = buried
  /\ pc' = "reconcile"
  /\ UNCHANGED <<attempts, latest, cur, sent, revoked, chain, bounds>>

Fault == failures < MaxFailures /\ failures' = failures + 1

EndTick == pc' = "idle" /\ cur' = NoBadge /\ todo' = {} /\ deep' = {} /\ sent' = 0

\* The row is dealt with: on to the next one.
NextRow(b) ==
  /\ todo' = todo \ {b}
  /\ pc' = "reconcile" /\ cur' = NoBadge
  /\ UNCHANGED <<deep, sent>>

\* Mutant for TypeOK: a status of an older schema.
RequeueOrFail_Reverted(b) ==
  /\ status' = [status EXCEPT ![b] =
                  IF attempts[b] >= MaxAttempts THEN "reverted" ELSE "queued"]
  /\ elapsed' = elapsed \ {b}
  /\ UNCHANGED <<attempts, latest>>

RequeueOrFail(b) ==
  /\ status' = [status EXCEPT ![b] =
                  IF attempts[b] >= MaxAttempts THEN "failed" ELSE "queued"]
  /\ elapsed' = elapsed \ {b}
  /\ UNCHANGED <<attempts, latest>>

\* chain.receipt returned null.  An included command goes back to waiting; a
\* submitted one is looked into once it is old.
NoReceipt(b) ==
  /\ pc = "reconcile" /\ b \in todo
  /\ ~Mined(latest[b])
  /\ \/ /\ status[b] = "included"
        /\ status' = [status EXCEPT ![b] = "submitted"]
        /\ NextRow(b)
     \/ /\ status[b] = "submitted" /\ b \notin elapsed
        /\ NextRow(b)
        /\ UNCHANGED status
     \/ /\ status[b] = "submitted" /\ b \in elapsed
        /\ pc' = "nonce" /\ cur' = b
        /\ UNCHANGED <<status, todo, deep, sent>>
  /\ UNCHANGED <<attempts, latest, elapsed, revoked, chain, bounds>>

\* Mutant for CommandsSettle: the comparison is off by one.
ReadNonce_OffByOne ==
  /\ pc = "nonce"
  /\ IF MinedNonce > txs[latest[cur]].nonce + 1
     THEN pc' = "used" /\ UNCHANGED <<cur, todo, deep, sent>>
     ELSE NextRow(cur)
  /\ UNCHANGED <<command, revoked, chain, bounds>>

\* minedNonce, asked after the receipt was: the chain may have moved.
ReadNonce ==
  /\ pc = "nonce"
  /\ IF MinedNonce > txs[latest[cur]].nonce
     THEN pc' = "used" /\ UNCHANGED <<cur, todo, deep, sent>>
     ELSE NextRow(cur)
  /\ UNCHANGED <<command, revoked, chain, bounds>>

\* A receipt with status 0.
RevertedReceipt(b) ==
  /\ pc = "reconcile" /\ b \in todo
  /\ Mined(latest[b]) /\ latest[b] \notin good
  /\ pc' = "used" /\ cur' = b
  /\ UNCHANGED <<command, todo, deep, sent, revoked, chain, bounds>>

\* isEntitlementUsed decides what a replaced or reverted transaction means.
ReadUsed ==
  /\ pc = "used"
  /\ IF IsEntitlementUsed(cur)
     THEN /\ status' = [status EXCEPT ![cur] = "finalized"]
          /\ UNCHANGED <<attempts, latest, elapsed>>
     ELSE RequeueOrFail(cur)
  /\ NextRow(cur)
  /\ UNCHANGED <<revoked, chain, bounds>>

\* Mutant for FinalizedIsMinted: the receipt's success is not looked at.
GoodReceipt_AnyOutcome(b) ==
  /\ pc = "reconcile" /\ b \in todo
  /\ Mined(latest[b])
  /\ status' = [status EXCEPT ![b] =
                  IF latest[b] \in deep THEN "finalized" ELSE "included"]
  /\ NextRow(b)
  /\ UNCHANGED <<attempts, latest, elapsed, revoked, chain, bounds>>

\* A receipt with status 1: included, and final once it is deep enough below
\* the head this tick read.
GoodReceipt(b) ==
  /\ pc = "reconcile" /\ b \in todo
  /\ latest[b] \in good
  /\ status' = [status EXCEPT ![b] =
                  IF latest[b] \in deep THEN "finalized" ELSE "included"]
  /\ NextRow(b)
  /\ UNCHANGED <<attempts, latest, elapsed, revoked, chain, bounds>>

\* sendNextBadge with something in flight, or nothing due.
NothingToSend ==
  /\ pc = "reconcile" /\ todo = {}
  /\ \/ \E b \in Badges : status[b] = "submitted"
     \/ \A b \in elapsed : status[b] # "queued"
  /\ EndTick
  /\ UNCHANGED <<command, revoked, chain, bounds>>

\* The command sendNextBadge takes: queued, due, and nothing in flight.
NextToSend(b) ==
  /\ pc = "reconcile" /\ todo = {}
  /\ \A c \in Badges : status[c] # "submitted"
  /\ status[b] = "queued" /\ b \in elapsed

SendRevoked(b) ==
  /\ NextToSend(b) /\ b \in revoked
  /\ status' = [status EXCEPT ![b] = "failed"]
  /\ EndTick
  /\ UNCHANGED <<attempts, latest, elapsed, revoked, chain, bounds>>

LowBalance(b) ==
  /\ NextToSend(b) /\ b \notin revoked
  /\ Fault
  /\ EndTick
  /\ UNCHANGED <<command, revoked, chain, crashes, retries>>

SendMinted(b) ==
  /\ NextToSend(b) /\ b \notin revoked
  /\ IsEntitlementUsed(b)
  /\ status' = [status EXCEPT ![b] = "finalized"]
  /\ EndTick
  /\ UNCHANGED <<attempts, latest, elapsed, revoked, chain, bounds>>

\* Mutant for SendsAreAccounted: the count is left to the success path.
BeginSend_Uncounted(b) ==
  /\ NextToSend(b) /\ b \notin revoked
  /\ ~IsEntitlementUsed(b)
  /\ pc' = "broadcast" /\ cur' = b
  /\ UNCHANGED <<command, todo, deep, sent, revoked, chain, bounds>>

\* The attempt is counted before the transaction leaves.
BeginSend(b) ==
  /\ NextToSend(b) /\ b \notin revoked
  /\ ~IsEntitlementUsed(b)
  /\ attempts' = [attempts EXCEPT ![b] = @ + 1]
  /\ pc' = "broadcast" /\ cur' = b
  /\ UNCHANGED <<status, latest, elapsed, todo, deep, sent, revoked, chain,
                 bounds>>

Transmit ==
  /\ \E n \in 0..Len(txs) :
       IsPendingNonce(n) /\ txs' = Append(txs, [badge |-> cur, nonce |-> n])
  /\ pool' = pool \cup {Len(txs) + 1}
  /\ UNCHANGED <<window, buried, good, undone, dropped>>

\* sendIssue: the gas estimate fails for an entitlement used meanwhile.
Broadcast ==
  /\ pc = "broadcast" /\ ~IsEntitlementUsed(cur)
  /\ Transmit
  /\ sent' = Len(txs) + 1 /\ pc' = "record"
  /\ UNCHANGED <<cur, todo, deep, command, revoked, bounds>>

\* sendIssue throws before the transaction left.
SendFails ==
  /\ pc = "broadcast"
  /\ IF IsEntitlementUsed(cur) THEN UNCHANGED failures ELSE Fault
  /\ RequeueOrFail(cur)
  /\ EndTick
  /\ UNCHANGED <<revoked, chain, crashes, retries>>

\* sendIssue throws, and the transaction left: its answer was lost.
AnswerLost ==
  /\ pc = "broadcast" /\ ~IsEntitlementUsed(cur)
  /\ Fault
  /\ Transmit
  /\ RequeueOrFail(cur)
  /\ EndTick
  /\ UNCHANGED <<revoked, crashes, retries>>

\* INSERT of the transaction attempt.
Record ==
  /\ pc = "record"
  /\ latest' = [latest EXCEPT ![cur] = sent]
  /\ pc' = "mark"
  /\ UNCHANGED <<status, attempts, elapsed, cur, todo, deep, sent, revoked,
                 chain, bounds>>

\* UPDATE of the command to submitted.
Mark ==
  /\ pc = "mark"
  /\ status' = [status EXCEPT ![cur] = "submitted"]
  /\ elapsed' = elapsed \ {cur}
  /\ EndTick
  /\ UNCHANGED <<attempts, latest, revoked, chain, bounds>>

\* Either statement fails: the catch requeues a transaction in flight.
RecordFails ==
  /\ pc \in {"record", "mark"}
  /\ Fault
  /\ RequeueOrFail(cur)
  /\ EndTick
  /\ UNCHANGED <<revoked, chain, crashes, retries>>

\* The process stops, or a call outside the try throws: the tick ends there.
Crash ==
  /\ pc # "idle"
  /\ crashes < MaxCrashes /\ crashes' = crashes + 1
  /\ EndTick
  /\ UNCHANGED <<command, revoked, chain, failures, retries>>

-----------------------------------------------------------------------------
(* Around it: an admin, the clock, the network. *)

\* POST /admin/chain/badges/:commandId/retry.
Retry(b) ==
  /\ status[b] = "failed"
  /\ retries < MaxRetries /\ retries' = retries + 1
  /\ status' = [status EXCEPT ![b] = "queued"]
  /\ attempts' = [attempts EXCEPT ![b] = 0]
  /\ elapsed' = elapsed \cup {b}
  /\ UNCHANGED <<latest, revoked, tick, chain, failures, crashes>>

Revoke(b) ==
  /\ b \notin revoked
  /\ Fault
  /\ revoked' = revoked \cup {b}
  /\ UNCHANGED <<command, tick, chain, crashes, retries>>

\* The backoff of a queued command, or the 15 minutes of a sent one.
Elapse(b) ==
  /\ status[b] \in {"queued", "submitted", "included"} /\ b \notin elapsed
  /\ elapsed' = elapsed \cup {b}
  /\ UNCHANGED <<status, attempts, latest, revoked, tick, chain, bounds>>

\* A block with t, or 0 for none, becomes the head.
Block(t) ==
  /\ window' = IF Len(window) < Confirmations THEN Append(window, t)
               ELSE Append(Tail(window), t)
  /\ buried' = IF Len(window) < Confirmations THEN buried
               ELSE buried \cup ({Head(window)} \ {0})

MineNothing ==
  /\ Block(0)
  /\ UNCHANGED <<command, revoked, tick, txs, pool, good, undone, dropped,
                 bounds>>

MineNext(t) == t \in pool /\ txs[t].nonce = MinedNonce

\* The contract reverts a mint of a used entitlement.
Mine(t) ==
  /\ MineNext(t)
  /\ Block(t)
  /\ pool' = pool \ {t}
  /\ good' = IF txs[t].badge = Other \/ IsEntitlementUsed(txs[t].badge)
             THEN good ELSE good \cup {t}
  /\ UNCHANGED <<command, revoked, tick, txs, undone, dropped, bounds>>

\* It may revert for a reason of its own.
MineReverted(t) ==
  /\ MineNext(t)
  /\ Fault
  /\ Block(t)
  /\ pool' = pool \ {t}
  /\ UNCHANGED <<command, revoked, tick, txs, good, undone, dropped, crashes,
                 retries>>

\* Another transaction of the issuer takes the nonce of one in the pool.
Replace(t) ==
  /\ MineNext(t)
  /\ Fault
  /\ txs' = Append(txs, [badge |-> Other, nonce |-> txs[t].nonce])
  /\ Block(Len(txs) + 1)
  /\ pool' = pool \ {t}
  /\ UNCHANGED <<command, revoked, tick, good, undone, dropped, crashes,
                 retries>>

Drop(t) ==
  /\ t \in pool
  /\ Fault
  /\ pool' = pool \ {t} /\ dropped' = dropped \cup {t}
  /\ UNCHANGED <<command, revoked, tick, txs, window, buried, good, undone,
                 crashes, retries>>

\* The blocks above the first n of the window give way to empty ones; their
\* transactions return to the pool.
Reorganise(n) ==
  /\ n < Len(window)
  /\ Fault
  /\ LET out == {window[i] : i \in (n + 1)..Len(window)} \ {0}
     IN  /\ out # {}
         /\ window' = [i \in DOMAIN window |-> IF i <= n THEN window[i] ELSE 0]
         /\ pool' = pool \cup out
         /\ good' = good \ out
         /\ undone' = undone \cup out
  /\ UNCHANGED <<command, revoked, tick, txs, buried, dropped, crashes, retries>>

-----------------------------------------------------------------------------
Reconcile == \/ \E b \in Badges : NoReceipt(b) \/ RevertedReceipt(b)
                                    \/ GoodReceipt(b)
             \/ ReadNonce
             \/ ReadUsed

Send == \/ NothingToSend
        \/ \E b \in Badges : SendRevoked(b) \/ LowBalance(b)
                               \/ SendMinted(b) \/ BeginSend(b)
        \/ Broadcast \/ SendFails \/ AnswerLost
        \/ Record \/ Mark \/ RecordFails

Operate == \E b \in Badges : Retry(b) \/ Revoke(b) \/ Elapse(b)

Network == \/ MineNothing
           \/ \E t \in Txs : Mine(t) \/ MineReverted(t) \/ Replace(t) \/ Drop(t)
           \/ \E n \in 0..(Confirmations - 1) : Reorganise(n)

Next == StartTick \/ Reconcile \/ Send \/ Crash \/ Operate \/ Network

\* The interval timer and the tick it starts go on, time passes, blocks are
\* made and take what the pool offers next.
Fairness ==
  /\ WF_vars(StartTick)
  /\ WF_vars(Reconcile)
  /\ WF_vars(Send)
  /\ \A b \in Badges : WF_vars(Elapse(b))
  /\ WF_vars(MineNothing)
  /\ WF_vars(\E t \in Txs : Mine(t))

Spec == Init /\ [][Next]_vars /\ Fairness

-----------------------------------------------------------------------------
(* Properties. *)

\* A command reconcile is to follow has a recorded transaction of its own:
\* without one the join of reconcileBadgeCommands would skip the row for good,
\* and a submitted one would stop the queue behind it.
InFlightIsRecorded ==
  \A b \in Badges :
    status[b] \in {"submitted", "included"} =>
      latest[b] \in Txs /\ txs[latest[b]].badge = b

\* No transaction leaves uncounted, whatever calls fail and answers get lost,
\* and the count stays within the limit; each tick cut short between the count
\* and its outcome may take it one further.
AttemptsAreLimited ==
  \A b \in Badges :
    /\ attempts[b] <= MaxAttempts + crashes
    /\ retries = 0 => Cardinality({t \in Txs : txs[t].badge = b}) <= attempts[b]

\* Both: what is under way can be followed, and was counted before it left.
SendsAreAccounted == InFlightIsRecorded /\ AttemptsAreLimited

\* A finalized command has its badge on the chain, unless a reorganisation
\* took the transaction that had minted it out of its block.
FinalizedIsMinted ==
  \A b \in Badges :
    status[b] = "finalized" =>
      IsEntitlementUsed(b) \/ \E t \in undone : txs[t].badge = b

\* As long as the network forgets no transaction, every queued badge ends
\* finalized or failed, through crashes, lost answers, reverts, replacements
\* and reorganisations.
CommandsSettle ==
  [](dropped = {}) =>
    \A b \in Badges :
      status[b] = "queued" ~> status[b] \in {"finalized", "failed"}

\* The tests say the loop "waits for a slow transaction and requeues one the
\* network dropped": a command whose transaction was dropped does not stay
\* submitted.
DroppedIsRequeued ==
  \A b \in Badges :
    status[b] = "submitted" /\ latest[b] \in dropped ~> status[b] # "submitted"
==============================================================================
