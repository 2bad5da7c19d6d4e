----------------------------- MODULE BadgeProofs -----------------------------
(***************************************************************************)
(* Theorems about the queue that mints badges, about the Plaza, whose      *)
(* weekly board awards them, and about what travelers do together as a     *)
(* whole.                                                                  *)
(*                                                                         *)
(* BadgeMinter, for any badges, limits, confirmations and bounds on what   *)
(* goes wrong: the list of transactions only grows, so what a row or a     *)
(* step of the tick says about a transaction stays true.  InHand says what *)
(* the tick knows between its awaits; with it every finalized command was  *)
(* minted, and every transaction was counted before it left.               *)
(*                                                                         *)
(* Plaza, for any viewers, climbers, comments, requests, weeks and sizes   *)
(* of the podium and of a page: the counters are those of their rows but   *)
(* for requests under way and lost ones; the plan of a tick or a recap is  *)
(* made so that a run is recorded last, after everything it stands for is  *)
(* written, and who is awarded is settled by a board that no longer moves; *)
(* and a page starts behind everything shown before it.                    *)
(*                                                                         *)
(* CommunitySide: with what CommunityProofs says of the other parts, every *)
(* table has its type.                                                     *)
(***************************************************************************)
EXTENDS BadgeMinter, CommunityProofs, FunctionTheorems, SequenceTheorems

-----------------------------------------------------------------------------
(* The queue that mints badges *)

\* The types, in the two halves that different actors write.
ChainTypeOK ==
  /\ txs \in Seq([badge : Badges \cup {Other}, nonce : Nat])
  /\ window \in Seq(Txs \cup {0}) /\ Len(window) <= Confirmations
  /\ buried \subseteq Txs /\ pool \subseteq Txs /\ good \subseteq Txs
  /\ undone \subseteq Txs /\ dropped \subseteq Txs

MinterTypeOK ==
  /\ status \in [Badges -> Statuses]
  /\ attempts \in [Badges -> Nat]
  /\ latest \in [Badges -> Txs \cup {0}]
  /\ elapsed \subseteq Badges
  /\ revoked \subseteq Badges
  /\ pc \in Steps
  /\ cur \in Badges \cup {NoBadge}
  /\ todo \subseteq Badges
  /\ deep \subseteq buried
  /\ sent \in Txs \cup {0}
  /\ failures \in 0..MaxFailures /\ crashes \in 0..MaxCrashes
  /\ retries \in 0..MaxRetries

\* The type invariant is these two halves.
LEMMA TypeHalves == TypeOK <=> ChainTypeOK /\ MinterTypeOK
  BY DEF TypeOK, ChainTypeOK, MinterTypeOK

\* What the tick knows between its awaits, and what the rows say of the
\* transactions they name.
InHand ==
  /\ pc \in {"nonce", "used", "broadcast", "record", "mark"} => cur \in Badges
  /\ pc \in {"record", "mark"} => sent \in Txs /\ txs[sent].badge = cur
  /\ pc = "mark" => latest[cur] = sent
  /\ \A b \in Badges : latest[b] \in Txs => txs[latest[b]].badge = b
  /\ \A b \in Badges : status[b] \in {"submitted", "included"} =>
                         latest[b] \in Txs

-----------------------------------------------------------------------------
(* The chain *)

\* Transactions are only ever added, at the end of the list.
TxsGrow ==
  \/ txs' = txs
  \/ \E r \in [badge : Badges \cup {Other}, nonce : Nat] : txs' = Append(txs, r)

\* A transaction keeps its place and its content in a growing list.
LEMMA OldTransactions ==
  ASSUME ChainTypeOK, TxsGrow
  PROVE  /\ txs' \in Seq([badge : Badges \cup {Other}, nonce : Nat])
         /\ Txs = 1..Len(txs) /\ Len(txs) \in Nat
         /\ Txs \subseteq Txs'
         /\ \A t \in Txs : txs'[t] = txs[t]
<1> DEFINE Tx == [badge : Badges \cup {Other}, nonce : Nat]
<1>1. txs \in Seq(Tx) /\ Txs = 1..Len(txs) /\ Len(txs) \in Nat
  BY DEF ChainTypeOK, Txs
<1>2. CASE txs' = txs
  BY <1>1, <1>2 DEF Txs
<1>3. ASSUME NEW r \in Tx, txs' = Append(txs, r)
      PROVE  txs' \in Seq(Tx) /\ Txs \subseteq Txs' /\ \A t \in Txs : txs'[t] = txs[t]
  <2> HIDE DEF Tx
  <2>1. txs' \in Seq(Tx) /\ Len(txs') = Len(txs) + 1
    BY <1>1, <1>3
  <2>2. Txs' = 1..(Len(txs) + 1)
    BY <2>1, <1>1 DEF Txs
  <2>3. \A t \in 1..Len(txs) : txs'[t] = txs[t]
    BY <1>1, <1>3
  <2> QED
    BY <1>1, <2>1, <2>2, <2>3
<1> QED
  BY <1>1, <1>2, <1>3 DEF TxsGrow

\* A block keeps the window within its length and adds at most its own
\* oldest transaction to the buried ones.
LEMMA BlockTyped ==
  ASSUME NEW S, NEW t \in S, window \in Seq(S), Len(window) <= Confirmations,
         buried \subseteq S \ {0}, Block(t)
  PROVE  /\ window' \in Seq(S) /\ Len(window') <= Confirmations
         /\ buried \subseteq buried' /\ buried' \subseteq S \ {0}
<1>1. CASE Len(window) < Confirmations
  BY <1>1, LimitsAssumption DEF Block
<1>2. CASE ~(Len(window) < Confirmations)
  <2>1. window # <<>>
    BY <1>2, LimitsAssumption
  <2>2. /\ Head(window) \in S
        /\ Tail(window) \in Seq(S) /\ Len(Tail(window)) = Len(window) - 1
    BY <2>1, HeadTailProperties
  <2>3. window' = Append(Tail(window), t) /\ buried' = buried \cup ({Head(window)} \ {0})
    BY <1>2 DEF Block
  <2>4. Len(window') = Len(Tail(window)) + 1 /\ window' \in Seq(S)
    BY <2>2, <2>3
  <2> QED
    BY <2>2, <2>3, <2>4, LimitsAssumption
<1> QED
  BY <1>1, <1>2

\* What named a transaction still names one.
LEMMA GrownTypes ==
  ASSUME ChainTypeOK, TxsGrow
  PROVE  /\ window \in Seq(Txs' \cup {0})
         /\ buried \subseteq Txs' /\ pool \subseteq Txs' /\ good \subseteq Txs'
         /\ undone \subseteq Txs' /\ dropped \subseteq Txs'
<1>1. Txs \subseteq Txs'
  BY OldTransactions
<1>2. window \in Seq(Txs' \cup {0})
  BY <1>1, SeqMonotonic DEF ChainTypeOK
<1> QED
  BY <1>1, <1>2 DEF ChainTypeOK

\* A transaction of this loop or of another sender enters the list.
LEMMA AppendGrows ==
  ASSUME ChainTypeOK, NEW b \in Badges \cup {Other}, NEW n \in Nat,
         txs' = Append(txs, [badge |-> b, nonce |-> n])
  PROVE  TxsGrow /\ Len(txs) + 1 \in Txs'
<1> DEFINE Tx == [badge : Badges \cup {Other}, nonce : Nat]
           r == [badge |-> b, nonce |-> n]
<1>1. r \in Tx
  OBVIOUS
<1>2. TxsGrow
  BY <1>1 DEF TxsGrow
<1>3. txs \in Seq(Tx) /\ txs' = Append(txs, r)
  BY DEF ChainTypeOK
<1> HIDE DEF Tx, r
<1>4. Len(txs') = Len(txs) + 1 /\ DOMAIN txs' = 1..Len(txs') /\ Len(txs) \in Nat
  BY <1>1, <1>3
<1> QED
  BY <1>2, <1>4 DEF Txs

\* Sending adds one well-formed transaction, of the badge in hand.
LEMMA TransmitTyped ==
  ASSUME ChainTypeOK, cur \in Badges, Transmit
  PROVE  /\ TxsGrow /\ ChainTypeOK'
         /\ Len(txs) + 1 \in Txs'
         /\ txs'[Len(txs) + 1].badge = cur
         /\ buried' = buried /\ good' = good /\ undone' = undone
<1>1. PICK n \in 0..Len(txs) : txs' = Append(txs, [badge |-> cur, nonce |-> n])
  BY DEF Transmit
<1>2. TxsGrow /\ Len(txs) + 1 \in Txs'
  BY <1>1, AppendGrows DEF ChainTypeOK
<1>3. txs'[Len(txs) + 1].badge = cur
  BY <1>1 DEF ChainTypeOK
<1>4. ChainTypeOK'
  BY <1>2, OldTransactions, GrownTypes DEF ChainTypeOK, Transmit
<1> QED
  BY <1>2, <1>3, <1>4 DEF Transmit

\* What a step of the network leaves behind: transactions only grow, buried
\* ones stay, and a success is only ever undone on record.
NetworkStep ==
  /\ TxsGrow /\ ChainTypeOK'
  /\ buried \subseteq buried'
  /\ good \subseteq good' \cup undone' /\ undone \subseteq undone'

\* Every network action is a NetworkStep.
LEMMA NetworkTyped ==
  ASSUME ChainTypeOK, Network
  PROVE  NetworkStep
<1> DEFINE S == Txs \cup {0}
<1>s. /\ window \in Seq(S) /\ Len(window) <= Confirmations
      /\ buried \subseteq S \ {0} /\ 0 \in S
      /\ Txs = 1..Len(txs) /\ Len(txs) \in Nat /\ 0 \notin Txs
  BY DEF ChainTypeOK, Txs
<1>1. CASE MineNothing
  <2>1. TxsGrow /\ Txs' = Txs
    BY <1>1 DEF MineNothing, TxsGrow, Txs
  <2>2. /\ window' \in Seq(S) /\ Len(window') <= Confirmations
        /\ buried \subseteq buried' /\ buried' \subseteq S \ {0}
    BY <1>1, <1>s, BlockTyped DEF MineNothing
  <2> QED
    BY <1>1, <2>1, <2>2 DEF MineNothing, NetworkStep, ChainTypeOK
<1>2. ASSUME NEW t \in Txs, Mine(t) \/ MineReverted(t)
      PROVE  NetworkStep
  <2>1. TxsGrow /\ Txs' = Txs
    BY <1>2 DEF Mine, MineReverted, TxsGrow, Txs
  <2>2. /\ window' \in Seq(S) /\ Len(window') <= Confirmations
        /\ buried \subseteq buried' /\ buried' \subseteq S \ {0}
    BY <1>2, <1>s, BlockTyped DEF Mine, MineReverted
  <2>3. good' \subseteq Txs /\ good \subseteq good'
    BY <1>2 DEF Mine, MineReverted, ChainTypeOK
  <2> QED
    BY <1>2, <2>1, <2>2, <2>3 DEF Mine, MineReverted, NetworkStep, ChainTypeOK
<1>3. ASSUME NEW t \in Txs, Replace(t)
      PROVE  NetworkStep
  <2> DEFINE R == Txs' \cup {0}
  <2>1. txs[t].nonce \in Nat
    <3>1. txs[t] \in [badge : Badges \cup {Other}, nonce : Nat]
      BY <1>s, ElementOfSeq DEF ChainTypeOK
    <3> QED
      BY <3>1
  <2>2. TxsGrow /\ Len(txs) + 1 \in Txs'
    BY <1>3, <2>1, AppendGrows DEF Replace
  <2>3. /\ Txs \subseteq Txs' /\ 0 \notin Txs'
        /\ txs' \in Seq([badge : Badges \cup {Other}, nonce : Nat])
    BY <2>2, OldTransactions DEF Txs
  <2>4. /\ window' \in Seq(R) /\ Len(window') <= Confirmations
        /\ buried \subseteq buried' /\ buried' \subseteq R \ {0}
    <3>1. window \in Seq(R) /\ buried \subseteq R \ {0}
      BY <2>2, <2>3, <1>s, GrownTypes
    <3> QED
      BY <1>3, <1>s, <2>2, <3>1, BlockTyped DEF Replace
  <2> QED
    BY <1>3, <2>2, <2>3, <2>4, GrownTypes DEF Replace, NetworkStep, ChainTypeOK
<1>4. ASSUME NEW t \in Txs, Drop(t)
      PROVE  NetworkStep
  BY <1>4 DEF Drop, NetworkStep, ChainTypeOK, TxsGrow, Txs
<1>5. ASSUME NEW n \in 0..(Confirmations - 1), Reorganise(n)
      PROVE  NetworkStep
  <2> DEFINE out == {window[i] : i \in (n + 1)..Len(window)} \ {0}
  <2>1. TxsGrow /\ Txs' = Txs
    BY <1>5 DEF Reorganise, TxsGrow, Txs
  <2>2. out \subseteq Txs
    BY <1>s, <1>5, ElementOfSeq DEF Reorganise
  <2>3. /\ window' = [i \in DOMAIN window |-> IF i <= n THEN window[i] ELSE 0]
        /\ pool' = pool \cup out /\ good' = good \ out
        /\ undone' = undone \cup out
        /\ buried' = buried /\ dropped' = dropped /\ txs' = txs
    BY <1>5 DEF Reorganise
  <2>4. window' \in Seq(S) /\ Len(window') = Len(window)
    BY <1>s, <2>3
  <2> QED
    BY <1>s, <2>1, <2>2, <2>3, <2>4 DEF NetworkStep, ChainTypeOK
<1> QED
  BY <1>1, <1>2, <1>3, <1>4, <1>5 DEF Network

-----------------------------------------------------------------------------
(* The minter *)

MinterInv == ChainTypeOK /\ MinterTypeOK /\ InHand

\* The initial state satisfies the invariants.
LEMMA InitMinter == Init => MinterInv /\ FinalizedIsMinted
  BY LimitsAssumption
  DEF Init, MinterInv, ChainTypeOK, MinterTypeOK, InHand, FinalizedIsMinted,
      Txs, Statuses, Steps

\* A chain left alone keeps its half of the types.
LEMMA ChainUnchanged ==
  ASSUME ChainTypeOK, UNCHANGED chain
  PROVE  ChainTypeOK' /\ Txs' = Txs /\ txs' = txs /\ buried' = buried
  BY DEF ChainTypeOK, chain, Txs

\* Ending a tick, or requeueing a command, is always well formed.
LEMMA EndTickTyped ==
  ASSUME MinterTypeOK, EndTick, buried' = buried
  PROVE  /\ pc' = "idle" /\ cur' \in Badges \cup {NoBadge} /\ todo' \subseteq Badges
         /\ deep' \subseteq buried' /\ sent' = 0
  BY DEF EndTick, MinterTypeOK

\* requeueOrFail writes one row, with a status that is not in flight.
LEMMA RequeueTyped ==
  ASSUME MinterTypeOK, NEW b \in Badges, RequeueOrFail(b)
  PROVE  /\ status' \in [Badges -> Statuses] /\ elapsed' \subseteq Badges
         /\ status'[b] \in {"queued", "failed"}
         /\ \A c \in Badges \ {b} : status'[c] = status[c]
         /\ attempts' = attempts /\ latest' = latest
  BY DEF RequeueOrFail, MinterTypeOK, Statuses

\* Network steps and the rows: what the rows say stays true.
LEMMA NetworkKeeps ==
  ASSUME MinterInv, Network
  PROVE  MinterInv'
<1>1. NetworkStep
  BY NetworkTyped DEF MinterInv
<1>2. /\ Txs \subseteq Txs' /\ \A t \in Txs : txs'[t] = txs[t]
      /\ 0 \notin Txs' /\ buried \subseteq buried'
  <2>1. /\ Txs \subseteq Txs' /\ \A t \in Txs : txs'[t] = txs[t]
        /\ txs' \in Seq([badge : Badges \cup {Other}, nonce : Nat])
    BY <1>1, OldTransactions DEF NetworkStep, MinterInv
  <2>2. 0 \notin Txs'
    BY <2>1 DEF Txs
  <2> QED
    BY <1>1, <2>1, <2>2 DEF NetworkStep
<1>3. /\ UNCHANGED <<command, revoked, tick, crashes, retries>>
      /\ failures' \in 0..MaxFailures
  <2> DEFINE Aside == /\ UNCHANGED <<command, revoked, tick, crashes, retries>>
                      /\ failures' = failures \/ Fault
  <2>1. Aside
    <3>1. CASE MineNothing
      BY <3>1 DEF MineNothing, bounds
    <3>2. ASSUME NEW t \in Txs,
                 Mine(t) \/ MineReverted(t) \/ Replace(t) \/ Drop(t)
          PROVE  Aside
      BY <3>2 DEF Mine, MineReverted, Replace, Drop, bounds
    <3>3. ASSUME NEW n \in 0..(Confirmations - 1), Reorganise(n)
          PROVE  Aside
      BY <3>3 DEF Reorganise
    <3> QED
      BY <3>1, <3>2, <3>3 DEF Network
  <2> QED
    BY <2>1, LimitsAssumption DEF Fault, MinterInv, MinterTypeOK
<1>4. MinterTypeOK'
  BY <1>2, <1>3 DEF MinterInv, MinterTypeOK, command, tick
<1>5. InHand'
  BY <1>2, <1>3 DEF MinterInv, MinterTypeOK, InHand, command, tick
<1> QED
  BY <1>1, <1>4, <1>5 DEF MinterInv, NetworkStep

\* A step of the tick or of an admin that leaves the chain alone.
LEMMA QuietStepKeeps ==
  ASSUME MinterInv, UNCHANGED chain,
         \/ StartTick \/ Reconcile \/ NothingToSend
         \/ \E b \in Badges : \/ SendRevoked(b) \/ LowBalance(b)
                               \/ SendMinted(b) \/ BeginSend(b)
         \/ SendFails \/ Record \/ Mark \/ RecordFails \/ Crash \/ Operate
  PROVE  MinterInv'
<1>c. /\ ChainTypeOK' /\ Txs' = Txs /\ txs' = txs /\ buried' = buried
      /\ 0 \notin Txs
  BY ChainUnchanged DEF MinterInv, ChainTypeOK, Txs
<1> USE <1>c DEF MinterInv
<1>1. CASE StartTick
  BY <1>1 DEF StartTick, MinterTypeOK, InHand, Statuses, Steps, bounds
<1>2. ASSUME NEW b \in Badges, NoReceipt(b)
      PROVE  MinterInv'
  BY <1>2 DEF NoReceipt, NextRow, MinterTypeOK, InHand, Statuses, Steps, bounds
<1>3. ASSUME NEW b \in Badges, RevertedReceipt(b)
      PROVE  MinterInv'
  BY <1>3 DEF RevertedReceipt, MinterTypeOK, InHand, Statuses, Steps, bounds,
              command
<1>4. ASSUME NEW b \in Badges, GoodReceipt(b)
      PROVE  MinterInv'
  <2>1. latest[b] \in Txs
    BY <1>4 DEF GoodReceipt, ChainTypeOK
  <2> QED
    BY <1>4, <2>1 DEF GoodReceipt, NextRow, MinterTypeOK, InHand, Statuses,
                      Steps, bounds
<1>5. CASE ReadNonce
  BY <1>5 DEF ReadNonce, NextRow, MinterTypeOK, InHand, Steps, bounds, command
<1>6. CASE ReadUsed
  <2>1. cur \in Badges /\ NextRow(cur)
    BY <1>6 DEF ReadUsed, InHand
  <2>2. /\ status' \in [Badges -> Statuses] /\ elapsed' \subseteq Badges
        /\ \A c \in Badges : status'[c] \in {"submitted", "included"} =>
                               status'[c] = status[c]
        /\ attempts' = attempts /\ latest' = latest
    <3>1. CASE IsEntitlementUsed(cur)
      BY <1>6, <2>1, <3>1 DEF ReadUsed, MinterTypeOK, Statuses
    <3>2. CASE ~IsEntitlementUsed(cur)
      BY <1>6, <2>1, <3>2, RequeueTyped DEF ReadUsed
    <3> QED
      BY <3>1, <3>2
  <2> QED
    BY <1>6, <2>1, <2>2 DEF ReadUsed, NextRow, MinterTypeOK, InHand, Steps, bounds
<1>7. CASE NothingToSend
  BY <1>7, EndTickTyped DEF NothingToSend, MinterTypeOK, InHand, Steps, command,
                            bounds
<1>8. ASSUME NEW b \in Badges, SendRevoked(b) \/ SendMinted(b)
      PROVE  MinterInv'
  BY <1>8, EndTickTyped DEF SendRevoked, SendMinted, MinterTypeOK, InHand, Steps,
                            Statuses, bounds
<1>9. ASSUME NEW b \in Badges, LowBalance(b)
      PROVE  MinterInv'
  BY <1>9, EndTickTyped, LimitsAssumption
  DEF LowBalance, Fault, MinterTypeOK, InHand, Steps, command
<1>10. ASSUME NEW b \in Badges, BeginSend(b)
       PROVE  MinterInv'
  BY <1>10 DEF BeginSend, MinterTypeOK, InHand, Steps, bounds
<1>11. CASE SendFails \/ RecordFails
  <2>1. cur \in Badges /\ RequeueOrFail(cur) /\ EndTick
    BY <1>11 DEF SendFails, RecordFails, InHand
  <2>2. failures' \in 0..MaxFailures /\ UNCHANGED <<revoked, crashes, retries>>
    BY <1>11, LimitsAssumption DEF SendFails, RecordFails, Fault, MinterTypeOK
  <2> QED
    BY <2>1, <2>2, RequeueTyped, EndTickTyped DEF MinterTypeOK, InHand, Steps
<1>12. CASE Record
  BY <1>12 DEF Record, MinterTypeOK, InHand, Steps, bounds
<1>13. CASE Mark
  BY <1>13, EndTickTyped DEF Mark, MinterTypeOK, InHand, Steps, Statuses, bounds
<1>14. CASE Crash
  BY <1>14, EndTickTyped, LimitsAssumption
  DEF Crash, MinterTypeOK, InHand, Steps, command
<1>15. ASSUME NEW b \in Badges, Retry(b)
       PROVE  MinterInv'
  BY <1>15, LimitsAssumption DEF Retry, MinterTypeOK, InHand, Statuses, tick
<1>16. ASSUME NEW b \in Badges, Revoke(b)
       PROVE  MinterInv'
  BY <1>16, LimitsAssumption DEF Revoke, Fault, MinterTypeOK, InHand, tick, command
<1>17. ASSUME NEW b \in Badges, Elapse(b)
       PROVE  MinterInv'
  BY <1>17 DEF Elapse, MinterTypeOK, InHand, tick, bounds
<1> QED
  BY <1>1, <1>2, <1>3, <1>4, <1>5, <1>6, <1>7, <1>8, <1>9, <1>10, <1>11, <1>12,
     <1>13, <1>14, <1>15, <1>16, <1>17
  DEF Reconcile, Operate

\* The two steps that send a transaction.
LEMMA TransmitKeeps ==
  ASSUME MinterInv, Broadcast \/ AnswerLost
  PROVE  MinterInv' /\ TxsGrow /\ good' = good /\ undone' = undone
<1>1. cur \in Badges /\ Transmit
  BY DEF Broadcast, AnswerLost, MinterInv, InHand
<1>2. /\ TxsGrow /\ ChainTypeOK' /\ Len(txs) + 1 \in Txs'
      /\ txs'[Len(txs) + 1].badge = cur
      /\ buried' = buried /\ good' = good /\ undone' = undone
  BY <1>1, TransmitTyped DEF MinterInv
<1>3. /\ Txs \subseteq Txs' /\ \A t \in Txs : txs'[t] = txs[t]
      /\ 0 \notin Txs'
  <2>1. /\ Txs \subseteq Txs' /\ \A t \in Txs : txs'[t] = txs[t]
        /\ txs' \in Seq([badge : Badges \cup {Other}, nonce : Nat])
    BY <1>2, OldTransactions DEF MinterInv
  <2>2. 0 \notin Txs'
    BY <2>1 DEF Txs
  <2> QED
    BY <2>1, <2>2
<1>4. CASE Broadcast
  <2>1. MinterTypeOK'
    BY <1>2, <1>3, <1>4 DEF Broadcast, MinterInv, MinterTypeOK, Steps, command, bounds
  <2>2. InHand'
    BY <1>1, <1>2, <1>3, <1>4 DEF Broadcast, MinterInv, MinterTypeOK, InHand, command
  <2> QED
    BY <1>2, <2>1, <2>2 DEF MinterInv
<1>5. CASE AnswerLost
  <2>1. RequeueOrFail(cur) /\ EndTick /\ UNCHANGED <<revoked, crashes, retries>>
    BY <1>5 DEF AnswerLost
  <2>2. failures' \in 0..MaxFailures
    BY <1>5, LimitsAssumption DEF AnswerLost, Fault, MinterInv, MinterTypeOK
  <2>3. MinterTypeOK'
    BY <1>1, <1>2, <1>3, <2>1, <2>2, RequeueTyped, EndTickTyped
    DEF MinterInv, MinterTypeOK, Steps
  <2>4. InHand'
    BY <1>1, <1>2, <1>3, <2>1, RequeueTyped, EndTickTyped
    DEF MinterInv, MinterTypeOK, InHand
  <2> QED
    BY <1>2, <2>3, <2>4 DEF MinterInv
<1> QED
  BY <1>2, <1>4, <1>5

-----------------------------------------------------------------------------
(* Finality *)

\* A command becomes final only with its badge on the chain.
LEMMA FinalizedFrom ==
  ASSUME MinterInv, UNCHANGED chain, Next, ~Network, NEW b \in Badges,
         status'[b] = "finalized"
  PROVE  status[b] = "finalized" \/ IsEntitlementUsed(b)
<1> USE DEF MinterInv
<1>1. CASE StartTick
  BY <1>1 DEF StartTick, MinterTypeOK
<1>2. ASSUME NEW c \in Badges, NoReceipt(c) \/ RevertedReceipt(c)
      PROVE  status'[b] # "finalized" \/ status[b] = "finalized"
  BY <1>2 DEF NoReceipt, RevertedReceipt, MinterTypeOK, command
<1>3. ASSUME NEW c \in Badges, GoodReceipt(c)
      PROVE  status[b] = "finalized" \/ IsEntitlementUsed(b)
  <2>1. latest[c] \in good /\ latest[c] \in Txs
    BY <1>3 DEF GoodReceipt, ChainTypeOK
  <2>2. IsEntitlementUsed(c)
    BY <2>1 DEF InHand, IsEntitlementUsed
  <2> QED
    BY <1>3, <2>2 DEF GoodReceipt, MinterTypeOK
<1>4. CASE ReadNonce
  BY <1>4 DEF ReadNonce, command
<1>5. CASE ReadUsed
  <2>1. cur \in Badges
    BY <1>5 DEF ReadUsed, InHand
  <2>2. CASE IsEntitlementUsed(cur)
    BY <1>5, <2>1, <2>2 DEF ReadUsed, MinterTypeOK
  <2>3. CASE ~IsEntitlementUsed(cur)
    BY <1>5, <2>1, <2>3, RequeueTyped DEF ReadUsed
  <2> QED
    BY <2>2, <2>3
<1>6. CASE Send
  <2>1. CASE NothingToSend
    BY <2>1 DEF NothingToSend, command
  <2>2. ASSUME NEW c \in Badges,
               SendRevoked(c) \/ LowBalance(c) \/ SendMinted(c) \/ BeginSend(c)
        PROVE  status[b] = "finalized" \/ IsEntitlementUsed(b)
    BY <2>2 DEF SendRevoked, LowBalance, SendMinted, BeginSend, MinterTypeOK,
                command
  <2>3. CASE Broadcast \/ AnswerLost
    <3>1. txs' # txs
      <4>1. PICK n \in 0..Len(txs) : txs' = Append(txs, [badge |-> cur, nonce |-> n])
        BY <2>3 DEF Broadcast, AnswerLost, Transmit
      <4>2. Len(txs') = Len(txs) + 1 /\ Len(txs) \in Nat
        BY <4>1 DEF ChainTypeOK
      <4> QED
        BY <4>2
    <3> QED
      BY <3>1 DEF chain
  <2>4. CASE SendFails \/ RecordFails
    <3>1. cur \in Badges /\ RequeueOrFail(cur)
      BY <2>4 DEF SendFails, RecordFails, InHand
    <3> QED
      BY <3>1, RequeueTyped
  <2>5. CASE Record \/ Mark
    BY <2>5 DEF Record, Mark, InHand, MinterTypeOK
  <2> QED
    BY <1>6, <2>1, <2>2, <2>3, <2>4, <2>5 DEF Send
<1>7. CASE Crash
  BY <1>7 DEF Crash, command
<1>8. ASSUME NEW c \in Badges, Retry(c) \/ Revoke(c) \/ Elapse(c)
      PROVE  status'[b] # "finalized" \/ status[b] = "finalized"
  BY <1>8 DEF Retry, Revoke, Elapse, MinterTypeOK, command
<1> QED
  BY <1>1, <1>2, <1>3, <1>4, <1>5, <1>6, <1>7, <1>8 DEF Next, Reconcile, Operate

\* Only the network and the two sending steps touch the chain.
LEMMA ChainWriters ==
  ASSUME Next
  PROVE  Network \/ Broadcast \/ AnswerLost \/ UNCHANGED chain
  BY DEF Next, StartTick, Reconcile, NoReceipt, RevertedReceipt, GoodReceipt,
         ReadNonce, ReadUsed, Send, NothingToSend, SendRevoked, LowBalance,
         SendMinted, BeginSend, SendFails, Record, Mark, RecordFails, Crash,
         Operate, Retry, Revoke, Elapse

\* Every step keeps MinterInv.
LEMMA MinterKept ==
  ASSUME MinterInv, [Next]_vars
  PROVE  MinterInv'
<1>1. CASE UNCHANGED vars
  BY <1>1 DEF vars, command, tick, chain, bounds, MinterInv, ChainTypeOK,
              MinterTypeOK, InHand, Txs
<1>2. CASE Network
  BY <1>2, NetworkKeeps
<1>3. CASE Broadcast \/ AnswerLost
  BY <1>3, TransmitKeeps
<1>4. CASE Next /\ UNCHANGED chain /\ ~Network /\ ~Broadcast /\ ~AnswerLost
  BY <1>4, QuietStepKeeps DEF Next, Send
<1> QED
  BY <1>1, <1>2, <1>3, <1>4, ChainWriters

\* Every step keeps finalized commands minted or undone on record.
LEMMA FinalizedKept ==
  ASSUME MinterInv, FinalizedIsMinted, [Next]_vars
  PROVE  FinalizedIsMinted'
<1>0. good \subseteq Txs /\ undone \subseteq Txs
  BY DEF MinterInv, ChainTypeOK
<1>1. CASE UNCHANGED vars
  BY <1>1 DEF vars, command, chain, FinalizedIsMinted, IsEntitlementUsed
<1>2. CASE Network
  <2>1. /\ \A t \in Txs : txs'[t] = txs[t]
        /\ good \subseteq good' \cup undone' /\ undone \subseteq undone'
    BY <1>2, NetworkTyped, OldTransactions DEF NetworkStep, MinterInv
  <2>2. status' = status
    BY <1>2 DEF Network, MineNothing, Mine, MineReverted, Replace, Drop,
                Reorganise, command
  <2> QED
    BY <1>0, <2>1, <2>2 DEF FinalizedIsMinted, IsEntitlementUsed
<1>3. CASE Broadcast \/ AnswerLost
  <2>1. /\ \A t \in Txs : txs'[t] = txs[t]
        /\ good' = good /\ undone' = undone
    BY <1>3, TransmitKeeps, OldTransactions DEF MinterInv
  <2>2. \A b \in Badges : status'[b] = "finalized" => status[b] = "finalized"
    <3>1. cur \in Badges
      BY <1>3 DEF Broadcast, AnswerLost, MinterInv, InHand
    <3> QED
      BY <1>3, <3>1, RequeueTyped DEF Broadcast, AnswerLost, command, MinterInv
  <2> QED
    BY <1>0, <2>1, <2>2 DEF FinalizedIsMinted, IsEntitlementUsed
<1>4. CASE Next /\ UNCHANGED chain /\ ~Network
  <2>1. txs' = txs /\ good' = good /\ undone' = undone
    BY <1>4 DEF chain
  <2> QED
    BY <1>4, <2>1, FinalizedFrom DEF FinalizedIsMinted, IsEntitlementUsed
<1> QED
  BY <1>1, <1>2, <1>3, <1>4, ChainWriters

\* The rows of chain_commands, the tick and what it sees of the chain keep
\* their types, whatever fails.
THEOREM MinterTypeCorrect == Spec => []TypeOK
<1>1. Init => MinterInv
  BY InitMinter
<1>2. MinterInv /\ [Next]_vars => MinterInv'
  BY MinterKept
<1>3. MinterInv => TypeOK
  BY TypeHalves DEF MinterInv
<1> QED
  BY <1>1, <1>2, <1>3, PTL DEF Spec

\* A submitted or included command always has a recorded transaction of its
\* own to be followed by (reconcileBadgeCommands joins the newest one).
THEOREM InFlightCorrect == Spec => []InFlightIsRecorded
<1>1. Init => MinterInv
  BY InitMinter
<1>2. MinterInv /\ [Next]_vars => MinterInv'
  BY MinterKept
<1>3. MinterInv => InFlightIsRecorded
  BY DEF MinterInv, InHand, InFlightIsRecorded
<1> QED
  BY <1>1, <1>2, <1>3, PTL DEF Spec

\* Whatever is lost, reverted, replaced or cut short, a finalized command was
\* minted, and only a reorganisation can have undone it.
THEOREM FinalityCorrect == Spec => []FinalizedIsMinted
<1>1. Init => MinterInv /\ FinalizedIsMinted
  BY InitMinter
<1>2. MinterInv /\ FinalizedIsMinted /\ [Next]_vars
        => MinterInv' /\ FinalizedIsMinted'
  BY MinterKept, FinalizedKept
<1> QED
  BY <1>1, <1>2, PTL DEF Spec

-----------------------------------------------------------------------------
(* The limit on attempts *)

TxsOf(b) == {t \in Txs : txs[t].badge = b}

\* A send that has been counted and not been broadcast.
Owed(b) == IF pc = "broadcast" /\ cur = b THEN 1 ELSE 0

Sending(b) == pc \in {"broadcast", "record", "mark"} /\ cur = b

\* A command that waits has an attempt left, and as long as no admin granted
\* new ones every transaction is among those counted.
Limited ==
  \A b \in Badges :
    /\ attempts[b] <= MaxAttempts + crashes
    /\ status[b] \in {"none", "queued"} /\ ~Sending(b) =>
         attempts[b] < MaxAttempts + crashes

Counted ==
  retries = 0 =>
    \A b \in Badges : Cardinality(TxsOf(b)) + Owed(b) <= attempts[b]

\* The transactions of a badge can be counted.
LEMMA TxsOfFinite ==
  ASSUME ChainTypeOK, NEW b
  PROVE  IsFiniteSet(TxsOf(b)) /\ Cardinality(TxsOf(b)) \in Nat
<1>1. IsFiniteSet(1..Len(txs)) /\ Txs = 1..Len(txs)
  BY FS_Interval DEF ChainTypeOK, Txs
<1> QED
  BY <1>1, FS_Subset, FS_CardinalityType DEF TxsOf

\* One more transaction counts for its own badge only.
LEMMA TxsOfAppend ==
  ASSUME ChainTypeOK, NEW o \in Badges \cup {Other}, NEW n \in Nat,
         txs' = Append(txs, [badge |-> o, nonce |-> n]), NEW b
  PROVE  Cardinality(TxsOf(b)') =
           IF o = b THEN Cardinality(TxsOf(b)) + 1 ELSE Cardinality(TxsOf(b))
<1>1. /\ TxsGrow /\ Txs = 1..Len(txs) /\ Len(txs) \in Nat
      /\ \A t \in Txs : txs'[t] = txs[t]
  BY AppendGrows, OldTransactions
<1>2. Txs' = Txs \cup {Len(txs) + 1} /\ txs'[Len(txs) + 1].badge = o
  <2> DEFINE r == [badge |-> o, nonce |-> n]
  <2>1. r.badge = o /\ txs' = Append(txs, r)
    OBVIOUS
  <2> HIDE DEF r
  <2>2. /\ DOMAIN txs' = 1..(Len(txs) + 1) /\ txs'[Len(txs) + 1] = r
    BY <2>1 DEF ChainTypeOK
  <2> QED
    BY <1>1, <2>1, <2>2 DEF Txs
<1>3. Len(txs) + 1 \notin TxsOf(b)
  BY <1>1 DEF TxsOf
<1>4. TxsOf(b)' = IF o = b THEN TxsOf(b) \cup {Len(txs) + 1} ELSE TxsOf(b)
  BY <1>1, <1>2 DEF TxsOf
<1> QED
  BY <1>3, <1>4, TxsOfFinite, FS_AddElement

\* Nothing is counted or sent at the start.
LEMMA InitLimited == Init => Limited /\ Counted
<1> SUFFICES ASSUME Init PROVE Limited /\ Counted
  OBVIOUS
<1>1. Limited
  BY LimitsAssumption DEF Init, Limited
<1>2. Txs = {}
  BY DEF Init, Txs
<1>3. \A b \in Badges : Cardinality(TxsOf(b)) = 0 /\ Owed(b) = 0 /\ attempts[b] = 0
  BY <1>2, FS_EmptySet DEF Init, TxsOf, Owed
<1> QED
  BY <1>1, <1>3 DEF Counted

\* Requeueing leaves an attempt over, and ends the send it comes from.
LEMMA RequeueLimited ==
  ASSUME MinterInv, Limited, Counted, cur \in Badges, RequeueOrFail(cur), EndTick,
         UNCHANGED <<crashes, retries>>
  PROVE  /\ Limited'
         /\ \A b \in Badges : Owed(b)' = 0 /\ attempts'[b] = attempts[b]
<1>1. /\ attempts' = attempts /\ pc' = "idle" /\ cur' = NoBadge
      /\ \A b \in Badges \ {cur} : status'[b] = status[b]
      /\ status'[cur] = "queued" => attempts[cur] < MaxAttempts
      /\ status'[cur] \in {"queued", "failed"}
  BY LimitsAssumption DEF RequeueOrFail, EndTick, MinterInv, MinterTypeOK
<1>2. Limited'
  BY <1>1, LimitsAssumption DEF Limited, Sending, MinterInv, MinterTypeOK
<1> QED
  BY <1>1, <1>2 DEF Owed

\* Every step keeps the limit and the count.
LEMMA LimitedKept ==
  ASSUME MinterInv, Limited, Counted, [Next]_vars
  PROVE  Limited' /\ Counted'
<1>t. /\ status \in [Badges -> Statuses] /\ attempts \in [Badges -> Nat]
      /\ crashes \in Nat /\ retries \in Nat
      /\ MaxAttempts \in Nat /\ MaxAttempts > 0 /\ NoBadge \notin Badges
      /\ ChainTypeOK
  BY LimitsAssumption, BadgesAssumption DEF MinterInv, MinterTypeOK
<1>n. \A b \in Badges : Cardinality(TxsOf(b)) \in Nat
  BY <1>t, TxsOfFinite
<1>1. CASE UNCHANGED vars
  BY <1>1 DEF vars, command, tick, chain, bounds, Limited, Counted, Owed, Sending,
              TxsOf, Txs
<1>2. CASE Network
  <2>1. UNCHANGED <<command, tick, crashes, retries>>
    <3>1. CASE MineNothing
      BY <3>1 DEF MineNothing, bounds
    <3>2. ASSUME NEW t \in Txs,
                 Mine(t) \/ MineReverted(t) \/ Replace(t) \/ Drop(t)
          PROVE  UNCHANGED <<command, tick, crashes, retries>>
      BY <3>2 DEF Mine, MineReverted, Replace, Drop, bounds
    <3>3. ASSUME NEW n \in 0..(Confirmations - 1), Reorganise(n)
          PROVE  UNCHANGED <<command, tick, crashes, retries>>
      BY <3>3 DEF Reorganise
    <3> QED
      BY <1>2, <3>1, <3>2, <3>3 DEF Network
  <2>2. \A b \in Badges : Cardinality(TxsOf(b)') = Cardinality(TxsOf(b))
    <3>1. CASE txs' = txs
      BY <3>1 DEF TxsOf, Txs
    <3>2. ASSUME NEW t \in Txs, Replace(t)
          PROVE  \A b \in Badges : Cardinality(TxsOf(b)') = Cardinality(TxsOf(b))
      <4>1. txs[t].nonce \in Nat
        <5>1. Txs = 1..Len(txs)
          BY <1>t DEF ChainTypeOK, Txs
        <5>2. txs[t] \in [badge : Badges \cup {Other}, nonce : Nat]
          BY <1>t, <5>1, ElementOfSeq DEF ChainTypeOK
        <5> QED
          BY <5>2
      <4> QED
        BY <1>t, <3>2, <4>1, TxsOfAppend, BadgesAssumption DEF Replace
    <3>3. txs' = txs \/ \E t \in Txs : Replace(t)
      BY <1>2 DEF Network, MineNothing, Mine, MineReverted, Drop, Reorganise
    <3> QED
      BY <3>1, <3>2, <3>3
  <2> QED
    BY <2>1, <2>2 DEF command, tick, Limited, Counted, Owed, Sending
<1>3. CASE Broadcast \/ AnswerLost
  <2>0. pc = "broadcast" /\ cur \in Badges /\ UNCHANGED <<crashes, retries>>
    BY <1>3 DEF Broadcast, AnswerLost, MinterInv, InHand, bounds
  <2>1. PICK n \in 0..Len(txs) : txs' = Append(txs, [badge |-> cur, nonce |-> n])
    BY <1>3 DEF Broadcast, AnswerLost, Transmit
  <2>2. \A b \in Badges :
          Cardinality(TxsOf(b)') = Cardinality(TxsOf(b)) + Owed(b)
    <3>1. Len(txs) \in Nat
      BY <1>t DEF ChainTypeOK
    <3> QED
      BY <1>t, <1>n, <2>0, <2>1, <3>1, TxsOfAppend DEF Owed
  <2>3. CASE Broadcast
    <3>1. UNCHANGED command /\ pc' = "record" /\ cur' = cur
      BY <2>3 DEF Broadcast
    <3> QED
      BY <1>n, <2>0, <2>2, <3>1 DEF Limited, Counted, Owed, Sending, command
  <2>4. CASE AnswerLost
    <3>1. Limited' /\ \A b \in Badges : Owed(b)' = 0 /\ attempts'[b] = attempts[b]
      BY <2>0, <2>4, RequeueLimited DEF AnswerLost
    <3>2. ASSUME retries' = 0, NEW b \in Badges
          PROVE  Cardinality(TxsOf(b)') + Owed(b)' <= attempts'[b]
      <4>1. Cardinality(TxsOf(b)) + Owed(b) <= attempts[b] /\ Owed(b) \in Nat
        BY <2>0, <3>2 DEF Counted, Owed
      <4>2. Cardinality(TxsOf(b)') = Cardinality(TxsOf(b)) + Owed(b)
        BY <2>2
      <4> QED
        BY <1>n, <3>1, <4>1, <4>2
    <3> QED
      BY <3>1, <3>2 DEF Counted
  <2> QED
    BY <1>3, <2>3, <2>4
<1>4. CASE Next /\ UNCHANGED chain /\ ~Network /\ ~Broadcast /\ ~AnswerLost
  <2>c. \A b \in Badges : TxsOf(b)' = TxsOf(b)
    BY <1>4 DEF chain, TxsOf, Txs
  <2> DEFINE Goal == Limited' /\ Counted'
  <2>1. CASE StartTick
    BY <1>t, <1>n, <2>c, <2>1
    DEF StartTick, Limited, Counted, Owed, Sending, bounds
  <2>2. ASSUME NEW b \in Badges,
               NoReceipt(b) \/ RevertedReceipt(b) \/ GoodReceipt(b)
        PROVE  Goal
    BY <1>t, <1>n, <2>c, <2>2
    DEF NoReceipt, RevertedReceipt, GoodReceipt, NextRow, Limited, Counted, Owed,
        Sending, bounds, command
  <2>3. CASE ReadNonce
    BY <1>t, <1>n, <2>c, <2>3
    DEF ReadNonce, NextRow, Limited, Counted, Owed, Sending, bounds, command
  <2>4. CASE ReadUsed
    <3>1. /\ pc = "used" /\ pc' = "reconcile" /\ cur \in Badges
          /\ attempts' = attempts /\ UNCHANGED bounds
          /\ \A b \in Badges \ {cur} : status'[b] = status[b]
          /\ status'[cur] = "queued" => attempts[cur] < MaxAttempts
          /\ status'[cur] # "none"
      BY <1>t, <2>4 DEF ReadUsed, NextRow, RequeueOrFail, MinterInv, InHand
    <3> QED
      BY <1>t, <1>n, <2>c, <3>1 DEF Limited, Counted, Owed, Sending, bounds
  <2>5. CASE NothingToSend
    BY <1>t, <1>n, <2>c, <2>5
    DEF NothingToSend, EndTick, Limited, Counted, Owed, Sending, bounds, command
  <2>6. ASSUME NEW b \in Badges, SendRevoked(b) \/ SendMinted(b) \/ LowBalance(b)
        PROVE  Goal
    BY <1>t, <1>n, <2>c, <2>6
    DEF SendRevoked, SendMinted, LowBalance, NextToSend, EndTick, Limited, Counted,
        Owed, Sending, bounds, command
  <2>7. ASSUME NEW b \in Badges, BeginSend(b)
        PROVE  Goal
    <3>1. /\ attempts[b] < MaxAttempts + crashes /\ Owed(b) = 0
      BY <2>7 DEF BeginSend, NextToSend, Limited, Sending, Owed
    <3>2. /\ attempts' = [attempts EXCEPT ![b] = @ + 1]
          /\ pc = "reconcile" /\ pc' = "broadcast" /\ cur' = b
          /\ status' = status /\ UNCHANGED bounds
      BY <2>7 DEF BeginSend, NextToSend
    <3>3. Limited'
      BY <1>t, <3>1, <3>2 DEF Limited, Sending, bounds
    <3>4. \A c \in Badges : Owed(c)' = IF c = b THEN 1 ELSE 0
      BY <3>2 DEF Owed
    <3>5. Counted'
      BY <1>t, <1>n, <2>c, <3>1, <3>2, <3>4 DEF Counted, Owed, bounds
    <3> QED
      BY <3>3, <3>5
  <2>8. CASE SendFails \/ RecordFails
    <3>1. /\ cur \in Badges /\ RequeueOrFail(cur) /\ EndTick
          /\ UNCHANGED <<crashes, retries>>
      BY <2>8 DEF SendFails, RecordFails, MinterInv, InHand
    <3>2. Limited' /\ \A b \in Badges : Owed(b)' = 0 /\ attempts'[b] = attempts[b]
      BY <3>1, RequeueLimited
    <3> QED
      BY <1>t, <1>n, <2>c, <3>1, <3>2 DEF Counted, Owed
  <2>9. CASE Record \/ Mark
    BY <1>t, <1>n, <2>c, <2>9
    DEF Record, Mark, EndTick, Limited, Counted, Owed, Sending, bounds
  <2>10. CASE Crash
    <3>1. /\ crashes' = crashes + 1 /\ UNCHANGED command /\ retries' = retries
          /\ pc' = "idle"
      BY <2>10 DEF Crash, EndTick
    <3> QED
      BY <1>t, <1>n, <2>c, <3>1 DEF Limited, Counted, Owed, Sending, command
  <2>11. ASSUME NEW b \in Badges, Retry(b)
         PROVE  Goal
    BY <1>t, <1>n, <2>c, <2>11 DEF Retry, Limited, Counted, Sending, tick
  <2>12. ASSUME NEW b \in Badges, Revoke(b) \/ Elapse(b)
         PROVE  Goal
    BY <1>t, <1>n, <2>c, <2>12
    DEF Revoke, Elapse, Limited, Counted, Owed, Sending, tick, bounds, command
  <2> QED
    BY <1>4, <2>1, <2>2, <2>3, <2>4, <2>5, <2>6, <2>7, <2>8, <2>9, <2>10, <2>11,
       <2>12
    DEF Next, Reconcile, Send, Operate
<1> QED
  BY <1>1, <1>2, <1>3, <1>4, ChainWriters

\* No transaction leaves uncounted and the count keeps its limit, one further
\* for each tick cut short, for any limit and any number of failures.
THEOREM AttemptsCorrect == Spec => []AttemptsAreLimited
<1>1. Init => MinterInv /\ Limited /\ Counted
  BY InitMinter, InitLimited
<1>2. MinterInv /\ Limited /\ Counted /\ [Next]_vars
        => MinterInv' /\ Limited' /\ Counted'
  BY MinterKept, LimitedKept
<1>3. MinterInv /\ Limited /\ Counted => AttemptsAreLimited
  <2> SUFFICES ASSUME MinterInv, Limited, Counted, NEW b \in Badges
               PROVE  /\ attempts[b] <= MaxAttempts + crashes
                      /\ retries = 0 => Cardinality(TxsOf(b)) <= attempts[b]
    BY DEF AttemptsAreLimited, TxsOf
  <2>1. Cardinality(TxsOf(b)) \in Nat /\ attempts[b] \in Nat
    BY TxsOfFinite DEF MinterInv, MinterTypeOK
  <2> QED
    BY <2>1 DEF Limited, Counted, Owed
<1> QED
  BY <1>1, <1>2, <1>3, PTL DEF Spec

\* What is under way can be followed, and was counted before it left
\* (reconcileBadgeCommands, sendNextBadge).
THEOREM SendsCorrect == Spec => []SendsAreAccounted
<1>1. InFlightIsRecorded /\ AttemptsAreLimited => SendsAreAccounted
  BY DEF SendsAreAccounted
<1> QED
  BY <1>1, InFlightCorrect, AttemptsCorrect, PTL

-----------------------------------------------------------------------------
(* The counters of the Plaza *)

\* Counting which requests are at a step: one request moves at a time.
LEMMA OneMoves ==
  ASSUME NEW S, IsFiniteSet(S), NEW A, A \subseteq S, NEW B, B \subseteq S,
         NEW a, A \ {a} = B \ {a}
  PROVE  /\ Cardinality(A) \in Nat /\ Cardinality(B) \in Nat
         /\ (a \in A <=> a \in B) => Cardinality(B) = Cardinality(A)
         /\ a \in A /\ a \notin B => Cardinality(A) = Cardinality(B) + 1
         /\ a \notin A /\ a \in B => Cardinality(B) = Cardinality(A) + 1
  <1>1. IsFiniteSet(A) /\ IsFiniteSet(B)
    BY FS_Subset
  <1>2. Cardinality(A) \in Nat /\ Cardinality(B) \in Nat
    BY <1>1, FS_CardinalityType
  <1>3. ASSUME a \in A <=> a \in B PROVE A = B
    BY <1>3
  <1>4. ASSUME a \in A, a \notin B PROVE Cardinality(A) = Cardinality(B) + 1
    <2>1. A = B \cup {a}
      BY <1>4
    <2>. QED  BY <1>1, <1>4, <2>1, FS_AddElement
  <1>5. ASSUME a \notin A, a \in B PROVE Cardinality(B) = Cardinality(A) + 1
    <2>1. B = A \cup {a}
      BY <1>5
    <2>. QED  BY <1>1, <1>5, <2>1, FS_AddElement
  <1>. QED  BY <1>2, <1>3, <1>4, <1>5

Busy(step, op) == {a \in Asks : At(a, step, op)}
BusyOn(step, op, c) == {a \in Asks : At(a, step, op) /\ ask[a].on = c}

RequestTable == ask = [a \in Asks |-> [step |-> ask[a].step, op |-> ask[a].op,
                                       by |-> ask[a].by, on |-> ask[a].on]]

\* The tables of the feed, as far as the counters need them.
FeedTables ==
  /\ cheers \subseteq Viewers /\ cheerCount \in Nat /\ lost \in Nat
  /\ comment = [c \in Comments |-> [state |-> comment[c].state, hidden |-> comment[c].hidden]]
  /\ reports \in [Comments -> SUBSET Viewers]
  /\ reportCount \in [Comments -> Nat]
  /\ RequestTable
  /\ \A a \in Asks : ask[a].step # "idle" => ask[a].by \in Viewers /\ ask[a].on \in Comments

\* A report is counted, or its request is about to count it or was lost.
ReportsAreCounted(c) ==
  Cardinality(reports[c]) <= reportCount[c] + Under("count", "report", c) + lost

\* A comment that nobody hid and no admin restored has fewer reports than hide
\* it, but for those that are being counted, about to hide it, or lost.
Tolerated(c) ==
  comment[c].hidden = "no" /\ c \notin cleared =>
    Cardinality(reports[c])
      < HideAt + lost + Under("count", "report", c) + Under("hide", "report", c)

CheersCounted ==
  cheerCount + UnderWay("cheer") + lost >= Cardinality(cheers) + UnderWay("uncheer")

CounterInv ==
  FeedTables /\ CheersCounted /\ \A c \in Comments : ReportsAreCounted(c) /\ Tolerated(c)
\* Only the request a moves, to this step of the same operation.
Moves(a, step) ==
  /\ RequestTable'
  /\ \A b \in Asks \ {a} : ask'[b] = ask[b]
  /\ ask'[a].step = step
  /\ step # "idle" =>
       ask'[a].op = ask[a].op /\ ask'[a].by = ask[a].by /\ ask'[a].on = ask[a].on

LEMMA ThenMoves ==
  ASSUME RequestTable, NEW a \in Asks, NEW step, Then(a, step)
  PROVE  Moves(a, step)
  <1>1. CASE step = "idle"
    <2>1. PICK r : ask' = [ask EXCEPT ![a] = r] /\ r.step = "idle"
               /\ r = [step |-> r.step, op |-> r.op, by |-> r.by, on |-> r.on]
      <3>1. PICK c : c = CHOOSE d \in Comments : TRUE
        OBVIOUS
      <3>2. NoRequest = [step |-> "idle", op |-> "cheer", by |-> Owner, on |-> c]
        BY <3>1 DEF NoRequest
      <3>3. ask' = [ask EXCEPT ![a] = NoRequest]
        BY <1>1 DEF Then
      <3>. QED  BY <3>2, <3>3
    <2>. QED  BY <1>1, <2>1 DEF RequestTable, Moves
  <1>2. CASE step # "idle"
    <2>1. ask' = [ask EXCEPT ![a] = [step |-> step, op |-> ask[a].op,
                                     by |-> ask[a].by, on |-> ask[a].on]]
      <3>1. [ask[a] EXCEPT !.step = step]
              = [step |-> step, op |-> ask[a].op, by |-> ask[a].by, on |-> ask[a].on]
        BY DEF RequestTable
      <3>2. ask' = [ask EXCEPT ![a] = [ask[a] EXCEPT !.step = step]]
        BY <1>2 DEF Then
      <3>. QED  BY <3>1, <3>2
    <2>. QED  BY <1>2, <2>1 DEF RequestTable, Moves
  <1>. QED  BY <1>1, <1>2

LEMMA BusyMoves ==
  ASSUME NEW a \in Asks, \A b \in Asks \ {a} : ask'[b] = ask[b], NEW step, NEW op, NEW c
  PROVE  /\ Under(step, op, c) \in Nat /\ Under(step, op, c)' \in Nat
         /\ (At(a, step, op) /\ ask[a].on = c) <=> (At(a, step, op) /\ ask[a].on = c)'
              => Under(step, op, c)' = Under(step, op, c)
         /\ (At(a, step, op) /\ ask[a].on = c) /\ ~(At(a, step, op) /\ ask[a].on = c)'
              => Under(step, op, c) = Under(step, op, c)' + 1
         /\ ~(At(a, step, op) /\ ask[a].on = c) /\ (At(a, step, op) /\ ask[a].on = c)'
              => Under(step, op, c)' = Under(step, op, c) + 1
  <1>1. BusyOn(step, op, c) \ {a} = BusyOn(step, op, c)' \ {a}
    BY DEF BusyOn, At
  <1>2. IsFiniteSet(Asks) /\ BusyOn(step, op, c) \subseteq Asks /\ BusyOn(step, op, c)' \subseteq Asks
    BY PlazaConstants DEF BusyOn
  <1>3. /\ a \in BusyOn(step, op, c) <=> At(a, step, op) /\ ask[a].on = c
        /\ a \in BusyOn(step, op, c)' <=> (At(a, step, op) /\ ask[a].on = c)'
    BY DEF BusyOn
  <1>4. /\ Under(step, op, c) = Cardinality(BusyOn(step, op, c))
        /\ Under(step, op, c)' = Cardinality(BusyOn(step, op, c)')
    BY DEF Under, BusyOn
  <1>. QED  BY <1>1, <1>2, <1>3, <1>4, OneMoves

LEMMA WayMoves ==
  ASSUME NEW a \in Asks, \A b \in Asks \ {a} : ask'[b] = ask[b], NEW op
  PROVE  /\ UnderWay(op) \in Nat /\ UnderWay(op)' \in Nat
         /\ At(a, "count", op) <=> At(a, "count", op)' => UnderWay(op)' = UnderWay(op)
         /\ At(a, "count", op) /\ ~At(a, "count", op)' => UnderWay(op) = UnderWay(op)' + 1
         /\ ~At(a, "count", op) /\ At(a, "count", op)' => UnderWay(op)' = UnderWay(op) + 1
  <1>1. Busy("count", op) \ {a} = Busy("count", op)' \ {a}
    BY DEF Busy, At
  <1>2. IsFiniteSet(Asks) /\ Busy("count", op) \subseteq Asks /\ Busy("count", op)' \subseteq Asks
    BY PlazaConstants DEF Busy
  <1>3. /\ a \in Busy("count", op) <=> At(a, "count", op)
        /\ a \in Busy("count", op)' <=> At(a, "count", op)'
    BY DEF Busy
  <1>4. UnderWay(op) = Cardinality(Busy("count", op)) /\ UnderWay(op)' = Cardinality(Busy("count", op)')
    BY DEF UnderWay, Busy
  <1>. QED  BY <1>1, <1>2, <1>3, <1>4, OneMoves

\* A request that is not between the statements of a cheer leaves that count.
LEMMA CheersAlone ==
  ASSUME CounterInv, NEW a \in Asks, NEW step, Moves(a, step),
         ask[a].op \notin {"cheer", "uncheer"} \/ (step # "count" /\ ask[a].step # "count"),
         UNCHANGED <<cheers, cheerCount, lost>>
  PROVE  CheersCounted'
  <1>1. /\ UnderWay("cheer")' = UnderWay("cheer")
        /\ UnderWay("uncheer")' = UnderWay("uncheer")
    BY WayMoves DEF Moves, At
  <1>. QED  BY <1>1 DEF CounterInv, CheersCounted

\* Nor do those that are not about a report touch what is counted of reports.
LEMMA ReportsAlone ==
  ASSUME CounterInv, NEW a \in Asks, NEW step, Moves(a, step),
         ask[a].op # "report" \/ (step \notin {"count", "hide"} /\ ask[a].step \notin {"count", "hide"}),
         UNCHANGED <<reports, reportCount, lost>>,
         NEW c \in Comments,
         comment'[c].hidden = "no" /\ c \notin cleared' => comment[c].hidden = "no" /\ c \notin cleared
  PROVE  ReportsAreCounted(c)' /\ Tolerated(c)'
  <1>1. /\ Under("count", "report", c)' = Under("count", "report", c)
        /\ Under("hide", "report", c)' = Under("hide", "report", c)
    BY BusyMoves DEF Moves, At
  <1>. QED  BY <1>1 DEF CounterInv, ReportsAreCounted, Tolerated

\* The same for the requests of other operations.
LEMMA ReportsElsewhere ==
  ASSUME CounterInv, NEW a \in Asks, NEW step, Moves(a, step), ask[a].op # "report",
         comment' = comment, cleared' = cleared,
         reports' = reports, reportCount' = reportCount, lost' = lost
  PROVE  \A c \in Comments : ReportsAreCounted(c)' /\ Tolerated(c)'
  <1>. SUFFICES ASSUME NEW c \in Comments PROVE ReportsAreCounted(c)' /\ Tolerated(c)'
    OBVIOUS
  <1>1. /\ Under("count", "report", c)' = Under("count", "report", c)
        /\ Under("hide", "report", c)' = Under("hide", "report", c)
    BY BusyMoves DEF Moves, At
  <1>. QED  BY <1>1 DEF CounterInv, ReportsAreCounted, Tolerated

LEMMA CheerWritten ==
  ASSUME CounterInv, NEW a \in Asks, WriteCheer(a)
  PROVE  CounterInv'
  <1>1. PICK step \in {"count", "idle"} : Moves(a, step)
    BY ThenMoves DEF WriteCheer, CounterInv, FeedTables
  <1>2. /\ ask[a].step = "write" /\ ask[a].op \in {"cheer", "uncheer"} /\ ask[a].by \in Viewers
        /\ UNCHANGED <<cheerCount, comment, reports, reportCount, cleared, lost>>
    BY DEF WriteCheer, At, CounterInv, FeedTables
  <1>3. cheers' \subseteq Viewers
    BY <1>2 DEF WriteCheer, CounterInv, FeedTables
  <1>4. FeedTables'
    BY <1>1, <1>2, <1>3 DEF CounterInv, FeedTables, Moves
  <1>5. \A c \in Comments : ReportsAreCounted(c)' /\ Tolerated(c)'
    BY <1>1, <1>2, ReportsAlone
  <1>6. IsFiniteSet(cheers) /\ Cardinality(cheers) \in Nat /\ Cardinality(cheers') \in Nat
    BY <1>3, PlazaConstants, FS_Subset, FS_CardinalityType DEF CounterInv, FeedTables
  <1>7. CASE ask[a].op = "cheer"
    <2>1. cheers' = cheers \cup {ask[a].by} /\ Moves(a, "count")
      BY <1>7, ThenMoves DEF WriteCheer, At, CounterInv, FeedTables
    <2>2. Cardinality(cheers') <= Cardinality(cheers) + 1
      <3>1. PICK v : v = ask[a].by
        OBVIOUS
      <3>2. cheers' = cheers \cup {v}
        BY <2>1, <3>1
      <3>3. v \in cheers => cheers' = cheers
        BY <3>2
      <3>4. v \notin cheers => Cardinality(cheers') = Cardinality(cheers) + 1
        BY <1>6, <3>2, FS_AddElement
      <3>. QED  BY <1>6, <3>3, <3>4
    <2>3. /\ UnderWay("cheer")' = UnderWay("cheer") + 1 /\ UnderWay("cheer") \in Nat
          /\ UnderWay("uncheer")' = UnderWay("uncheer") /\ UnderWay("uncheer") \in Nat
      BY <1>2, <1>7, <2>1, WayMoves DEF Moves, At
    <2>4. CheersCounted'
      BY <1>2, <1>6, <2>2, <2>3 DEF CheersCounted, CounterInv, FeedTables
    <2>. QED  BY <1>4, <1>5, <2>4 DEF CounterInv
  <1>8. CASE ask[a].op = "uncheer" /\ ask[a].by \in cheers
    <2>1. cheers' = cheers \ {ask[a].by} /\ Moves(a, "count")
      BY <1>8, ThenMoves DEF WriteCheer, At, CounterInv, FeedTables
    <2>2. Cardinality(cheers') = Cardinality(cheers) - 1
      BY <1>6, <1>8, <2>1, FS_RemoveElement
    <2>3. /\ UnderWay("uncheer")' = UnderWay("uncheer") + 1 /\ UnderWay("cheer") \in Nat
          /\ UnderWay("cheer")' = UnderWay("cheer") /\ UnderWay("uncheer") \in Nat
      BY <1>2, <1>8, <2>1, WayMoves DEF Moves, At
    <2>4. CheersCounted'
      BY <1>2, <1>6, <2>2, <2>3 DEF CheersCounted, CounterInv, FeedTables
    <2>. QED  BY <1>4, <1>5, <2>4 DEF CounterInv
  <1>9. CASE ask[a].op = "uncheer" /\ ask[a].by \notin cheers
    <2>1. cheers' = cheers /\ Moves(a, "idle")
      BY <1>9, ThenMoves DEF WriteCheer, At, CounterInv, FeedTables
    <2>2. CheersCounted'
      BY <1>2, <2>1, CheersAlone
    <2>. QED  BY <1>4, <1>5, <2>2 DEF CounterInv
  <1>. QED  BY <1>2, <1>7, <1>8, <1>9

LEMMA CommentWritten ==
  ASSUME CounterInv, NEW a \in Asks, WriteComment(a)
  PROVE  CounterInv'
  <1>1. PICK step \in {"count", "idle"} : Moves(a, step)
    BY ThenMoves DEF WriteComment, CounterInv, FeedTables
  <1>2. /\ ask[a].step = "write" /\ ask[a].op \in {"comment", "delete", "hide", "restore"}
        /\ UNCHANGED <<cheers, cheerCount, reports, reportCount, lost>>
    BY DEF WriteComment, At
  <1>3. PICK c \in Comments : c = ask[a].on
    BY <1>2 DEF CounterInv, FeedTables
  <1>4. /\ comment' = [d \in Comments |-> [state |-> comment'[d].state, hidden |-> comment'[d].hidden]]
        /\ \A d \in Comments : comment'[d].hidden = "no" /\ d \notin cleared'
                                 => comment[d].hidden = "no" /\ d \notin cleared
    <2>. DEFINE Row(d) == [state |-> comment[d].state, hidden |-> comment[d].hidden]
                Hides(value) == comment' = [comment EXCEPT ![c] = [comment[c] EXCEPT !["hidden"] = value]]
    <2>1. comment = [d \in Comments |-> Row(d)]
      BY DEF CounterInv, FeedTables
    <2>2. CASE /\ cleared' = cleared
               /\ \/ comment' = comment
                  \/ \E value : comment' = [comment EXCEPT ![c] = [comment[c] EXCEPT !["state"] = value]]
      BY <2>1, <2>2
    <2>3. ASSUME NEW value, Hides(value)
          PROVE  comment' = [d \in Comments |-> IF d = c THEN [state |-> comment[c].state, hidden |-> value]
                                                ELSE Row(d)]
      <3>1. comment[c] = [state |-> comment[c].state, hidden |-> comment[c].hidden]
        BY <2>1
      <3>2. PICK row : row = [state |-> comment[c].state, hidden |-> value]
        OBVIOUS
      <3>3. [comment[c] EXCEPT !["hidden"] = value] = row
        BY <3>1, <3>2
      <3>4. comment' = [comment EXCEPT ![c] = row]
        BY <2>3, <3>3
      <3>. QED  BY <2>1, <3>2, <3>4
    <2>4. CASE cleared' = cleared /\ Hides("admin")
      BY <2>1, <2>3, <2>4
    <2>5. CASE cleared' = cleared \cup {c} /\ Hides("no")
      <3>1. comment' = [d \in Comments |-> IF d = c THEN [state |-> comment[c].state, hidden |-> "no"]
                                           ELSE Row(d)]
        BY <2>3, <2>5
      <3>2. c \in cleared' /\ cleared \subseteq cleared'
        BY <2>5
      <3>3. \A d \in Comments \ {c} : comment'[d] = comment[d]
        BY <2>1, <3>1
      <3>4. comment' = [d \in Comments |-> [state |-> comment'[d].state, hidden |-> comment'[d].hidden]]
        BY <3>1
      <3>. QED  BY <3>2, <3>3, <3>4
    <2>. QED  BY <1>3, <2>2, <2>4, <2>5 DEF WriteComment
  <1>5. FeedTables'
    BY <1>1, <1>2, <1>4 DEF CounterInv, FeedTables, Moves
  <1>6. CheersCounted' /\ \A d \in Comments : ReportsAreCounted(d)' /\ Tolerated(d)'
    BY <1>1, <1>2, <1>4, CheersAlone, ReportsAlone
  <1>. QED  BY <1>5, <1>6 DEF CounterInv

\* One more report, and its request goes on to count it.
LEMMA ReportWritten ==
  ASSUME CounterInv, NEW a \in Asks, WriteReport(a)
  PROVE  CounterInv'
  <1>1. /\ ask[a].step = "write" /\ ask[a].op = "report" /\ ask[a].by \in Viewers
        /\ UNCHANGED <<cheers, cheerCount, comment, reportCount, cleared, lost>>
    BY DEF WriteReport, At, CounterInv, FeedTables
  <1>2. PICK c \in Comments, v \in Viewers : c = ask[a].on /\ v = ask[a].by
    BY <1>1 DEF CounterInv, FeedTables
  <1>3. /\ reports' = [reports EXCEPT ![c] = @ \cup {v}]
        /\ reports' \in [Comments -> SUBSET Viewers]
    BY <1>2 DEF WriteReport, CounterInv, FeedTables
  <1>4. CASE v \in reports[c]
    <2>1. Moves(a, "idle")
      BY <1>2, <1>4, ThenMoves DEF WriteReport, CounterInv, FeedTables
    <2>2. reports' = reports
      BY <1>3, <1>4 DEF CounterInv, FeedTables
    <2>3. FeedTables'
      BY <1>1, <1>3, <2>1 DEF CounterInv, FeedTables, Moves
    <2>4. CheersCounted' /\ \A d \in Comments : ReportsAreCounted(d)' /\ Tolerated(d)'
      BY <1>1, <2>1, <2>2, CheersAlone, ReportsAlone
    <2>. QED  BY <2>3, <2>4 DEF CounterInv
  <1>5. CASE v \notin reports[c]
    <2>1. Moves(a, "count")
      BY <1>2, <1>5, ThenMoves DEF WriteReport, CounterInv, FeedTables
    <2>2. FeedTables'
      BY <1>1, <1>2, <1>3, <2>1 DEF CounterInv, FeedTables, Moves
    <2>3. CheersCounted'
      BY <1>1, <2>1, CheersAlone
    <2>4. ASSUME NEW d \in Comments PROVE ReportsAreCounted(d)' /\ Tolerated(d)'
      <3>1. Cardinality(reports[d]) \in Nat
        BY PlazaConstants, FS_Subset, FS_CardinalityType DEF CounterInv, FeedTables
      <3>2. Under("hide", "report", d)' = Under("hide", "report", d)
            /\ Under("count", "report", d) \in Nat /\ Under("hide", "report", d) \in Nat
        BY <1>1, <2>1, BusyMoves DEF Moves, At
      <3>3. CASE d = c
        <4>1. Cardinality(reports'[d]) = Cardinality(reports[d]) + 1
          <5>1. IsFiniteSet(reports[d]) /\ reports'[d] = reports[d] \cup {v} /\ v \notin reports[d]
            BY <1>3, <1>5, <3>3, PlazaConstants, FS_Subset DEF CounterInv, FeedTables
          <5>. QED  BY <5>1, FS_AddElement
        <4>2. Under("count", "report", d)' = Under("count", "report", d) + 1
          BY <1>1, <1>2, <2>1, <3>3, BusyMoves DEF Moves, At
        <4>. QED
          BY <1>1, <3>1, <3>2, <4>1, <4>2, PlazaConstants DEF CounterInv, FeedTables, ReportsAreCounted, Tolerated
      <3>4. CASE d # c
        <4>1. reports'[d] = reports[d]
          BY <1>3, <3>4 DEF CounterInv, FeedTables
        <4>2. Under("count", "report", d)' = Under("count", "report", d)
          BY <1>1, <1>2, <2>1, <3>4, BusyMoves DEF Moves, At
        <4>. QED  BY <1>1, <3>2, <4>1, <4>2 DEF CounterInv, ReportsAreCounted, Tolerated
      <3>. QED  BY <3>3, <3>4
    <2>. QED  BY <2>2, <2>3, <2>4 DEF CounterInv
  <1>. QED  BY <1>4, <1>5

LEMMA CheerCounted ==
  ASSUME CounterInv, NEW a \in Asks, CountCheer(a)
  PROVE  CounterInv'
  <1>1. Moves(a, "idle")
    BY ThenMoves DEF CountCheer, CounterInv, FeedTables
  <1>2. /\ ask[a].step = "count" /\ ask[a].op \in {"cheer", "uncheer"}
        /\ UNCHANGED <<cheers, comment, reports, reportCount, cleared, lost>>
        /\ cheerCount' = IF ask[a].op = "cheer" THEN cheerCount + 1
                         ELSE IF cheerCount = 0 THEN 0 ELSE cheerCount - 1
    BY DEF CountCheer, At, Less
  <1>3. cheerCount' \in Nat
    BY <1>2 DEF CounterInv, FeedTables
  <1>4. FeedTables'
    BY <1>1, <1>2, <1>3 DEF CounterInv, FeedTables, Moves
  <1>5. \A c \in Comments : ReportsAreCounted(c)' /\ Tolerated(c)'
    <2>1. ask[a].op # "report" /\ UNCHANGED <<comment, reports, reportCount, cleared, lost>>
      BY <1>2
    <2>. QED  BY <1>1, <2>1, ReportsElsewhere
  <1>6. Cardinality(cheers) \in Nat
    BY PlazaConstants, FS_Subset, FS_CardinalityType DEF CounterInv, FeedTables
  <1>7. /\ UnderWay("cheer") \in Nat /\ UnderWay("uncheer") \in Nat
        /\ UnderWay("cheer")' \in Nat /\ UnderWay("uncheer")' \in Nat
        /\ UnderWay("cheer") = UnderWay("cheer")' + (IF ask[a].op = "cheer" THEN 1 ELSE 0)
        /\ UnderWay("uncheer") = UnderWay("uncheer")' + (IF ask[a].op = "cheer" THEN 0 ELSE 1)
    BY <1>1, <1>2, WayMoves DEF Moves, At
  <1>8. CheersCounted'
    BY <1>2, <1>6, <1>7 DEF CheersCounted, CounterInv, FeedTables
  <1>. QED  BY <1>4, <1>5, <1>8 DEF CounterInv

\* The count the UPDATE returned hides the comment, if it is enough.
LEMMA ReportCounted ==
  ASSUME CounterInv, NEW a \in Asks, CountReport(a)
  PROVE  CounterInv'
  <1>1. /\ ask[a].step = "count" /\ ask[a].op = "report"
        /\ UNCHANGED <<cheers, cheerCount, comment, reports, cleared, lost>>
    BY DEF CountReport, At
  <1>2. PICK c \in Comments : c = ask[a].on
    BY <1>1 DEF CounterInv, FeedTables
  <1>3. reportCount' = [reportCount EXCEPT ![c] = @ + 1] /\ reportCount' \in [Comments -> Nat]
    BY <1>2 DEF CountReport, CounterInv, FeedTables
  <1>4. PICK step \in {"hide", "idle"} :
          /\ Moves(a, step)
          /\ step = "idle" => reportCount'[c] < HideAt \/ comment[c].hidden # "no"
    <2>1. CASE Enough(reportCount'[c]) /\ comment[c].hidden = "no"
      BY <1>2, <2>1, ThenMoves DEF CountReport, CounterInv, FeedTables
    <2>2. CASE ~(Enough(reportCount'[c]) /\ comment[c].hidden = "no")
      BY <1>2, <1>3, <2>2, ThenMoves, PlazaConstants DEF CountReport, CounterInv, FeedTables, Enough
    <2>. QED  BY <2>1, <2>2
  <1>5. FeedTables'
    BY <1>1, <1>2, <1>3, <1>4 DEF CounterInv, FeedTables, Moves
  <1>6. CheersCounted'
    BY <1>1, <1>4, CheersAlone
  <1>7. ASSUME NEW d \in Comments PROVE ReportsAreCounted(d)' /\ Tolerated(d)'
    <2>1. Cardinality(reports[d]) \in Nat /\ reports'[d] = reports[d]
      BY <1>1, PlazaConstants, FS_Subset, FS_CardinalityType DEF CounterInv, FeedTables
    <2>2. /\ Under("count", "report", d) \in Nat /\ Under("hide", "report", d) \in Nat
          /\ Under("count", "report", d)' \in Nat
          /\ Under("hide", "report", d)' = Under("hide", "report", d)
                                           + (IF d = c /\ step = "hide" THEN 1 ELSE 0)
          /\ Under("count", "report", d) = Under("count", "report", d)' + (IF d = c THEN 1 ELSE 0)
      BY <1>1, <1>2, <1>4, BusyMoves DEF Moves, At
    <2>3. reportCount'[d] = reportCount[d] + (IF d = c THEN 1 ELSE 0) /\ reportCount[d] \in Nat
      BY <1>3 DEF CounterInv, FeedTables
    <2>4. ReportsAreCounted(d)'
      BY <1>1, <2>1, <2>2, <2>3 DEF CounterInv, FeedTables, ReportsAreCounted
    <2>5. CASE d = c /\ step = "idle"
      <3>1. comment'[d] = comment[d] /\ lost \in Nat /\ lost' = lost
        BY <1>1 DEF CounterInv, FeedTables
      <3>2. ASSUME reportCount'[c] < HideAt PROVE Tolerated(d)'
        BY <1>3, <2>1, <2>2, <2>4, <2>5, <3>1, <3>2, PlazaConstants DEF Tolerated, ReportsAreCounted
      <3>. QED  BY <1>4, <2>4, <2>5, <3>1, <3>2 DEF Tolerated
    <2>6. CASE d # c \/ step = "hide"
      <3>1. /\ comment'[d] = comment[d] /\ cleared' = cleared /\ lost \in Nat /\ lost' = lost
            /\ HideAt \in Nat /\ Tolerated(d)
        BY <1>1, PlazaConstants DEF CounterInv, FeedTables
      <3>2. Under("count", "report", d)' + Under("hide", "report", d)'
              = Under("count", "report", d) + Under("hide", "report", d)
        BY <2>2, <2>6
      <3>. QED  BY <2>1, <2>2, <2>4, <3>1, <3>2 DEF Tolerated
    <2>. QED  BY <1>4, <2>4, <2>5, <2>6
  <1>. QED  BY <1>5, <1>6, <1>7 DEF CounterInv

\* The request that hides a comment leaves the count, and so does a lost one.
LEMMA ReportHidden ==
  ASSUME CounterInv, NEW a \in Asks, HideReported(a)
  PROVE  CounterInv'
  <1>1. /\ Moves(a, "idle") /\ ask[a].step = "hide" /\ ask[a].op = "report"
        /\ UNCHANGED <<cheers, cheerCount, reports, reportCount, cleared, lost>>
    BY ThenMoves DEF HideReported, At, CounterInv, FeedTables
  <1>2. PICK c \in Comments : c = ask[a].on
    BY <1>1 DEF CounterInv, FeedTables
  <1>3. /\ comment' = [d \in Comments |-> [state |-> comment'[d].state, hidden |-> comment'[d].hidden]]
        /\ comment'[c].hidden = "auto" /\ \A d \in Comments \ {c} : comment'[d] = comment[d]
    <2>1. PICK row : row = [state |-> comment[c].state, hidden |-> "auto"]
      OBVIOUS
    <2>2. comment' = [comment EXCEPT ![c] = row]
      <3>1. comment[c] = [state |-> comment[c].state, hidden |-> comment[c].hidden]
        BY DEF CounterInv, FeedTables
      <3>2. [comment[c] EXCEPT !.hidden = "auto"] = row
        BY <2>1, <3>1
      <3>. QED  BY <1>2, <3>2 DEF HideReported
    <2>. QED  BY <2>1, <2>2 DEF CounterInv, FeedTables
  <1>4. FeedTables'
    BY <1>1, <1>3 DEF CounterInv, FeedTables, Moves
  <1>5. CheersCounted'
    BY <1>1, CheersAlone
  <1>6. ASSUME NEW d \in Comments PROVE ReportsAreCounted(d)' /\ Tolerated(d)'
    <2>1. Under("count", "report", d)' = Under("count", "report", d)
      BY <1>1, BusyMoves DEF Moves, At
    <2>2. d # c => Under("hide", "report", d)' = Under("hide", "report", d)
      BY <1>1, <1>2, BusyMoves DEF Moves, At
    <2>. QED  BY <1>1, <1>3, <2>1, <2>2 DEF CounterInv, ReportsAreCounted, Tolerated
  <1>. QED  BY <1>4, <1>5, <1>6 DEF CounterInv

LEMMA RequestLost ==
  ASSUME CounterInv, NEW a \in Asks, LoseRequest(a)
  PROVE  CounterInv'
  <1>1. /\ Moves(a, "idle") /\ ask[a].step \in {"count", "hide"} /\ lost' = lost + 1
        /\ UNCHANGED <<cheers, cheerCount, comment, reports, reportCount, cleared>>
    BY ThenMoves DEF LoseRequest, feedRows, CounterInv, FeedTables
  <1>2. FeedTables'
    BY <1>1 DEF CounterInv, FeedTables, Moves
  <1>3. CheersCounted'
    <2>1. Cardinality(cheers) \in Nat
      BY PlazaConstants, FS_Subset, FS_CardinalityType DEF CounterInv, FeedTables
    <2>2. /\ UnderWay("cheer") \in Nat /\ UnderWay("cheer")' \in Nat
          /\ UnderWay("uncheer") \in Nat /\ UnderWay("uncheer")' \in Nat
          /\ UnderWay("cheer") <= UnderWay("cheer")' + 1
          /\ UnderWay("uncheer")' <= UnderWay("uncheer")
      BY <1>1, WayMoves DEF Moves, At
    <2>3. cheers' = cheers /\ cheerCount' = cheerCount /\ cheerCount \in Nat /\ lost \in Nat
      BY <1>1 DEF CounterInv, FeedTables
    <2>. QED  BY <1>1, <2>1, <2>2, <2>3 DEF CounterInv, CheersCounted
  <1>4. ASSUME NEW c \in Comments PROVE ReportsAreCounted(c)' /\ Tolerated(c)'
    <2>1. Cardinality(reports[c]) \in Nat /\ reports' = reports
      BY <1>1, PlazaConstants, FS_Subset, FS_CardinalityType DEF CounterInv, FeedTables
    <2>2. /\ Under("count", "report", c) \in Nat /\ Under("count", "report", c)' \in Nat
          /\ Under("hide", "report", c) \in Nat /\ Under("hide", "report", c)' \in Nat
          /\ Under("count", "report", c) <= Under("count", "report", c)' + 1
          /\ Under("count", "report", c) + Under("hide", "report", c)
               <= Under("count", "report", c)' + Under("hide", "report", c)' + 1
      <3>1. CASE ask[a].step = "count"
        BY <1>1, <3>1, BusyMoves DEF Moves, At
      <3>2. CASE ask[a].step = "hide"
        BY <1>1, <3>2, BusyMoves DEF Moves, At
      <3>. QED  BY <1>1, <3>1, <3>2
    <2>3. /\ comment' = comment /\ cleared' = cleared /\ reportCount' = reportCount
          /\ reportCount[c] \in Nat /\ lost \in Nat /\ HideAt \in Nat
      BY <1>1, PlazaConstants DEF CounterInv, FeedTables
    <2>. QED  BY <1>1, <2>1, <2>2, <2>3 DEF CounterInv, ReportsAreCounted, Tolerated
  <1>. QED  BY <1>2, <1>3, <1>4 DEF CounterInv

\* What leaves the counted rows, the counters and the steps of the requests.
countedRows == <<cheers, cheerCount, comment, reports, reportCount, cleared, lost, ask>>

LEMMA RowsLasted ==
  ASSUME CounterInv, UNCHANGED countedRows
  PROVE  CounterInv'
  <1>1. /\ cheers' = cheers /\ cheerCount' = cheerCount /\ comment' = comment /\ lost' = lost
        /\ reports' = reports /\ reportCount' = reportCount /\ cleared' = cleared /\ ask' = ask
    BY DEF countedRows
  <1>2. FeedTables'
    BY <1>1 DEF CounterInv, FeedTables, RequestTable
  <1>3. CheersCounted'
    BY <1>1 DEF CounterInv, CheersCounted, UnderWay, At
  <1>4. ASSUME NEW c \in Comments PROVE ReportsAreCounted(c)' /\ Tolerated(c)'
    BY <1>1 DEF CounterInv, ReportsAreCounted, Tolerated, Under, At
  <1>. QED  BY <1>2, <1>3, <1>4 DEF CounterInv

LEMMA RequestMade ==
  ASSUME CounterInv, NEW a \in Asks, NEW op, NEW v \in Viewers, NEW c \in Comments, Ask(a, op, v, c)
  PROVE  CounterInv'
  <1>1. /\ ask[a].step = "idle" /\ ask' = [ask EXCEPT ![a] = [step |-> "write", op |-> op, by |-> v, on |-> c]]
        /\ UNCHANGED <<cheers, cheerCount, comment, reports, reportCount, cleared, lost>>
    BY DEF Ask, feedRows
  <1>2. /\ RequestTable' /\ \A b \in Asks \ {a} : ask'[b] = ask[b]
        /\ ask'[a].step = "write" /\ ask'[a].by = v /\ ask'[a].on = c
    BY <1>1 DEF RequestTable, CounterInv, FeedTables
  <1>3. FeedTables'
    BY <1>1, <1>2 DEF CounterInv, FeedTables
  <1>4. UnderWay("cheer")' = UnderWay("cheer") /\ UnderWay("uncheer")' = UnderWay("uncheer")
    BY <1>1, <1>2, WayMoves DEF At
  <1>5. CheersCounted'
    BY <1>1, <1>4 DEF CounterInv, CheersCounted
  <1>6. ASSUME NEW d \in Comments PROVE ReportsAreCounted(d)' /\ Tolerated(d)'
    <2>1. /\ Under("count", "report", d)' = Under("count", "report", d)
          /\ Under("hide", "report", d)' = Under("hide", "report", d)
      BY <1>1, <1>2, BusyMoves DEF At
    <2>. QED  BY <1>1, <2>1 DEF CounterInv, ReportsAreCounted, Tolerated
  <1>. QED  BY <1>3, <1>5, <1>6 DEF CounterInv

LEMMA CountersKept ==
  ASSUME CounterInv, [PlazaNext]_plazaVars
  PROVE  CounterInv'
  <1>1. ASSUME NEW a \in Asks, FeedStep(a) PROVE CounterInv'
    <2>1. CASE CountComment(a)
      <3>1. /\ Moves(a, "idle") /\ ask[a].op \in {"comment", "delete"}
            /\ UNCHANGED <<cheers, cheerCount, comment, reports, reportCount, cleared, lost>>
        BY <2>1, ThenMoves DEF CountComment, At, CounterInv, FeedTables
      <3>2. FeedTables'
        BY <3>1 DEF CounterInv, FeedTables, Moves
      <3>3. CheersCounted'
        BY <3>1, CheersAlone
      <3>4. ask[a].op # "report"
        BY <3>1
      <3>5. \A c \in Comments : ReportsAreCounted(c)' /\ Tolerated(c)'
        BY <3>1, <3>4, ReportsElsewhere
      <3>. QED  BY <3>2, <3>3, <3>5 DEF CounterInv
    <2>2. CASE ResolveReports(a)
      <3>1. /\ Moves(a, "idle") /\ ask[a].op \in {"hide", "restore"}
            /\ UNCHANGED <<cheers, cheerCount, comment, reports, reportCount, cleared, lost>>
        BY <2>2, ThenMoves DEF ResolveReports, At, CounterInv, FeedTables
      <3>2. FeedTables'
        BY <3>1 DEF CounterInv, FeedTables, Moves
      <3>3. CheersCounted'
        BY <3>1, CheersAlone
      <3>4. ask[a].op # "report"
        BY <3>1
      <3>5. \A c \in Comments : ReportsAreCounted(c)' /\ Tolerated(c)'
        BY <3>1, <3>4, ReportsElsewhere
      <3>. QED  BY <3>2, <3>3, <3>5 DEF CounterInv
    <2>. QED
      BY <1>1, <2>1, <2>2, CheerWritten, CommentWritten, ReportWritten, CheerCounted, ReportCounted,
         ReportHidden, RequestLost DEF FeedStep
  <1>2. CASE HideActivity \/ \E action \in {"hide", "restore"} : ModerateActivity(action)
    BY <1>2, RowsLasted DEF HideActivity, ModerateActivity, feedRows, countedRows
  <1>3. CASE WeekStep
    <2>1. CASE StopTick
      <3>1. /\ lost' = lost + 1
            /\ UNCHANGED <<cheers, cheerCount, comment, reports, reportCount, cleared, ask>>
        BY <2>1 DEF StopTick, feedVars, feedRows
      <3>2. FeedTables'
        BY <3>1 DEF CounterInv, FeedTables, RequestTable
      <3>3. CheersCounted'
        <4>1. /\ UnderWay("cheer")' = UnderWay("cheer") /\ UnderWay("uncheer")' = UnderWay("uncheer")
              /\ UnderWay("cheer") \in Nat /\ UnderWay("uncheer") \in Nat
              /\ Cardinality(cheers) \in Nat
          BY <3>1, PlazaConstants, FS_Subset, FS_CardinalityType
             DEF UnderWay, At, CounterInv, FeedTables
        <4>. QED  BY <3>1, <4>1 DEF CounterInv, FeedTables, CheersCounted
      <3>4. ASSUME NEW c \in Comments PROVE ReportsAreCounted(c)' /\ Tolerated(c)'
        <4>1. /\ Under("count", "report", c)' = Under("count", "report", c)
              /\ Under("hide", "report", c)' = Under("hide", "report", c)
          BY <3>1 DEF Under, At
        <4>2. /\ Under("count", "report", c) \in Nat /\ Under("hide", "report", c) \in Nat
              /\ Cardinality(reports[c]) \in Nat /\ reportCount[c] \in Nat
              /\ lost \in Nat /\ HideAt \in Nat
          BY PlazaConstants, FS_Subset, FS_CardinalityType DEF Under, At, CounterInv, FeedTables
        <4>. QED  BY <3>1, <4>1, <4>2 DEF CounterInv, ReportsAreCounted, Tolerated
      <3>. QED  BY <3>2, <3>3, <3>4 DEF CounterInv
    <2>2. CASE ~StopTick
      <3>1. UNCHANGED <<feedVars, lost>>
        BY <1>3, <2>2
           DEF WeekStep, BeginTick, NextScope, BeginRecap, EndRecap, Perform, WeekClock
      <3>. QED  BY <3>1, RowsLasted DEF feedVars, feedRows, countedRows
    <2>. QED  BY <2>1, <2>2
  <1>4. ASSUME NEW u, NEW amount, Earn(u, amount) PROVE CounterInv'
    BY <1>4, RowsLasted DEF Earn, feedVars, feedRows, countedRows
  <1>5. CASE UNCHANGED plazaVars
    BY <1>5, RowsLasted DEF plazaVars, feedVars, feedRows, countedRows
  <1>. QED  BY <1>1, <1>2, <1>3, <1>4, <1>5, RequestMade DEF PlazaNext

LEMMA CountersAtFirst ==
  ASSUME PlazaInit
  PROVE  CounterInv
  <1>1. /\ cheers = {} /\ cheerCount = 0 /\ lost = 0 /\ Cardinality(cheers) = 0
        /\ \A c \in Comments : reports[c] = {} /\ reportCount[c] = 0 /\ Cardinality(reports[c]) = 0
    BY FS_EmptySet DEF PlazaInit
  <1>2. \A a \in Asks : ask[a].step = "idle"
    BY DEF PlazaInit, NoRequest
  <1>3. RequestTable
    <2>1. PICK r : r = NoRequest
      OBVIOUS
    <2>2. PICK c : c = CHOOSE d \in Comments : TRUE
      OBVIOUS
    <2>3. r = [step |-> "idle", op |-> "cheer", by |-> Owner, on |-> c]
      BY <2>1, <2>2 DEF NoRequest
    <2>4. r = [step |-> r.step, op |-> r.op, by |-> r.by, on |-> r.on]
      BY <2>3
    <2>. QED  BY <2>1, <2>4 DEF PlazaInit, RequestTable
  <1>4. FeedTables
    BY <1>1, <1>2, <1>3 DEF PlazaInit, FeedTables
  <1>5. UnderWay("uncheer") = 0 /\ UnderWay("cheer") \in Nat
    <2>1. {a \in Asks : At(a, "count", "uncheer")} = {} /\ {a \in Asks : At(a, "count", "cheer")} = {}
      BY <1>2 DEF At
    <2>. QED  BY <2>1, FS_EmptySet DEF UnderWay
  <1>6. \A c \in Comments : Under("count", "report", c) \in Nat /\ Under("hide", "report", c) \in Nat
    BY PlazaConstants, FS_Subset, FS_CardinalityType DEF Under
  <1>. QED  BY <1>1, <1>4, <1>5, <1>6, PlazaConstants DEF CounterInv, CheersCounted, ReportsAreCounted, Tolerated

\* The counter beside the cheers and the threshold beside the reports catch up with
\* their rows, but for requests under way and lost ones.
THEOREM CountersCorrect == PlazaSpec => []CountersCatchUp
  <1>1. PlazaInit => CounterInv
    BY CountersAtFirst
  <1>2. CounterInv /\ [PlazaNext]_plazaVars => CounterInv'
    BY CountersKept
  <1>3. CounterInv => CountersCatchUp
    <2>1. ASSUME CounterInv, NEW c \in Comments, Cardinality(reports[c]) >= HideAt + lost,
                 Under("count", "report", c) + Under("hide", "report", c) = 0
          PROVE  comment[c].hidden # "no" \/ c \in cleared
      <3>1. /\ Under("count", "report", c) \in Nat /\ Under("hide", "report", c) \in Nat
            /\ Cardinality(reports[c]) \in Nat /\ lost \in Nat /\ HideAt \in Nat
        BY <2>1, PlazaConstants, FS_Subset, FS_CardinalityType DEF Under, CounterInv, FeedTables
      <3>. QED  BY <2>1, <3>1 DEF CounterInv, Tolerated
    <2>. QED  BY <2>1 DEF CounterInv, CheersCounted, CountersCatchUp
  <1>. QED  BY <1>1, <1>2, <1>3, PTL DEF PlazaSpec

-----------------------------------------------------------------------------
(* The weekly standings and the pages of the ranking *)

\* What SetToSeq returns: the members of the set, each once.
LEMMA SetListed ==
  ASSUME NEW S, IsFiniteSet(S)
  PROVE  /\ SetToSeq(S) \in [1..Cardinality(S) -> S] /\ Cardinality(S) \in Nat
         /\ \A x \in S : \E i \in 1..Cardinality(S) : SetToSeq(S)[i] = x
  <1>1. Cardinality(S) \in Nat /\ ExistsBijection(1..Cardinality(S), S)
    BY FS_CardinalityType
  <1>2. \E f \in [1..Cardinality(S) -> S] : IsInjective(f)
    BY <1>1 DEF ExistsBijection, Bijection, Injection
  <1>3. SetToSeq(S) \in [1..Cardinality(S) -> S] /\ IsInjective(SetToSeq(S))
    BY <1>2 DEF SetToSeq
  <1>4. IsFiniteSet(1..Cardinality(S)) /\ Cardinality(1..Cardinality(S)) = Cardinality(S)
    BY <1>1, FS_Interval
  <1>5. SetToSeq(S) \in Injection(1..Cardinality(S), S)
    BY <1>3 DEF Injection
  <1>6. SetToSeq(S) \in Surjection(1..Cardinality(S), S)
    BY <1>4, <1>5, FS_Injection
  <1>. QED  BY <1>1, <1>3, <1>6 DEF Surjection

\* A sequence lists T: its elements are those of T, each at least once.
ListsAll(s, T) ==
  /\ s \in Seq(T)
  /\ \A x \in T : \E i \in 1..Len(s) : s[i] = x

LEMMA EachListed ==
  ASSUME NEW D, IsFiniteSet(D), NEW done, DOMAIN done = D
  PROVE  ListsAll(Each(done), {done[d] : d \in D})
  <1>. PICK table : table = SetToSeq(D)
    OBVIOUS
  <1>1. /\ table \in [1..Cardinality(D) -> D] /\ Cardinality(D) \in Nat
        /\ \A x \in D : \E i \in 1..Cardinality(D) : table[i] = x
    BY SetListed
  <1>2. Each(done) = [i \in 1..Cardinality(D) |-> done[table[i]]]
    BY <1>1 DEF Each
  <1>3. Each(done) \in Seq({done[d] : d \in D}) /\ Len(Each(done)) = Cardinality(D)
    <2>0. PICK S : S = {done[d] : d \in D}
      OBVIOUS
    <2>1. PICK n \in Nat : n = Cardinality(D)
      BY <1>1
    <2>2. \A i \in 1..n : done[table[i]] \in S
      BY <1>1, <2>0, <2>1
    <2>3. Each(done) = [i \in 1..n |-> done[table[i]]]
      BY <1>2, <2>1
    <2>4. Each(done) \in Seq(S) /\ Len(Each(done)) = n
      BY <2>2, <2>3
    <2>. QED  BY <2>0, <2>1, <2>4
  <1>. QED  BY <1>1, <1>2, <1>3 DEF ListsAll

-----------------------------------------------------------------------------
(* FlattenSeq, by its recursion equation *)

Flattens(it, seqs, n) ==
  it = [i \in 1..n |-> IF i = 1 THEN seqs[i] ELSE it[i - 1] \o seqs[i]]

LEMMA FlattenIsIterated ==
  ASSUME NEW seqs, Len(seqs) # 0
  PROVE  FlattenSeq(seqs) = (CHOOSE it : Flattens(it, seqs, Len(seqs)))[Len(seqs)]
  BY DEF FlattenSeq, Flattens

LEMMA FlattenExists ==
  ASSUME NEW seqs, NEW n \in Nat \ {0}
  PROVE  \E it : Flattens(it, seqs, n)
  <1>. DEFINE Bad == {m \in 1..n : ~ \E it : Flattens(it, seqs, m)}
  <1>. SUFFICES ASSUME Bad # {} PROVE FALSE
    OBVIOUS
  <1>1. PICK m \in Bad : \A k \in Bad : m <= k
    <2>1. IsFiniteSet(1..n)
      BY FS_Interval
    <2>2. IsFiniteSet(Bad) /\ \A x \in Bad : x \in Int
      BY <2>1, FS_Subset
    <2>. HIDE DEF Bad
    <2>. QED  BY <2>2, LeastExists
  <1>2. m \in 1..n
    OBVIOUS
  <1>3. m # 1
    <2>1. Flattens([i \in 1..1 |-> seqs[1]], seqs, 1)
      BY DEF Flattens
    <2>. QED  BY <2>1
  <1>4. m - 1 \in 1..n /\ m - 1 \notin Bad
    BY <1>1, <1>2, <1>3
  <1>5. PICK f : Flattens(f, seqs, m - 1)
    BY <1>4
  <1>. DEFINE it == [i \in 1..m |-> IF i = m THEN f[m - 1] \o seqs[m] ELSE f[i]]
  <1>6. ASSUME NEW i \in 1..m
        PROVE  it[i] = IF i = 1 THEN seqs[i] ELSE it[i - 1] \o seqs[i]
    <2>1. CASE i = m
      <3>1. i # 1 /\ i - 1 \in 1..m /\ i - 1 # m /\ i - 1 = m - 1
        BY <1>2, <1>3, <2>1
      <3>2. it[i] = f[m - 1] \o seqs[m] /\ it[i - 1] = f[m - 1]
        BY <2>1, <3>1
      <3>. QED  BY <2>1, <3>1, <3>2
    <2>2. CASE i # m
      <3>1. i \in 1..m - 1 /\ it[i] = f[i] /\ (i # 1 => it[i - 1] = f[i - 1])
        BY <1>2, <2>2
      <3>2. f[i] = IF i = 1 THEN seqs[i] ELSE f[i - 1] \o seqs[i]
        BY <1>5, <3>1 DEF Flattens
      <3>. QED  BY <3>1, <3>2
    <2>. QED  BY <2>1, <2>2
  <1>7. Flattens(it, seqs, m)
    <2>. HIDE DEF it
    <2>1. it = [i \in 1..m |-> it[i]]
      BY DEF it
    <2>. QED  BY <1>6, <2>1 DEF Flattens
  <1>. QED  BY <1>7

LEMMA Joined ==
  ASSUME NEW T, NEW a \in Seq(T), NEW b \in Seq(T)
  PROVE  /\ a \o b \in Seq(T) /\ Len(a) \in Nat /\ Len(b) \in Nat
         /\ Len(a \o b) = Len(a) + Len(b)
         /\ \A i \in 1..Len(a) : (a \o b)[i] = a[i]
         /\ \A i \in 1..Len(b) : (a \o b)[Len(a) + i] = b[i]
  OBVIOUS

\* c holds what the first k of the sequences hold, and nothing else.
Gathers(c, seqs, k) ==
  /\ \A l \in 1..k : \A j \in 1..Len(seqs[l]) : \E i \in 1..Len(c) : c[i] = seqs[l][j]
  /\ \A i \in 1..Len(c) : \E l \in 1..k : \E j \in 1..Len(seqs[l]) : c[i] = seqs[l][j]

LEMMA GatherOne ==
  ASSUME NEW T, NEW seqs, NEW k \in Nat \ {0}, NEW a \in Seq(T), seqs[k] \in Seq(T),
         Gathers(a, seqs, k - 1)
  PROVE  a \o seqs[k] \in Seq(T) /\ Gathers(a \o seqs[k], seqs, k)
  <1>. PICK b, c : b = seqs[k] /\ c = a \o seqs[k]
    OBVIOUS
  <1>1. /\ c \in Seq(T) /\ Len(a) \in Nat /\ Len(b) \in Nat /\ Len(c) = Len(a) + Len(b)
        /\ \A i \in 1..Len(a) : c[i] = a[i]
        /\ \A i \in 1..Len(b) : c[Len(a) + i] = b[i]
    BY Joined
  <1>2. ASSUME NEW l \in 1..k, NEW j \in 1..Len(seqs[l])
        PROVE  \E i \in 1..Len(c) : c[i] = seqs[l][j]
    <2>1. CASE l = k
      <3>1. j \in 1..Len(b) /\ seqs[l] = b
        BY <2>1
      <3>2. Len(a) + j \in 1..Len(c) /\ c[Len(a) + j] = b[j]
        BY <1>1, <3>1
      <3>. QED  BY <3>1, <3>2
    <2>2. CASE l # k
      <3>1. l \in 1..k - 1
        BY <2>2
      <3>2. PICK i \in 1..Len(a) : a[i] = seqs[l][j]
        BY <3>1 DEF Gathers
      <3>. QED  BY <1>1, <3>2
    <2>. QED  BY <2>1, <2>2
  <1>3. ASSUME NEW i \in 1..Len(c)
        PROVE  \E l \in 1..k : \E j \in 1..Len(seqs[l]) : c[i] = seqs[l][j]
    <2>1. CASE i <= Len(a)
      <3>1. i \in 1..Len(a) /\ c[i] = a[i]
        BY <1>1, <2>1
      <3>2. PICK l \in 1..k - 1 : \E j \in 1..Len(seqs[l]) : a[i] = seqs[l][j]
        BY <3>1 DEF Gathers
      <3>. QED  BY <3>1, <3>2
    <2>2. CASE i > Len(a)
      <3>. PICK j : j = i - Len(a)
        OBVIOUS
      <3>1. j \in 1..Len(b) /\ i = Len(a) + j
        BY <1>1, <2>2
      <3>2. c[i] = seqs[k][j] /\ k \in 1..k /\ j \in 1..Len(seqs[k])
        BY <1>1, <3>1
      <3>. QED  BY <3>2
    <2>. QED  BY <1>1, <2>1, <2>2
  <1>. QED  BY <1>1, <1>2, <1>3 DEF Gathers

\* It lists what its parts list.
LEMMA FlattenLists ==
  ASSUME NEW D, IsFiniteSet(D), NEW done, DOMAIN done = D,
         NEW T, \A d \in D : done[d] \in Seq(T)
  PROVE  /\ EachInTurn(done) \in Seq(T)
         /\ \A d \in D : \A j \in 1..Len(done[d]) :
              \E i \in 1..Len(EachInTurn(done)) : EachInTurn(done)[i] = done[d][j]
         /\ \A i \in 1..Len(EachInTurn(done)) :
              \E d \in D : \E j \in 1..Len(done[d]) : EachInTurn(done)[i] = done[d][j]
  <1>. PICK seqs : seqs = Each(done)
    OBVIOUS
  <1>1. ListsAll(seqs, {done[d] : d \in D})
    BY EachListed
  <1>2. EachInTurn(done) = FlattenSeq(seqs)
    BY DEF EachInTurn
  <1>3. Len(seqs) \in Nat /\ \A i \in 1..Len(seqs) : \E d \in D : seqs[i] = done[d]
    BY <1>1 DEF ListsAll
  <1>4. \A d \in D : \E i \in 1..Len(seqs) : seqs[i] = done[d]
    BY <1>1 DEF ListsAll
  <1>5. CASE Len(seqs) = 0
    <2>1. FlattenSeq(seqs) = seqs /\ seqs = <<>> /\ D = {}
      BY <1>1, <1>4, <1>5 DEF FlattenSeq, ListsAll
    <2>. QED  BY <1>2, <2>1
  <1>6. CASE Len(seqs) # 0
    <2>. DEFINE N == Len(seqs)
                it == CHOOSE f : Flattens(f, seqs, N)
    <2>1. Flattens(it, seqs, N) /\ FlattenSeq(seqs) = it[N]
      BY <1>3, <1>6, FlattenExists, FlattenIsIterated
    <2>. HIDE DEF it
    <2>2. /\ it[1] = seqs[1]
          /\ \A k \in 2..N : it[k] = it[k - 1] \o seqs[k]
      <3>1. \A k \in 1..N : it[k] = IF k = 1 THEN seqs[k] ELSE it[k - 1] \o seqs[k]
        BY <2>1 DEF Flattens
      <3>2. 1 \in 1..N /\ 2..N \subseteq 1..N /\ \A k \in 2..N : k # 1
        BY <1>3, <1>6
      <3>. QED  BY <3>1, <3>2
    <2>3. \A k \in 1..N : seqs[k] \in Seq(T)
      BY <1>3
    <2>. DEFINE Good(k) == it[k] \in Seq(T) /\ Gathers(it[k], seqs, k)
    <2>4. Good(1)
      BY <1>3, <1>6, <2>2, <2>3 DEF Gathers
    <2>. HIDE DEF Good
    <2>5. ASSUME NEW k \in 2..N, Good(k - 1) PROVE Good(k)
      <3>1. k \in 1..N /\ k - 1 \in 1..N /\ k \in Nat
        BY <1>3
      <3>2. it[k] = it[k - 1] \o seqs[k] /\ it[k - 1] \in Seq(T) /\ seqs[k] \in Seq(T)
        BY <2>2, <2>3, <2>5, <3>1 DEF Good
      <3>3. Gathers(it[k - 1], seqs, k - 1)
        BY <2>5 DEF Good
      <3>4. it[k] \in Seq(T) /\ Gathers(it[k], seqs, k)
        BY <3>1, <3>2, <3>3, GatherOne
      <3>. QED  BY <3>4 DEF Good
    <2>6. Good(N)
      <3>. DEFINE Bad == {k \in 1..N : ~Good(k)}
      <3>0. N \in 1..N
        BY <1>3, <1>6
      <3>. SUFFICES ASSUME Bad # {} PROVE FALSE
        BY <3>0
      <3>1. PICK m \in Bad : \A k \in Bad : m <= k
        <4>1. IsFiniteSet(1..N)
          BY <1>3, FS_Interval
        <4>2. IsFiniteSet(Bad) /\ \A x \in Bad : x \in Int
          BY <4>1, FS_Subset
        <4>. HIDE DEF Bad
        <4>. QED  BY <4>2, LeastExists
      <3>2. m \in 1..N /\ m # 1
        BY <2>4
      <3>3. m - 1 \notin Bad /\ m - 1 \in 1..N /\ m \in 2..N
        BY <1>3, <3>1, <3>2
      <3>. QED  BY <2>5, <3>1, <3>3
    <2>7. ASSUME NEW d \in D, NEW j \in 1..Len(done[d])
          PROVE  \E i \in 1..Len(it[N]) : it[N][i] = done[d][j]
      <3>1. PICK l \in 1..N : seqs[l] = done[d]
        BY <1>4
      <3>2. \E i \in 1..Len(it[N]) : it[N][i] = seqs[l][j]
        BY <2>6, <3>1 DEF Good, Gathers
      <3>. QED  BY <3>1, <3>2
    <2>8. ASSUME NEW i \in 1..Len(it[N])
          PROVE  \E d \in D : \E j \in 1..Len(done[d]) : it[N][i] = done[d][j]
      <3>1. PICK l \in 1..N : \E j \in 1..Len(seqs[l]) : it[N][i] = seqs[l][j]
        BY <2>6 DEF Good, Gathers
      <3>. QED  BY <1>3, <3>1
    <2>. QED  BY <1>2, <2>1, <2>6, <2>7, <2>8 DEF Good
  <1>. QED  BY <1>3, <1>5, <1>6

-----------------------------------------------------------------------------
(* The order of the board *)

LEMMA IdsDiffer ==
  /\ UserId \in [Climbers -> 1..Cardinality(Climbers)] /\ Cardinality(Climbers) \in Nat
  /\ \A u, v \in Climbers : UserId[u] = UserId[v] => u = v
  <1>1. Cardinality(Climbers) \in Nat /\ ExistsBijection(1..Cardinality(Climbers), Climbers)
    BY BoardConstants, FS_CardinalityType
  <1>2. ExistsBijection(Climbers, 1..Cardinality(Climbers))
    BY <1>1, Fun_ExistsBijSymmetric
  <1>3. \E id \in [Climbers -> 1..Cardinality(Climbers)] : IsInjective(id)
    BY <1>2 DEF ExistsBijection, Bijection, Injection
  <1>4. UserId \in [Climbers -> 1..Cardinality(Climbers)] /\ IsInjective(UserId)
    BY <1>3 DEF UserId
  <1>. QED  BY <1>1, <1>4 DEF IsInjective

Sorted(s, users, rank) ==
  /\ Cardinality(users) \in Nat /\ s \in [1..Cardinality(users) -> users]
  /\ \A u \in users : \E i \in 1..Cardinality(users) : s[i] = u
  /\ \A i, j \in 1..Cardinality(users) : i < j => rank[s[i]] <= rank[s[j]]
  /\ \A i, j \in 1..Cardinality(users) : s[i] = s[j] => i = j

\* InRankOrder returns every user once, no rank before a smaller one.
LEMMA RankOrder ==
  ASSUME NEW users, users \subseteq Climbers, NEW rank, \A u \in users : rank[u] \in Nat
  PROVE  Sorted(InRankOrder(users, rank), users, rank)
  <1>. DEFINE Behind(u) == Before(users, rank, u)
              n == Cardinality(users)
  <1>1. IsFiniteSet(users) /\ n \in Nat
    BY BoardConstants, FS_Subset, FS_CardinalityType
  <1>2. \A u \in users : UserId[u] \in Nat
    BY IdsDiffer
  <1>3. \A u, v \in users : v \in Behind(u) => u \notin Behind(v) /\ rank[v] <= rank[u]
    BY <1>2 DEF Before
  <1>4. \A u, v \in users : u # v => u \in Behind(v) \/ v \in Behind(u)
    <2>. SUFFICES ASSUME NEW u \in users, NEW v \in users, u # v
                  PROVE  u \in Behind(v) \/ v \in Behind(u)
      OBVIOUS
    <2>1. UserId[u] < UserId[v] \/ UserId[v] < UserId[u]
      BY <1>2, IdsDiffer
    <2>2. rank[u] < rank[v] \/ rank[u] = rank[v] \/ rank[v] < rank[u]
      OBVIOUS
    <2>. QED  BY <2>1, <2>2 DEF Before
  <1>5. \A u, v \in users : v \in Behind(u) => Behind(v) \subseteq Behind(u)
    <2>. SUFFICES ASSUME NEW u \in users, NEW v \in users, v \in Behind(u), NEW x \in Behind(v)
                  PROVE  x \in Behind(u)
      OBVIOUS
    <2>1. x \in users
      BY DEF Before
    <2>. QED  BY <1>2, <2>1 DEF Before
  <1>6. \A u \in users : Behind(u) \subseteq users
    BY DEF Before
  <1>. HIDE DEF Behind
  <1>7. \A u \in users : IsFiniteSet(Behind(u)) /\ Cardinality(Behind(u)) \in Nat
    BY <1>1, <1>6, FS_Subset, FS_CardinalityType
  <1>8. \A u, v \in users : v \in Behind(u) => Cardinality(Behind(v)) < Cardinality(Behind(u))
    <2>. SUFFICES ASSUME NEW u \in users, NEW v \in users, v \in Behind(u)
                  PROVE  Cardinality(Behind(v)) < Cardinality(Behind(u))
      OBVIOUS
    <2>1. Behind(v) \in SUBSET Behind(u) /\ Behind(v) # Behind(u)
      BY <1>3, <1>5
    <2>2. Cardinality(Behind(v)) <= Cardinality(Behind(u))
          /\ Cardinality(Behind(v)) # Cardinality(Behind(u))
      BY <1>7, <2>1, FS_Subset
    <2>. QED  BY <1>7, <2>2
  <1>9. \A u \in users : Cardinality(Behind(u)) + 1 \in 1..n
    <2>. SUFFICES ASSUME NEW u \in users PROVE Cardinality(Behind(u)) < n
      BY <1>1, <1>7
    <2>1. Behind(u) \in SUBSET users /\ Behind(u) # users
      BY <1>3, <1>6
    <2>2. Cardinality(Behind(u)) <= n /\ Cardinality(Behind(u)) # n
      BY <1>1, <2>1, FS_Subset
    <2>. QED  BY <1>1, <1>7, <2>2
  <1>10. \A u, v \in users : Cardinality(Behind(u)) = Cardinality(Behind(v)) => u = v
    BY <1>4, <1>7, <1>8
  <1>11. \A i \in 1..n : \E u \in users : Cardinality(Behind(u)) = i - 1
    <2>. DEFINE place == [u \in users |-> Cardinality(Behind(u)) + 1]
    <2>1. IsFiniteSet(1..n) /\ Cardinality(1..n) = n
      BY <1>1, FS_Interval
    <2>2. place \in Injection(users, 1..n)
      <3>1. place \in [users -> 1..n]
        BY <1>9
      <3>2. \A u, v \in users : place[u] = place[v] => u = v
        BY <1>7, <1>10
      <3>. QED  BY <3>1, <3>2 DEF Injection, IsInjective
    <2>3. place \in Surjection(users, 1..n)
      BY <2>1, <2>2, FS_Injection
    <2>4. \A i \in 1..n : \E u \in users : place[u] = i
      BY <2>3 DEF Surjection
    <2>. QED  BY <1>7, <2>4
  <1>. DEFINE s == InRankOrder(users, rank)
  <1>12. s = [i \in 1..n |-> CHOOSE u \in users : Cardinality(Behind(u)) = i - 1]
    BY DEF InRankOrder, Behind
  <1>. HIDE DEF s
  <1>13. \A i \in 1..n : s[i] \in users /\ Cardinality(Behind(s[i])) = i - 1
    BY <1>11, <1>12
  <1>14. s \in [1..n -> users]
    BY <1>12, <1>13
  <1>15. \A u \in users : \E i \in 1..n : s[i] = u
    <2>. SUFFICES ASSUME NEW u \in users PROVE \E i \in 1..n : s[i] = u
      OBVIOUS
    <2>1. PICK i \in 1..n : Cardinality(Behind(u)) + 1 = i
      BY <1>9
    <2>. QED  BY <1>1, <1>7, <1>10, <1>13, <2>1
  <1>16. ASSUME NEW i \in 1..n, NEW j \in 1..n, i < j PROVE rank[s[i]] <= rank[s[j]]
    <2>1. s[i] # s[j] /\ s[j] \notin Behind(s[i])
      BY <1>1, <1>8, <1>13, <1>16
    <2>. QED  BY <1>3, <1>4, <1>13, <2>1
  <1>17. \A i, j \in 1..n : s[i] = s[j] => i = j
    BY <1>1, <1>13
  <1>. QED  BY <1>1, <1>14, <1>15, <1>16, <1>17 DEF Sorted, s

-----------------------------------------------------------------------------
(* The weekly jobs *)

\* The rows of the board, and the statements a tick or a recap works off.
BoardRows == [score : 0..BestScore, rank : 0..Cardinality(Climbers), announced : BOOLEAN]

Statements ==
  [do : {"rank", "notify", "post", "flag", "award", "ran"},
   user : Climbers \cup {"finalize", "recap"}, week : 1..LastWeek,
   arg : BoardRows \cup Climbers \cup {"", "champion", "podium", "top10", "recap"}]

WeekTypes ==
  /\ week \in 1..LastWeek /\ part \in {"midnight", "monday", "later"}
  /\ earned \in [1..LastWeek -> [Climbers -> 0..BestScore]]
  /\ board \in [1..LastWeek -> [Climbers -> BoardRows]]
  /\ plan = [scope |-> plan.scope, rest |-> plan.rest]
  /\ plan.scope \in 0..3 /\ plan.rest \in Seq(Statements)

\* What a statement writes is there, or is written before the n-th of the plan.
Promised(seq, n, s, table) ==
  <<s.arg, s.week, s.user>> \in table \/ \E i \in 1..n - 1 : seq[i] = s

Announces(seq, n, w) ==
  \A u \in Winners(w, "live") :
    /\ Promised(seq, n, Do("award", u, w, Place(w, u)), podium)
    /\ Promised(seq, n, Do("post", u, w, "champion"), posted)
    /\ Promised(seq, n, Do("notify", u, w, "champion"), notices)

Recaps(seq, n, w) == \A u \in Climbers : Promised(seq, n, Do("notify", u, w, "recap"), notices)

\* A tick writes the board of this week, and badges of those that ended; a run
\* is recorded after everything it stands for.
Quiet(s) ==
  /\ s.do \notin {"award", "ran"}
  /\ s.do \in {"rank", "flag"} => s.week = week /\ s.user \in Climbers
  /\ s.do = "rank" => s.arg \in BoardRows

IsAward(s) ==
  /\ s.do = "award" /\ s.week \in 1..week - 1
  /\ s.user \in Winners(s.week, "live") /\ s.arg = Place(s.week, s.user)

IsRun(seq, i) ==
  /\ seq[i].do = "ran" /\ seq[i].week \in 1..week - 1
  /\ \/ seq[i].user = "finalize" /\ Announces(seq, i, seq[i].week)
     \/ seq[i].user = "recap" /\ Recaps(seq, i, seq[i].week)

\* The statements that are left, in an order in which none is too early.
PlanLegal(seq) == \A i \in 1..Len(seq) : Quiet(seq[i]) \/ IsAward(seq[i]) \/ IsRun(seq, i)

\* Badges of ended weeks alone, by their last board, which nothing moves.
PodiumEarned ==
  \A k \in podium : \E w \in 1..week - 1 : \E u \in Winners(w, "live") : k = <<Place(w, u), w, u>>

\* What a recorded run stands for is written.
JobsDone ==
  \A w \in 1..LastWeek :
    /\ <<"finalize", w>> \in jobs => w < week /\ Announces(<<>>, 1, w)
    /\ <<"recap", w>> \in jobs => w < week /\ Recaps(<<>>, 1, w)

\* A tick that starts after midnight ends the week before in its first pass.
Finalizes == part # "midnight" /\ week > 1 /\ <<"finalize", week - 1>> \notin jobs

FirstPass ==
  Finalizes /\ plan.scope \in {1, 2} =>
    plan.scope = 1 /\ \E i \in 1..Len(plan.rest) : plan.rest[i] = Do("ran", "finalize", week - 1, "")

\* The inductive invariant.
WeekInv == WeekTypes /\ PlanLegal(plan.rest) /\ PodiumEarned /\ JobsDone /\ FirstPass

LEMMA WinnersAreMembers ==
  ASSUME WeekTypes, NEW w \in 1..LastWeek, NEW scope
  PROVE  /\ Winners(w, scope) \subseteq Members(scope) /\ Members(scope) \subseteq Climbers
         /\ IsFiniteSet(Winners(w, scope))
  <1>. DEFINE users == {u \in Members(scope) : Has(w, u)}
              rank == [u \in Climbers |-> board[w][u].rank]
  <1>1. Members(scope) \subseteq Climbers
    BY PlazaConstants DEF Members
  <1>2. \A u \in users : rank[u] \in Nat
    <2>1. \A u \in Climbers : board[w][u].rank \in 0..Cardinality(Climbers)
      BY DEF WeekTypes, BoardRows
    <2>. QED  BY <1>1, <2>1, IdsDiffer
  <1>3. Sorted(InRankOrder(users, rank), users, rank)
    BY <1>1, <1>2, RankOrder
  <1>4. Winners(w, scope) = {InRankOrder(users, rank)[i] :
                               i \in DOMAIN InRankOrder(users, rank) \cap 1..Winning}
    BY DEF Winners
  <1>5. Winners(w, scope) \subseteq users
    BY <1>3, <1>4 DEF Sorted
  <1>6. Winners(w, scope) \subseteq Members(scope)
    BY <1>5
  <1>. QED  BY <1>1, <1>6, BoardConstants, FS_Subset

LEMMA RanksFit ==
  ASSUME NEW R, R \subseteq Climbers, NEW scores \in [R -> Nat], NEW u \in R
  PROVE  RankOf(scores, u) \in 1..Cardinality(Climbers)
  <1>. PICK above : above = {v \in R : scores[v] > scores[u]}
    OBVIOUS
  <1>1. above \in SUBSET Climbers /\ u \notin above /\ above # Climbers
    <2>1. ~(scores[u] > scores[u])
      OBVIOUS
    <2>. QED  BY <2>1
  <1>2. /\ Cardinality(above) <= Cardinality(Climbers)
        /\ Cardinality(above) # Cardinality(Climbers)
        /\ Cardinality(above) \in Nat /\ Cardinality(Climbers) \in Nat
    BY <1>1, BoardConstants, FS_Subset, FS_CardinalityType
  <1>3. RankOf(scores, u) = 1 + Cardinality(above)
    BY DEF RankOf
  <1>. QED  BY <1>2, <1>3

-----------------------------------------------------------------------------
(* What a tick sets out to do *)

Ranked(scope) == {u \in Members(scope) : earned[week][u] > 0}
ScoresOf(scope) == [u \in Ranked(scope) |-> earned[week][u]]
RankedRow(scope, u) ==
  [Unranked EXCEPT !.score = ScoresOf(scope)[u], !.rank = RankOf(ScoresOf(scope), u)]
PassedPairs(scope) ==
  {p \in Ranked(scope) \X Ranked(scope) :
     /\ Has(week, p[1]) /\ Has(week, p[2])
     /\ RankOf(ScoresOf(scope), p[1]) > board[week][p[1]].rank
     /\ board[week][p[2]].rank > board[week][p[1]].rank
     /\ RankOf(ScoresOf(scope), p[2]) < RankOf(ScoresOf(scope), p[1])}
EnteredUsers(scope) == {u \in Ranked(scope) : ~board[week][u].announced}

RankPart(scope) == Each([u \in Ranked(scope) |-> Do("rank", u, week, RankedRow(scope, u))])
PassPart(scope) == Each([p \in PassedPairs(scope) |-> Do("notify", p[1], week, p[2])])
EnterPart(scope) ==
  EachInTurn([u \in EnteredUsers(scope) |->
                <<Do("post", u, week, "top10"), Do("flag", u, week, "")>>])
EndPart(scope) == IF Finalizes THEN Finalization(week - 1, scope) ELSE <<>>

LEMMA TickParts ==
  ASSUME NEW scope
  PROVE  TickOf(scope) = RankPart(scope) \o PassPart(scope) \o EnterPart(scope) \o EndPart(scope)
  BY DEF TickOf, RankPart, PassPart, EnterPart, EndPart, Ranked, ScoresOf, RankedRow,
         PassedPairs, EnteredUsers, Finalizes

LEMMA TwoSteps ==
  ASSUME NEW T, NEW a \in T, NEW b \in T
  PROVE  /\ <<a, b>> \in Seq(T)
         /\ \A j \in 1..Len(<<a, b>>) : <<a, b>>[j] = a \/ <<a, b>>[j] = b
  OBVIOUS

LEMMA ThreeSteps ==
  ASSUME NEW T, NEW a \in T, NEW b \in T, NEW c \in T
  PROVE  /\ <<a, b, c>> \in Seq(T) /\ Len(<<a, b, c>>) = 3
         /\ <<a, b, c>>[1] = a /\ <<a, b, c>>[2] = b /\ <<a, b, c>>[3] = c
         /\ \A j \in 1..3 : j = 1 \/ j = 2 \/ j = 3
  OBVIOUS

LEMMA QuietDo ==
  ASSUME NEW what \in {"rank", "notify", "post", "flag"}, NEW u \in Climbers,
         NEW w \in 1..LastWeek, what \in {"rank", "flag"} => w = week,
         NEW arg \in BoardRows \cup Climbers \cup {"", "champion", "podium", "top10", "recap"},
         what = "rank" => arg \in BoardRows
  PROVE  Do(what, u, w, arg) \in Statements /\ Quiet(Do(what, u, w, arg))
  <1>. PICK s : s = Do(what, u, w, arg)
    OBVIOUS
  <1>1. s \in Statements /\ s.do = what /\ s.user = u /\ s.week = w /\ s.arg = arg
    <2>1. what \in {"rank", "notify", "post", "flag", "award", "ran"}
          /\ u \in Climbers \cup {"finalize", "recap"}
      OBVIOUS
    <2>. QED  BY <2>1 DEF Do, Statements
  <1>. QED  BY <1>1 DEF Quiet

LEMMA QuietPair ==
  ASSUME NEW a \in Statements, NEW b \in Statements, Quiet(a), Quiet(b)
  PROVE  <<a, b>> \in Seq(Statements) /\ \A j \in 1..Len(<<a, b>>) : Quiet(<<a, b>>[j])
  BY TwoSteps

QuietSeq(seq) == seq \in Seq(Statements) /\ \A i \in 1..Len(seq) : Quiet(seq[i])

LEMMA QuietJoined ==
  ASSUME NEW a, NEW b, QuietSeq(a), QuietSeq(b)
  PROVE  QuietSeq(a \o b)
  <1>. PICK c : c = a \o b
    OBVIOUS
  <1>1. a \in Seq(Statements) /\ b \in Seq(Statements)
    BY DEF QuietSeq
  <1>2. /\ c \in Seq(Statements) /\ Len(a) \in Nat /\ Len(b) \in Nat
        /\ Len(c) = Len(a) + Len(b)
        /\ \A i \in 1..Len(a) : c[i] = a[i]
        /\ \A i \in 1..Len(b) : c[Len(a) + i] = b[i]
    BY <1>1, Joined
  <1>3. ASSUME NEW i \in 1..Len(c) PROVE Quiet(c[i])
    <2>1. CASE i <= Len(a)
      <3>1. i \in 1..Len(a) /\ c[i] = a[i]
        BY <1>2, <2>1
      <3>. QED  BY <3>1 DEF QuietSeq
    <2>2. CASE i > Len(a)
      <3>. PICK j : j = i - Len(a)
        OBVIOUS
      <3>1. j \in 1..Len(b) /\ i = Len(a) + j
        BY <1>2, <2>2
      <3>2. c[i] = b[j] /\ Quiet(b[j])
        BY <1>2, <3>1 DEF QuietSeq
      <3>. QED  BY <3>2
    <2>. QED  BY <1>2, <2>1, <2>2
  <1>. QED  BY <1>2, <1>3 DEF QuietSeq

LEMMA ListedQuiet ==
  ASSUME NEW seq, NEW T, ListsAll(seq, T), T \subseteq Statements, \A s \in T : Quiet(s)
  PROVE  QuietSeq(seq)
  <1>1. seq \in Seq(T)
    BY DEF ListsAll
  <1>2. seq \in Seq(Statements) /\ \A i \in 1..Len(seq) : seq[i] \in T
    BY <1>1
  <1>. QED  BY <1>2 DEF QuietSeq

\* Ranking, telling who was passed and announcing are quiet.
LEMMA RankingQuiet ==
  ASSUME WeekTypes, NEW scope
  PROVE  QuietSeq(RankPart(scope) \o PassPart(scope) \o EnterPart(scope))
  <1>. DEFINE R == Ranked(scope)
  <1>1. R \subseteq Climbers /\ IsFiniteSet(R) /\ week \in 1..LastWeek
    BY PlazaConstants, BoardConstants, FS_Subset DEF Ranked, Members, WeekTypes
  <1>2. ScoresOf(scope) \in [R -> Nat] /\ \A u \in R : ScoresOf(scope)[u] \in 0..BestScore
    <2>1. \A u \in Climbers : earned[week][u] \in 0..BestScore
      BY DEF WeekTypes
    <2>. QED  BY <1>1, <2>1, BoardConstants DEF ScoresOf
  <1>3. \A u \in R : RankedRow(scope, u) \in BoardRows
    <2>. SUFFICES ASSUME NEW u \in R PROVE RankedRow(scope, u) \in BoardRows
      OBVIOUS
    <2>1. RankOf(ScoresOf(scope), u) \in 0..Cardinality(Climbers)
      BY <1>1, <1>2, RanksFit, IdsDiffer
    <2>2. Unranked \in BoardRows
      BY BoardConstants, IdsDiffer DEF Unranked, BoardRows
    <2>3. \A row \in BoardRows : \A k \in 0..BestScore, r \in 0..Cardinality(Climbers) :
             [row EXCEPT !.score = k, !.rank = r] \in BoardRows
      BY DEF BoardRows
    <2>. QED  BY <1>2, <2>1, <2>2, <2>3 DEF RankedRow
  <1>. HIDE DEF R
  <1>4. QuietSeq(RankPart(scope))
    <2>. DEFINE done == [u \in R |-> Do("rank", u, week, RankedRow(scope, u))]
    <2>1. ListsAll(Each(done), {done[u] : u \in R})
      BY <1>1, EachListed
    <2>2. \A u \in R : done[u] \in Statements /\ Quiet(done[u])
      BY <1>1, <1>3, QuietDo
    <2>3. RankPart(scope) = Each(done)
      BY DEF RankPart, R
    <2>. HIDE DEF done
    <2>. QED  BY <2>1, <2>2, <2>3, ListedQuiet
  <1>5. QuietSeq(PassPart(scope))
    <2>. DEFINE P == PassedPairs(scope)
                done == [p \in P |-> Do("notify", p[1], week, p[2])]
    <2>1. IsFiniteSet(P) /\ P \subseteq R \X R
      <3>1. IsFiniteSet(R \X R)
        BY <1>1, FS_Product
      <3>2. P \subseteq R \X R
        BY DEF PassedPairs, R
      <3>. QED  BY <3>1, <3>2, FS_Subset
    <2>. HIDE DEF P
    <2>2. ListsAll(Each(done), {done[p] : p \in P})
      BY <2>1, EachListed
    <2>3. \A p \in P : done[p] \in Statements /\ Quiet(done[p])
      <3>. SUFFICES ASSUME NEW p \in P PROVE done[p] \in Statements /\ Quiet(done[p])
        OBVIOUS
      <3>1. p[1] \in Climbers /\ p[2] \in Climbers
        BY <1>1, <2>1
      <3>. QED  BY <1>1, <3>1, QuietDo
    <2>4. PassPart(scope) = Each(done)
      BY DEF PassPart, P
    <2>. HIDE DEF done
    <2>. QED  BY <2>2, <2>3, <2>4, ListedQuiet
  <1>6. QuietSeq(EnterPart(scope))
    <2>. DEFINE D == EnteredUsers(scope)
                done == [u \in D |-> <<Do("post", u, week, "top10"), Do("flag", u, week, "")>>]
    <2>1. IsFiniteSet(D) /\ D \subseteq Climbers
      BY <1>1, FS_Subset DEF EnteredUsers, R
    <2>. HIDE DEF D
    <2>2. \A u \in D : /\ Do("post", u, week, "top10") \in Statements
                       /\ Do("flag", u, week, "") \in Statements
                       /\ Quiet(Do("post", u, week, "top10")) /\ Quiet(Do("flag", u, week, ""))
      BY <1>1, <2>1, QuietDo
    <2>3. \A u \in D : /\ done[u] \in Seq(Statements)
                       /\ \A j \in 1..Len(done[u]) : Quiet(done[u][j])
      <3>1. \A u \in D : done[u] = <<Do("post", u, week, "top10"), Do("flag", u, week, "")>>
        OBVIOUS
      <3>. HIDE DEF done
      <3>. QED  BY <2>2, <3>1, QuietPair
    <2>4. EnterPart(scope) = EachInTurn(done) /\ DOMAIN done = D
      BY DEF EnterPart, D
    <2>. HIDE DEF done
    <2>5. /\ EnterPart(scope) \in Seq(Statements)
          /\ \A i \in 1..Len(EnterPart(scope)) :
               \E u \in D : \E j \in 1..Len(done[u]) : EnterPart(scope)[i] = done[u][j]
      BY <2>1, <2>3, <2>4, FlattenLists
    <2>. QED  BY <2>3, <2>5 DEF QuietSeq
  <1>7. QuietSeq(RankPart(scope) \o PassPart(scope))
    BY <1>4, <1>5, QuietJoined
  <1>. QED  BY <1>6, <1>7, QuietJoined

LEMMA OwedKept ==
  ASSUME NEW a, NEW b, NEW i, NEW k, NEW s, NEW table,
         \A j \in 1..i - 1 : \E l \in 1..k - 1 : b[l] = a[j],
         Promised(a, i, s, table)
  PROVE  Promised(b, k, s, table)
  BY DEF Promised

LEMMA RunKept ==
  ASSUME NEW a, NEW b, NEW i, NEW k, a[i] = b[k],
         \A j \in 1..i - 1 : \E l \in 1..k - 1 : b[l] = a[j],
         IsRun(a, i)
  PROVE  IsRun(b, k)
  <1>1. ASSUME Announces(a, i, a[i].week) PROVE Announces(b, k, b[k].week)
    BY <1>1, OwedKept DEF Announces
  <1>2. ASSUME Recaps(a, i, a[i].week) PROVE Recaps(b, k, b[k].week)
    BY <1>2, OwedKept DEF Recaps
  <1>. QED  BY <1>1, <1>2 DEF IsRun

\* What ends a week may wait behind what ranks this one.
LEMMA QuietThenLegal ==
  ASSUME NEW a, NEW b \in Seq(Statements), QuietSeq(a), PlanLegal(b)
  PROVE  /\ a \o b \in Seq(Statements) /\ PlanLegal(a \o b)
         /\ \A j \in 1..Len(b) : \E i \in 1..Len(a \o b) : (a \o b)[i] = b[j]
  <1>. PICK c : c = a \o b
    OBVIOUS
  <1>1. a \in Seq(Statements)
    BY DEF QuietSeq
  <1>2. /\ c \in Seq(Statements) /\ Len(a) \in Nat /\ Len(b) \in Nat
        /\ Len(c) = Len(a) + Len(b)
        /\ \A i \in 1..Len(a) : c[i] = a[i]
        /\ \A i \in 1..Len(b) : c[Len(a) + i] = b[i]
    BY <1>1, Joined
  <1>3. ASSUME NEW i \in 1..Len(c) PROVE Quiet(c[i]) \/ IsAward(c[i]) \/ IsRun(c, i)
    <2>1. CASE i <= Len(a)
      <3>1. i \in 1..Len(a) /\ c[i] = a[i]
        BY <1>2, <2>1
      <3>. QED  BY <3>1 DEF QuietSeq
    <2>2. CASE i > Len(a)
      <3>. PICK j : j = i - Len(a)
        OBVIOUS
      <3>1. j \in 1..Len(b) /\ i = Len(a) + j
        BY <1>2, <2>2
      <3>2. c[i] = b[j]
        BY <1>2, <3>1
      <3>3. \A l \in 1..j - 1 : Len(a) + l \in 1..i - 1 /\ c[Len(a) + l] = b[l]
        <4>. SUFFICES ASSUME NEW l \in 1..j - 1
                      PROVE  Len(a) + l \in 1..i - 1 /\ c[Len(a) + l] = b[l]
          OBVIOUS
        <4>1. l \in 1..Len(b) /\ Len(a) + l \in 1..i - 1
          BY <1>2, <3>1
        <4>. QED  BY <1>2, <4>1
      <3>4. \A l \in 1..j - 1 : \E m \in 1..i - 1 : c[m] = b[l]
        BY <3>3
      <3>5. ASSUME IsRun(b, j) PROVE IsRun(c, i)
        <4>1. b[j] = c[i]
          BY <3>2
        <4>. QED  BY <4>1, <3>4, <3>5, RunKept, Zenon
      <3>. QED  BY <3>1, <3>2, <3>5 DEF PlanLegal
    <2>. QED  BY <1>2, <2>1, <2>2
  <1>4. ASSUME NEW j \in 1..Len(b) PROVE \E i \in 1..Len(c) : c[i] = b[j]
    <2>1. Len(a) + j \in 1..Len(c)
      BY <1>2
    <2>. QED  BY <1>2, <2>1
  <1>. QED  BY <1>2, <1>3, <1>4 DEF PlanLegal

\* A run is recorded last.
LEMMA RunsLast ==
  ASSUME NEW e \in Seq(Statements), \A i \in 1..Len(e) : Quiet(e[i]) \/ IsAward(e[i]),
         NEW r \in Statements, r.do = "ran", r.week \in 1..week - 1,
         \/ r.user = "finalize" /\ Announces(e, Len(e) + 1, r.week)
         \/ r.user = "recap" /\ Recaps(e, Len(e) + 1, r.week)
  PROVE  /\ e \o <<r>> \in Seq(Statements) /\ PlanLegal(e \o <<r>>)
         /\ \E i \in 1..Len(e \o <<r>>) : (e \o <<r>>)[i] = r
  <1>. PICK c : c = e \o <<r>>
    OBVIOUS
  <1>1. /\ c \in Seq(Statements) /\ Len(e) \in Nat /\ Len(c) = Len(e) + 1
        /\ \A i \in 1..Len(e) : c[i] = e[i]
        /\ c[Len(e) + 1] = r
    OBVIOUS
  <1>2. \A l \in 1..(Len(e) + 1) - 1 : \E m \in 1..(Len(e) + 1) - 1 : c[m] = e[l]
    BY <1>1
  <1>3. /\ r.user = "finalize" => Announces(c, Len(e) + 1, r.week)
        /\ r.user = "recap" => Recaps(c, Len(e) + 1, r.week)
    <2>1. ASSUME Announces(e, Len(e) + 1, r.week) PROVE Announces(c, Len(e) + 1, r.week)
      BY <1>2, <2>1, OwedKept DEF Announces
    <2>2. ASSUME Recaps(e, Len(e) + 1, r.week) PROVE Recaps(c, Len(e) + 1, r.week)
      BY <1>2, <2>2, OwedKept DEF Recaps
    <2>. QED  BY <2>1, <2>2
  <1>4. IsRun(c, Len(e) + 1)
    BY <1>1, <1>3 DEF IsRun
  <1>5. ASSUME NEW i \in 1..Len(c) PROVE Quiet(c[i]) \/ IsAward(c[i]) \/ IsRun(c, i)
    <2>1. CASE i \in 1..Len(e)
      BY <1>1, <2>1
    <2>2. CASE i \notin 1..Len(e)
      <3>1. i = Len(e) + 1
        BY <1>1, <2>2
      <3>. QED  BY <1>4, <3>1
    <2>. QED  BY <2>1, <2>2
  <1>. QED  BY <1>1, <1>5 DEF PlanLegal

Ends(seq) == \E i \in 1..Len(seq) : seq[i] = Do("ran", "finalize", week - 1, "")

\* The end of a week: its winners get everything before the run is recorded.
LEMMA FinalizationLegal ==
  ASSUME WeekTypes, Finalizes
  PROVE  /\ Finalization(week - 1, "live") \in Seq(Statements)
         /\ PlanLegal(Finalization(week - 1, "live")) /\ Ends(Finalization(week - 1, "live"))
  <1>. PICK w : w = week - 1
    OBVIOUS
  <1>1. w \in 1..LastWeek /\ w \in 1..week - 1 /\ week \in Nat
    BY BoardConstants DEF WeekTypes, Finalizes
  <1>. DEFINE W == Winners(w, "live")
              award(u) == Do("award", u, w, Place(w, u))
              post(u) == Do("post", u, w, "champion")
              notify(u) == Do("notify", u, w, "champion")
              done == [u \in W |-> <<award(u), post(u), notify(u)>>]
              e == EachInTurn(done)
              r == Do("ran", "finalize", w, "")
  <1>2. W \subseteq Climbers /\ IsFiniteSet(W)
    BY <1>1, WinnersAreMembers
  <1>3. ASSUME NEW u \in W
        PROVE  /\ award(u) \in Statements /\ IsAward(award(u))
               /\ post(u) \in Statements /\ Quiet(post(u))
               /\ notify(u) \in Statements /\ Quiet(notify(u))
    <2>1. post(u) \in Statements /\ Quiet(post(u)) /\ notify(u) \in Statements /\ Quiet(notify(u))
      BY <1>1, <1>2, <1>3, QuietDo
    <2>2. Place(w, u) \in {"champion", "podium"}
      BY DEF Place
    <2>3. award(u) \in Statements /\ award(u).do = "award" /\ award(u).user = u
          /\ award(u).week = w /\ award(u).arg = Place(w, u)
      BY <1>1, <1>2, <1>3, <2>2 DEF Do, Statements
    <2>4. IsAward(award(u))
      <3>. HIDE DEF award
      <3>. QED  BY <1>1, <1>3, <2>3 DEF IsAward
    <2>. QED  BY <2>1, <2>3, <2>4
  <1>4. r \in Statements /\ r.do = "ran" /\ r.user = "finalize" /\ r.week = w
    BY <1>1 DEF Do, Statements
  <1>. HIDE DEF award, post, notify, r, W
  <1>5. \A u \in W : /\ done[u] \in Seq(Statements) /\ Len(done[u]) = 3
                     /\ done[u][1] = award(u) /\ done[u][2] = post(u) /\ done[u][3] = notify(u)
    BY <1>3, ThreeSteps
  <1>6. \A u \in W : \A j \in 1..Len(done[u]) : Quiet(done[u][j]) \/ IsAward(done[u][j])
    <2>1. \A j \in 1..3 : j = 1 \/ j = 2 \/ j = 3
      OBVIOUS
    <2>. HIDE DEF done
    <2>. QED  BY <1>3, <1>5, <2>1
  <1>7. DOMAIN done = W
    OBVIOUS
  <1>. HIDE DEF done
  <1>8. /\ e \in Seq(Statements)
        /\ \A u \in W : \A j \in 1..Len(done[u]) : \E i \in 1..Len(e) : e[i] = done[u][j]
        /\ \A i \in 1..Len(e) : \E u \in W : \E j \in 1..Len(done[u]) : e[i] = done[u][j]
    BY <1>2, <1>5, <1>7, FlattenLists
  <1>. HIDE DEF e
  <1>9. \A i \in 1..Len(e) : Quiet(e[i]) \/ IsAward(e[i])
    BY <1>6, <1>8
  <1>10. Announces(e, Len(e) + 1, w)
    <2>1. \A u \in W : \A j \in 1..3 : \E i \in 1..(Len(e) + 1) - 1 : e[i] = done[u][j]
      <3>1. 1..Len(e) = 1..(Len(e) + 1) - 1
        BY <1>8
      <3>2. \A u \in W : Len(done[u]) = 3
        BY <1>5
      <3>3. \A u \in W : \A j \in 1..3 : \E i \in 1..Len(e) : e[i] = done[u][j]
        BY <1>8, <3>2
      <3>. QED  BY <3>1, <3>3
    <2>2. \A u \in W : /\ Promised(e, Len(e) + 1, award(u), podium)
                       /\ Promised(e, Len(e) + 1, post(u), posted)
                       /\ Promised(e, Len(e) + 1, notify(u), notices)
      <3>1. 1 \in 1..3 /\ 2 \in 1..3 /\ 3 \in 1..3
        OBVIOUS
      <3>2. \A u \in W : /\ \E i \in 1..(Len(e) + 1) - 1 : e[i] = award(u)
                         /\ \E i \in 1..(Len(e) + 1) - 1 : e[i] = post(u)
                         /\ \E i \in 1..(Len(e) + 1) - 1 : e[i] = notify(u)
        BY <1>5, <2>1, <3>1
      <3>. QED  BY <3>2 DEF Promised
    <2>. QED  BY <2>2 DEF Announces, award, post, notify, W
  <1>11. /\ e \o <<r>> \in Seq(Statements) /\ PlanLegal(e \o <<r>>)
         /\ \E i \in 1..Len(e \o <<r>>) : (e \o <<r>>)[i] = r
    BY <1>1, <1>4, <1>8, <1>9, <1>10, RunsLast
  <1>12. Finalization(week - 1, "live") = e \o <<r>> /\ r = Do("ran", "finalize", week - 1, "")
    BY DEF Finalization, e, done, W, award, post, notify, r
  <1>. QED  BY <1>11, <1>12 DEF Ends

\* What a pass of the tick sets out to do is legal, and ends the week before
\* if that is due.
LEMMA TickLegal ==
  ASSUME WeekTypes, NEW scope, Finalizes => scope = "live"
  PROVE  /\ TickOf(scope) \in Seq(Statements) /\ PlanLegal(TickOf(scope))
         /\ Finalizes => Ends(TickOf(scope))
  <1>. DEFINE a == RankPart(scope) \o PassPart(scope) \o EnterPart(scope)
              b == EndPart(scope)
  <1>1. QuietSeq(a)
    BY RankingQuiet
  <1>2. b \in Seq(Statements) /\ PlanLegal(b) /\ (Finalizes => Ends(b))
    <2>1. CASE Finalizes
      BY <2>1, FinalizationLegal DEF EndPart
    <2>2. CASE ~Finalizes
      <3>1. b = <<>>
        BY <2>2 DEF EndPart
      <3>2. b \in Seq(Statements) /\ \A i \in 1..Len(b) : FALSE
        BY <3>1
      <3>. QED  BY <2>2, <3>2 DEF PlanLegal
    <2>. QED  BY <2>1, <2>2
  <1>3. TickOf(scope) = a \o b
    BY TickParts
  <1>. HIDE DEF a, b
  <1>4. /\ a \o b \in Seq(Statements) /\ PlanLegal(a \o b)
        /\ \A j \in 1..Len(b) : \E i \in 1..Len(a \o b) : (a \o b)[i] = b[j]
    BY <1>1, <1>2, QuietThenLegal
  <1>5. Finalizes => Ends(a \o b)
    BY <1>2, <1>4 DEF Ends
  <1>. QED  BY <1>3, <1>4, <1>5

LEMMA RecapLegal ==
  ASSUME WeekTypes, week > 1
  PROVE  LET seq == Each([u \in Climbers |-> Do("notify", u, week - 1, "recap")])
                      \o <<Do("ran", "recap", week - 1, "")>>
         IN  seq \in Seq(Statements) /\ PlanLegal(seq)
  <1>. PICK w : w = week - 1
    OBVIOUS
  <1>1. w \in 1..LastWeek /\ w \in 1..week - 1 /\ week \in Nat
    BY BoardConstants DEF WeekTypes
  <1>. DEFINE notify(u) == Do("notify", u, w, "recap")
              done == [u \in Climbers |-> notify(u)]
              e == Each(done)
              r == Do("ran", "recap", w, "")
  <1>2. \A u \in Climbers : notify(u) \in Statements /\ Quiet(notify(u))
    BY <1>1, QuietDo
  <1>3. ListsAll(e, {done[u] : u \in Climbers})
    BY BoardConstants, EachListed
  <1>4. r \in Statements /\ r.do = "ran" /\ r.user = "recap" /\ r.week = w
    BY <1>1 DEF Do, Statements
  <1>. HIDE DEF notify, r
  <1>5. \A u \in Climbers : done[u] = notify(u) /\ done[u] \in Statements /\ Quiet(done[u])
    BY <1>2
  <1>. HIDE DEF done, e
  <1>6. QuietSeq(e)
    BY <1>3, <1>5, ListedQuiet
  <1>7. e \in Seq(Statements) /\ \A i \in 1..Len(e) : Quiet(e[i])
    BY <1>6 DEF QuietSeq
  <1>8. Recaps(e, Len(e) + 1, w)
    <2>1. \A u \in Climbers : \E i \in 1..Len(e) : e[i] = done[u]
      BY <1>3 DEF ListsAll
    <2>2. 1..Len(e) = 1..(Len(e) + 1) - 1
      BY <1>7
    <2>. QED  BY <1>5, <2>1, <2>2 DEF Recaps, Promised, notify
  <1>9. e \o <<r>> \in Seq(Statements) /\ PlanLegal(e \o <<r>>)
    BY <1>1, <1>4, <1>7, <1>8, RunsLast
  <1>. QED  BY <1>9 DEF e, done, notify, r

-----------------------------------------------------------------------------
(* The steps *)

LEMMA WinnersKept ==
  ASSUME NEW w, NEW scope, board'[w] = board[w]
  PROVE  Winners(w, scope)' = Winners(w, scope) /\ \A u : Place(w, u)' = Place(w, u)
  <1>1. \A u : Has(w, u)' = Has(w, u) /\ Place(w, u)' = Place(w, u)
    BY DEF Has, Place
  <1>2. {u \in Members(scope) : Has(w, u)'} = {u \in Members(scope) : Has(w, u)}
    BY <1>1
  <1>3. [u \in Climbers |-> board'[w][u].rank] = [u \in Climbers |-> board[w][u].rank]
    OBVIOUS
  <1>4. Winners(w, scope)' = Winners(w, scope)
    BY <1>2, <1>3 DEF Winners
  <1>. QED  BY <1>1, <1>4

\* The weeks that ended are left alone, and nothing is taken back.
Grows ==
  /\ week' = week /\ part' = part
  /\ \A w \in 1..week - 1 : board'[w] = board[w]
  /\ podium \subseteq podium' /\ posted \subseteq posted' /\ notices \subseteq notices'
  /\ jobs \subseteq jobs'

LEMMA GrowsKeeps ==
  ASSUME WeekTypes, Grows
  PROVE  /\ \A s : (Quiet(s) <=> Quiet(s)') /\ (IsAward(s) <=> IsAward(s)')
         /\ \A w \in 1..week - 1 :
              /\ Winners(w, "live")' = Winners(w, "live")
              /\ \A u : Place(w, u)' = Place(w, u)
  <1>1. \A w \in 1..week - 1 : /\ Winners(w, "live")' = Winners(w, "live")
                               /\ \A u : Place(w, u)' = Place(w, u)
    BY WinnersKept DEF Grows
  <1>2. ASSUME NEW s PROVE Quiet(s) <=> Quiet(s)'
    BY DEF Quiet, Grows
  <1>3. ASSUME NEW s PROVE IsAward(s) <=> IsAward(s)'
    BY <1>1 DEF IsAward, Grows
  <1>. QED  BY <1>1, <1>2, <1>3

LEMMA StillOwed ==
  ASSUME NEW seq, NEW n, NEW s, NEW table, NEW more, table \subseteq more,
         Promised(seq, n, s, table)
  PROVE  Promised(seq, n, s, more)
  BY DEF Promised

LEMMA StillAnnounced ==
  ASSUME WeekTypes, Grows, NEW seq, NEW n, NEW w \in 1..week - 1
  PROVE  /\ Announces(seq, n, w) => Announces(seq, n, w)'
         /\ Recaps(seq, n, w) => Recaps(seq, n, w)'
  <1>1. Winners(w, "live")' = Winners(w, "live") /\ \A u : Place(w, u)' = Place(w, u)
    BY GrowsKeeps
  <1>2. podium \subseteq podium' /\ posted \subseteq posted' /\ notices \subseteq notices'
    BY DEF Grows
  <1>3. ASSUME Announces(seq, n, w) PROVE Announces(seq, n, w)'
    BY <1>1, <1>2, <1>3, StillOwed DEF Announces
  <1>4. ASSUME Recaps(seq, n, w) PROVE Recaps(seq, n, w)'
    BY <1>2, <1>4, StillOwed DEF Recaps
  <1>. QED  BY <1>3, <1>4

LEMMA StillLegal ==
  ASSUME WeekTypes, Grows, NEW seq, PlanLegal(seq)
  PROVE  PlanLegal(seq)'
  <1>. SUFFICES ASSUME NEW i \in 1..Len(seq)
                PROVE  Quiet(seq[i])' \/ IsAward(seq[i])' \/ IsRun(seq, i)'
    BY DEF PlanLegal
  <1>1. Quiet(seq[i]) \/ IsAward(seq[i]) \/ IsRun(seq, i)
    BY DEF PlanLegal
  <1>2. IsRun(seq, i) => IsRun(seq, i)'
    <2>1. week' = week
      BY DEF Grows
    <2>. QED  BY <2>1, StillAnnounced DEF IsRun
  <1>. QED  BY <1>1, <1>2, GrowsKeeps

\* What the rows of the jobs promise does not depend on the plan.
LEMMA StillDone ==
  ASSUME WeekTypes, Grows, podium' = podium, jobs' = jobs, PodiumEarned, JobsDone
  PROVE  PodiumEarned' /\ JobsDone'
  <1>1. PodiumEarned'
    <2>1. week' = week
      BY DEF Grows
    <2>. SUFFICES ASSUME NEW k \in podium
                  PROVE  \E w \in 1..week - 1 : \E u \in Winners(w, "live")' :
                           k = <<Place(w, u)', w, u>>
      BY <2>1 DEF PodiumEarned
    <2>2. PICK w \in 1..week - 1 : \E u \in Winners(w, "live") : k = <<Place(w, u), w, u>>
      BY DEF PodiumEarned
    <2>. QED  BY <2>2, GrowsKeeps
  <1>2. JobsDone'
    <2>. SUFFICES ASSUME NEW w \in 1..LastWeek
                  PROVE  /\ <<"finalize", w>> \in jobs => w < week /\ Announces(<<>>, 1, w)'
                         /\ <<"recap", w>> \in jobs => w < week /\ Recaps(<<>>, 1, w)'
      BY DEF JobsDone, Grows
    <2>1. /\ <<"finalize", w>> \in jobs => w < week /\ Announces(<<>>, 1, w)
          /\ <<"recap", w>> \in jobs => w < week /\ Recaps(<<>>, 1, w)
      BY DEF JobsDone
    <2>2. w < week => w \in 1..week - 1
      BY BoardConstants DEF WeekTypes
    <2>. QED  BY <2>1, <2>2, StillAnnounced
  <1>. QED  BY <1>1, <1>2

\* A tick takes up a legal plan, works on, or gives it up.
LEMMA NewPlan ==
  ASSUME WeekInv, UNCHANGED <<week, part, earned, weekRows>>,
         NEW k \in 0..3, NEW seq \in Seq(Statements), plan' = [scope |-> k, rest |-> seq],
         PlanLegal(seq), Finalizes /\ k \in {1, 2} => k = 1 /\ Ends(seq)
  PROVE  WeekInv'
  <1>1. WeekTypes /\ PodiumEarned /\ JobsDone
    BY DEF WeekInv
  <1>2. Grows /\ podium' = podium /\ jobs' = jobs
    BY DEF Grows, weekRows
  <1>3. PlanLegal(seq)' /\ PodiumEarned' /\ JobsDone'
    BY <1>1, <1>2, StillLegal, StillDone
  <1>4. plan'.scope = k /\ plan'.rest = seq
    OBVIOUS
  <1>5. WeekTypes'
    BY <1>1, <1>4 DEF WeekTypes, weekRows
  <1>6. FirstPass'
    BY <1>4 DEF FirstPass, Finalizes, Ends, weekRows
  <1>7. PlanLegal(plan.rest)'
    BY <1>3, <1>4
  <1>. QED  BY <1>3, <1>5, <1>6, <1>7 DEF WeekInv

LEMMA IdlePlan ==
  ASSUME WeekInv, UNCHANGED <<week, part, earned, weekRows>>, plan' = NoPlan
  PROVE  WeekInv'
  <1>1. <<>> \in Seq(Statements) /\ PlanLegal(<<>>) /\ plan' = [scope |-> 0, rest |-> <<>>]
    BY DEF PlanLegal, NoPlan
  <1>. PICK k, seq : k = 0 /\ seq = <<>>
    OBVIOUS
  <1>2. /\ k \in 0..3 /\ seq \in Seq(Statements) /\ plan' = [scope |-> k, rest |-> seq]
        /\ PlanLegal(seq) /\ (Finalizes /\ k \in {1, 2} => k = 1 /\ Ends(seq))
    BY <1>1
  <1>. QED  BY <1>2, NewPlan

LEMMA SamePlan ==
  ASSUME WeekInv, UNCHANGED weekVars
  PROVE  WeekInv'
  <1>. PICK k, seq : k = plan.scope /\ seq = plan.rest
    OBVIOUS
  <1>1. /\ k \in 0..3 /\ seq \in Seq(Statements)
        /\ plan' = [scope |-> k, rest |-> seq] /\ PlanLegal(seq) /\ FirstPass
        /\ UNCHANGED <<week, part, earned, weekRows>>
    BY DEF WeekInv, WeekTypes, weekVars, weekRows
  <1>2. Finalizes /\ k \in {1, 2} => k = 1 /\ Ends(seq)
    BY <1>1 DEF FirstPass, Ends
  <1>. QED  BY <1>1, <1>2, NewPlan

\* The first pass, with the end of the week before if it is due.
LEMMA BeginTickKeeps ==
  ASSUME WeekInv, BeginTick PROVE WeekInv'
  <1>1. WeekTypes /\ plan' = [scope |-> 1, rest |-> TickOf("live")]
        /\ UNCHANGED <<week, part, earned, weekRows>>
    BY DEF WeekInv, BeginTick, Scopes
  <1>. PICK k, seq : k = 1 /\ seq = TickOf("live")
    OBVIOUS
  <1>2. /\ k \in 0..3 /\ seq \in Seq(Statements) /\ plan' = [scope |-> k, rest |-> seq]
        /\ PlanLegal(seq) /\ (Finalizes /\ k \in {1, 2} => k = 1 /\ Ends(seq))
    BY <1>1, TickLegal
  <1>. QED  BY <1>1, <1>2, NewPlan

\* The second pass finds the week ended.
LEMMA NextScopeKeeps ==
  ASSUME WeekInv, NextScope PROVE WeekInv'
  <1>1. WeekTypes /\ FirstPass /\ UNCHANGED <<week, part, earned, weekRows>>
    BY DEF WeekInv, NextScope
  <1>2. CASE plan.scope = 2
    <2>1. plan' = NoPlan
      BY <1>2 DEF NextScope
    <2>. QED  BY <1>1, <2>1, IdlePlan
  <1>3. CASE plan.scope # 2
    <2>1. plan.scope = 1 /\ plan.rest = <<>> /\ plan' = [scope |-> 2, rest |-> TickOf("test")]
      BY <1>3 DEF NextScope, Scopes
    <2>2. ~Finalizes
      BY <1>1, <2>1 DEF FirstPass
    <2>. PICK k, seq : k = 2 /\ seq = TickOf("test")
      OBVIOUS
    <2>3. /\ k \in 0..3 /\ seq \in Seq(Statements) /\ plan' = [scope |-> k, rest |-> seq]
          /\ PlanLegal(seq)
      BY <1>1, <2>1, <2>2, TickLegal
    <2>. QED  BY <1>1, <2>2, <2>3, NewPlan
  <1>. QED  BY <1>2, <1>3

LEMMA BeginRecapKeeps ==
  ASSUME WeekInv, BeginRecap PROVE WeekInv'
  <1>. PICK k : k = 3
    OBVIOUS
  <1>0. k \in 0..3 /\ k \notin {1, 2}
    OBVIOUS
  <1>. PICK seq : seq = Each([u \in Climbers |-> Do("notify", u, week - 1, "recap")])
                             \o <<Do("ran", "recap", week - 1, "")>>
    OBVIOUS
  <1>1. WeekTypes /\ week > 1 /\ UNCHANGED <<week, part, earned, weekRows>>
        /\ plan' = [scope |-> k, rest |-> seq]
    BY DEF WeekInv, BeginRecap
  <1>2. seq \in Seq(Statements) /\ PlanLegal(seq)
    BY <1>1, RecapLegal
  <1>. QED  BY <1>0, <1>1, <1>2, NewPlan

LEMMA EarnKeeps ==
  ASSUME WeekInv, NEW u \in Climbers, NEW amount \in 1..BestScore, Earn(u, amount)
  PROVE  WeekInv'
  <1>1. WeekTypes /\ PlanLegal(plan.rest) /\ PodiumEarned /\ JobsDone /\ FirstPass
    BY DEF WeekInv
  <1>2. Grows /\ podium' = podium /\ jobs' = jobs /\ plan' = plan /\ board' = board
    BY DEF Earn, Grows, weekRows
  <1>. PICK seq : seq = plan.rest
    OBVIOUS
  <1>3. PlanLegal(seq)' /\ PodiumEarned' /\ JobsDone'
    BY <1>1, <1>2, StillLegal, StillDone
  <1>4. PlanLegal(plan.rest)'
    BY <1>2, <1>3
  <1>5. FirstPass'
    BY <1>1, <1>2 DEF FirstPass, Finalizes, Grows
  <1>6. earned' \in [1..LastWeek -> [Climbers -> 0..BestScore]]
    <2>. PICK e : e = [earned[week] EXCEPT ![u] = @ + amount]
      OBVIOUS
    <2>1. earned[week] \in [Climbers -> 0..BestScore] /\ earned[week][u] + amount <= BestScore
          /\ earned' = [earned EXCEPT ![week] = e]
      BY <1>1 DEF WeekTypes, Earn
    <2>2. e \in [Climbers -> 0..BestScore]
      BY <2>1, BoardConstants
    <2>. QED  BY <1>1, <2>1, <2>2 DEF WeekTypes
  <1>7. WeekTypes'
    BY <1>1, <1>2, <1>6 DEF WeekTypes, Grows
  <1>. QED  BY <1>3, <1>4, <1>5, <1>7 DEF WeekInv

LEMMA Upwards ==
  ASSUME NEW a, NEW b, a \in Nat, b \in Nat, a <= b
  PROVE  \A w \in 1..a - 1 : w \in 1..b - 1
  OBVIOUS

LEMMA OneBefore ==
  ASSUME NEW n \in Nat, NEW i \in 1..n, i # 1
  PROVE  i - 1 \in 1..n - 1 /\ (i - 1) + 1 = i
  OBVIOUS

\* The clock moves between ticks; a week that ended stays as it is.
LEMMA WeekClockKeeps ==
  ASSUME WeekInv, WeekClock PROVE WeekInv'
  <1>1. WeekTypes /\ PodiumEarned /\ JobsDone
    BY DEF WeekInv
  <1>2. UNCHANGED <<earned, weekRows, plan>> /\ plan = [scope |-> 0, rest |-> <<>>]
    BY DEF WeekClock, NoPlan
  <1>3. board' = board /\ podium' = podium /\ posted' = posted /\ notices' = notices /\ jobs' = jobs
    BY <1>2 DEF weekRows
  <1>4. week \in Nat /\ week' \in Nat /\ week <= week' /\ week' \in 1..LastWeek
        /\ part' \in {"midnight", "monday", "later"}
    BY <1>1, BoardConstants DEF WeekTypes, WeekClock
  <1>5. WeekTypes'
    BY <1>1, <1>2, <1>3, <1>4 DEF WeekTypes
  <1>6. PlanLegal(plan.rest)' /\ FirstPass'
    BY <1>2 DEF PlanLegal, FirstPass
  <1>7. \A w : Winners(w, "live")' = Winners(w, "live") /\ \A u : Place(w, u)' = Place(w, u)
    BY <1>3, WinnersKept
  <1>8. PodiumEarned'
    <2>0. \A w \in 1..week - 1 : w \in 1..week' - 1
      BY <1>4, Upwards
    <2>. SUFFICES ASSUME NEW k \in podium
                  PROVE  \E w \in 1..week' - 1 : \E u \in Winners(w, "live")' :
                           k = <<Place(w, u)', w, u>>
      BY <1>3 DEF PodiumEarned
    <2>1. PICK w \in 1..week - 1 : \E u \in Winners(w, "live") : k = <<Place(w, u), w, u>>
      BY <1>1 DEF PodiumEarned
    <2>. QED  BY <1>7, <2>0, <2>1
  <1>9. JobsDone'
    <2>. SUFFICES ASSUME NEW w \in 1..LastWeek
                  PROVE  /\ <<"finalize", w>> \in jobs => w < week' /\ Announces(<<>>, 1, w)'
                         /\ <<"recap", w>> \in jobs => w < week' /\ Recaps(<<>>, 1, w)'
      BY <1>3 DEF JobsDone
    <2>1. /\ <<"finalize", w>> \in jobs => w < week /\ Announces(<<>>, 1, w)
          /\ <<"recap", w>> \in jobs => w < week /\ Recaps(<<>>, 1, w)
      BY <1>1 DEF JobsDone
    <2>2. /\ Announces(<<>>, 1, w) => Announces(<<>>, 1, w)'
          /\ Recaps(<<>>, 1, w) => Recaps(<<>>, 1, w)'
      BY <1>3, <1>7 DEF Announces, Recaps, Promised
    <2>3. w < week => w < week'
      BY <1>4
    <2>. QED  BY <2>1, <2>2, <2>3
  <1>. QED  BY <1>5, <1>6, <1>8, <1>9 DEF WeekInv

-----------------------------------------------------------------------------
(* The next statement *)

\* What is left of a plan when its first statement is done.
LEMMA Shifted ==
  ASSUME NEW seq \in Seq(Statements), seq # <<>>
  PROVE  /\ Head(seq) = seq[1] /\ seq[1] \in Statements /\ 1 \in 1..Len(seq)
         /\ Tail(seq) \in Seq(Statements) /\ Len(Tail(seq)) = Len(seq) - 1 /\ Len(seq) \in Nat
         /\ \A i \in 1..Len(Tail(seq)) : i + 1 \in 1..Len(seq) /\ Tail(seq)[i] = seq[i + 1]
  OBVIOUS

LEMMA StillOwedBehind ==
  ASSUME NEW seq \in Seq(Statements), seq # <<>>, NEW i \in 1..Len(Tail(seq)),
         NEW s, NEW table, NEW more, table \subseteq more,
         seq[1] = s => <<s.arg, s.week, s.user>> \in more,
         Promised(seq, i + 1, s, table)
  PROVE  Promised(Tail(seq), i, s, more)
  <1>1. CASE <<s.arg, s.week, s.user>> \in table
    BY <1>1 DEF Promised
  <1>2. CASE <<s.arg, s.week, s.user>> \notin table
    <2>1. PICK j \in 1..(i + 1) - 1 : seq[j] = s
      BY <1>2 DEF Promised
    <2>2. CASE j = 1
      BY <2>1, <2>2 DEF Promised
    <2>3. CASE j # 1
      <3>. PICK l : l = j - 1
        OBVIOUS
      <3>1. l \in 1..i - 1 /\ l \in 1..Len(Tail(seq)) /\ l + 1 = j
        BY <2>3, Shifted
      <3>2. Tail(seq)[l] = s
        BY <2>1, <3>1, Shifted
      <3>. QED  BY <3>1, <3>2 DEF Promised
    <2>. QED  BY <2>2, <2>3
  <1>. QED  BY <1>1, <1>2

\* A statement, done.
Executed(s) ==
  /\ podium' = IF s.do = "award" THEN podium \cup {<<s.arg, s.week, s.user>>} ELSE podium
  /\ posted' = IF s.do = "post" THEN posted \cup {<<s.arg, s.week, s.user>>} ELSE posted
  /\ notices' = IF s.do = "notify" THEN notices \cup {<<s.arg, s.week, s.user>>} ELSE notices
  /\ jobs' = IF s.do = "ran" THEN jobs \cup {<<s.user, s.week>>} ELSE jobs

LEMMA StillAnnouncedBehind ==
  ASSUME WeekTypes, Grows, NEW seq \in Seq(Statements), seq # <<>>, Executed(seq[1]),
         NEW i \in 1..Len(Tail(seq)), NEW w \in 1..week - 1
  PROVE  /\ Announces(seq, i + 1, w) => Announces(Tail(seq), i, w)'
         /\ Recaps(seq, i + 1, w) => Recaps(Tail(seq), i, w)'
  <1>1. Winners(w, "live")' = Winners(w, "live") /\ \A u : Place(w, u)' = Place(w, u)
    BY GrowsKeeps
  <1>2. podium \subseteq podium' /\ posted \subseteq posted' /\ notices \subseteq notices'
    BY DEF Grows
  <1>3. \A s : /\ s.do = "award" /\ seq[1] = s => <<s.arg, s.week, s.user>> \in podium'
               /\ s.do = "post" /\ seq[1] = s => <<s.arg, s.week, s.user>> \in posted'
               /\ s.do = "notify" /\ seq[1] = s => <<s.arg, s.week, s.user>> \in notices'
    BY DEF Executed
  <1>4. \A u, arg : /\ Do("award", u, w, arg).do = "award" /\ Do("post", u, w, arg).do = "post"
                    /\ Do("notify", u, w, arg).do = "notify"
    BY DEF Do
  <1>5. ASSUME Announces(seq, i + 1, w) PROVE Announces(Tail(seq), i, w)'
    <2>. SUFFICES ASSUME NEW u \in Winners(w, "live")
                  PROVE  /\ Promised(Tail(seq), i, Do("award", u, w, Place(w, u)), podium')
                         /\ Promised(Tail(seq), i, Do("post", u, w, "champion"), posted')
                         /\ Promised(Tail(seq), i, Do("notify", u, w, "champion"), notices')
      BY <1>1 DEF Announces
    <2>1. /\ Promised(seq, i + 1, Do("award", u, w, Place(w, u)), podium)
          /\ Promised(seq, i + 1, Do("post", u, w, "champion"), posted)
          /\ Promised(seq, i + 1, Do("notify", u, w, "champion"), notices)
      BY <1>5 DEF Announces
    <2>. QED  BY <1>2, <1>3, <1>4, <2>1, StillOwedBehind
  <1>6. ASSUME Recaps(seq, i + 1, w) PROVE Recaps(Tail(seq), i, w)'
    <2>. SUFFICES ASSUME NEW u \in Climbers
                  PROVE  Promised(Tail(seq), i, Do("notify", u, w, "recap"), notices')
      BY DEF Recaps
    <2>1. Promised(seq, i + 1, Do("notify", u, w, "recap"), notices)
      BY <1>6 DEF Recaps
    <2>. QED  BY <1>2, <1>3, <1>4, <2>1, StillOwedBehind
  <1>. QED  BY <1>5, <1>6

LEMMA TailLegal ==
  ASSUME WeekTypes, Grows, NEW seq \in Seq(Statements), seq # <<>>, Executed(seq[1]), PlanLegal(seq)
  PROVE  PlanLegal(Tail(seq))'
  <1>. SUFFICES ASSUME NEW i \in 1..Len(Tail(seq))
                PROVE  \/ Quiet(Tail(seq)[i])' \/ IsAward(Tail(seq)[i])'
                       \/ IsRun(Tail(seq), i)'
    BY DEF PlanLegal
  <1>1. i + 1 \in 1..Len(seq) /\ Tail(seq)[i] = seq[i + 1]
    BY Shifted
  <1>2. Quiet(seq[i + 1]) \/ IsAward(seq[i + 1]) \/ IsRun(seq, i + 1)
    BY <1>1 DEF PlanLegal
  <1>3. IsRun(seq, i + 1) => IsRun(Tail(seq), i)'
    <2>1. week' = week
      BY DEF Grows
    <2>. QED  BY <1>1, <2>1, StillAnnouncedBehind DEF IsRun
  <1>. QED  BY <1>1, <1>2, <1>3, GrowsKeeps

LEMMA PerformKeeps ==
  ASSUME WeekInv, Perform PROVE WeekInv'
  <1>. PICK seq, s : seq = plan.rest /\ s = Head(plan.rest)
    OBVIOUS
  <1>1. /\ WeekTypes /\ PlanLegal(seq) /\ PodiumEarned /\ JobsDone /\ FirstPass
        /\ seq \in Seq(Statements) /\ seq # <<>>
    BY DEF WeekInv, WeekTypes, Perform
  <1>2. /\ s = seq[1] /\ s \in Statements /\ 1 \in 1..Len(seq)
        /\ Tail(seq) \in Seq(Statements) /\ Len(Tail(seq)) = Len(seq) - 1 /\ Len(seq) \in Nat
        /\ \A i \in 1..Len(Tail(seq)) : i + 1 \in 1..Len(seq) /\ Tail(seq)[i] = seq[i + 1]
    BY <1>1, Shifted
  <1>3. plan' = [scope |-> plan.scope, rest |-> Tail(seq)] /\ plan.scope \in 0..3
    BY <1>1 DEF Perform, WeekTypes
  <1>4. Executed(s) /\ UNCHANGED <<week, part, earned>>
    BY DEF Perform, Executed
  <1>5. board' = CASE s.do = "rank" -> [board EXCEPT ![s.week][s.user] =
                                [s.arg EXCEPT !.announced = board[s.week][s.user].announced]]
                   [] s.do = "flag" -> [board EXCEPT ![s.week][s.user].announced = TRUE]
                   [] OTHER -> board
    BY DEF Perform
  <1>6. Quiet(s) \/ IsAward(s) \/ IsRun(seq, 1)
    BY <1>1, <1>2 DEF PlanLegal
  <1>7. s.do \in {"rank", "flag"} => Quiet(s)
    BY <1>2, <1>6 DEF IsAward, IsRun
  <1>8. board \in [1..LastWeek -> [Climbers -> BoardRows]] /\ week \in 1..LastWeek
    BY <1>1 DEF WeekTypes
  <1>9. /\ board' \in [1..LastWeek -> [Climbers -> BoardRows]]
        /\ \A w \in 1..LastWeek : w # week => board'[w] = board[w]
    <2>1. CASE s.do = "rank"
      <3>. PICK row : row = [s.arg EXCEPT !.announced = board[s.week][s.user].announced]
        OBVIOUS
      <3>1. s.week = week /\ s.user \in Climbers /\ s.arg \in BoardRows
        BY <1>7, <2>1 DEF Quiet
      <3>2. board[week][s.user].announced \in BOOLEAN
        BY <1>8, <3>1 DEF BoardRows
      <3>3. row \in BoardRows
        BY <3>1, <3>2 DEF BoardRows
      <3>4. board' = [board EXCEPT ![week][s.user] = row]
        BY <1>5, <2>1, <3>1
      <3>. QED  BY <1>8, <3>1, <3>3, <3>4
    <2>2. CASE s.do = "flag"
      <3>. PICK row : row = [board[week][s.user] EXCEPT !.announced = TRUE]
        OBVIOUS
      <3>1. s.week = week /\ s.user \in Climbers
        BY <1>7, <2>2 DEF Quiet
      <3>2. board[week][s.user] \in BoardRows
        BY <1>8, <3>1
      <3>3. row \in BoardRows
        BY <3>2 DEF BoardRows
      <3>4. board' = [board EXCEPT ![week][s.user] = row]
        BY <1>5, <2>2, <3>1
      <3>. QED  BY <1>8, <3>1, <3>3, <3>4
    <2>3. CASE s.do \notin {"rank", "flag"}
      <3>1. board' = board
        BY <1>5, <2>3
      <3>. QED  BY <1>8, <3>1
    <2>. QED  BY <2>1, <2>2, <2>3
  <1>10. Grows
    <2>1. \A w \in 1..week - 1 : w \in 1..LastWeek /\ w # week
      BY <1>8, BoardConstants
    <2>2. podium \subseteq podium' /\ posted \subseteq posted' /\ notices \subseteq notices'
          /\ jobs \subseteq jobs'
      BY <1>4 DEF Executed
    <2>. QED  BY <1>4, <1>9, <2>1, <2>2 DEF Grows
  <1>11. WeekTypes'
    <2>1. plan'.scope = plan.scope /\ plan'.rest = Tail(seq)
      BY <1>3
    <2>. QED  BY <1>1, <1>2, <1>3, <1>4, <1>9, <2>1 DEF WeekTypes
  <1>12. PlanLegal(plan.rest)'
    <2>1. PlanLegal(Tail(seq))'
      BY <1>1, <1>2, <1>4, <1>10, TailLegal
    <2>. QED  BY <1>3, <2>1
  <1>13. PodiumEarned'
    <2>. SUFFICES ASSUME NEW k \in podium'
                  PROVE  \E w \in 1..week - 1 : \E u \in Winners(w, "live")' :
                           k = <<Place(w, u)', w, u>>
      BY <1>4 DEF PodiumEarned
    <2>1. CASE k \in podium
      <3>1. PICK w \in 1..week - 1 : \E u \in Winners(w, "live") : k = <<Place(w, u), w, u>>
        BY <1>1, <2>1 DEF PodiumEarned
      <3>. QED  BY <1>1, <1>10, <3>1, GrowsKeeps
    <2>2. CASE k \notin podium
      <3>1. s.do = "award" /\ k = <<s.arg, s.week, s.user>>
        BY <1>4, <2>2 DEF Executed
      <3>2. IsAward(s)
        BY <1>2, <1>6, <3>1 DEF Quiet, IsRun
      <3>3. /\ s.week \in 1..week - 1 /\ s.user \in Winners(s.week, "live")
            /\ k = <<Place(s.week, s.user), s.week, s.user>>
        BY <3>1, <3>2 DEF IsAward
      <3>. QED  BY <1>1, <1>10, <3>3, GrowsKeeps
    <2>. QED  BY <2>1, <2>2
  <1>14. JobsDone'
    <2>. SUFFICES ASSUME NEW w \in 1..LastWeek
                  PROVE  /\ <<"finalize", w>> \in jobs' => w < week /\ Announces(<<>>, 1, w)'
                         /\ <<"recap", w>> \in jobs' => w < week /\ Recaps(<<>>, 1, w)'
      BY <1>4 DEF JobsDone
    <2>1. /\ <<"finalize", w>> \in jobs => w < week /\ Announces(<<>>, 1, w)
          /\ <<"recap", w>> \in jobs => w < week /\ Recaps(<<>>, 1, w)
      BY <1>1 DEF JobsDone
    <2>2. s.do = "ran" => IsRun(seq, 1)
      BY <1>6 DEF Quiet, IsAward
    <2>3. \A t, table : Promised(seq, 1, t, table) => Promised(<<>>, 1, t, table)
      BY DEF Promised
    <2>4. /\ Announces(seq, 1, w) => Announces(<<>>, 1, w)
          /\ Recaps(seq, 1, w) => Recaps(<<>>, 1, w)
      BY <2>3 DEF Announces, Recaps
    <2>5. /\ <<"finalize", w>> \in jobs' \ jobs => w \in 1..week - 1 /\ Announces(<<>>, 1, w)
          /\ <<"recap", w>> \in jobs' \ jobs => w \in 1..week - 1 /\ Recaps(<<>>, 1, w)
      <3>1. \A job \in jobs' \ jobs : s.do = "ran" /\ job = <<s.user, s.week>>
        BY <1>4 DEF Executed
      <3>2. <<"finalize", w>> \in jobs' \ jobs =>
              s.do = "ran" /\ s.user = "finalize" /\ s.week = w
        BY <3>1
      <3>3. <<"recap", w>> \in jobs' \ jobs =>
              s.do = "ran" /\ s.user = "recap" /\ s.week = w
        BY <3>1
      <3>. QED  BY <1>2, <2>2, <2>4, <3>2, <3>3 DEF IsRun
    <2>6. w < week <=> w \in 1..week - 1
      BY <1>8, BoardConstants
    <2>. QED  BY <1>1, <1>10, <2>1, <2>5, <2>6, StillAnnounced
  <1>15. FirstPass'
    <2>. SUFFICES ASSUME Finalizes', plan'.scope \in {1, 2}
                  PROVE  /\ plan'.scope = 1
                         /\ \E i \in 1..Len(plan'.rest) :
                              plan'.rest[i] = Do("ran", "finalize", week - 1, "")
      BY <1>4 DEF FirstPass
    <2>1. plan'.scope = plan.scope /\ plan'.rest = Tail(seq)
      BY <1>3
    <2>2. Finalizes /\ <<"finalize", week - 1>> \notin jobs'
      BY <1>4, <1>10 DEF Finalizes, Grows
    <2>. PICK r : r = Do("ran", "finalize", week - 1, "")
      OBVIOUS
    <2>3. plan.scope = 1 /\ \E i \in 1..Len(seq) : seq[i] = r
      BY <1>1, <2>1, <2>2 DEF FirstPass
    <2>4. PICK i \in 1..Len(seq) : seq[i] = r
      BY <2>3
    <2>5. i # 1
      <3>1. r.do = "ran" /\ r.user = "finalize" /\ r.week = week - 1
        BY DEF Do
      <3>. QED  BY <1>2, <1>4, <2>2, <2>4, <3>1 DEF Executed
    <2>. PICK j : j = i - 1
      OBVIOUS
    <2>6. j \in 1..Len(Tail(seq)) /\ j + 1 = i
      <3>1. Len(seq) \in Nat /\ Len(Tail(seq)) = Len(seq) - 1
        BY <1>2
      <3>2. i - 1 \in 1..Len(seq) - 1 /\ (i - 1) + 1 = i
        BY <2>5, <3>1, OneBefore
      <3>. QED  BY <3>1, <3>2
    <2>7. Tail(seq)[j] = r
      BY <1>2, <2>4, <2>6
    <2>. QED  BY <2>1, <2>3, <2>6, <2>7
  <1>. QED  BY <1>11, <1>12, <1>13, <1>14, <1>15 DEF WeekInv

-----------------------------------------------------------------------------
(* The jobs *)

LEMMA WeekInitially == PlazaInit => WeekInv
  <1>. SUFFICES ASSUME PlazaInit PROVE WeekInv
    OBVIOUS
  <1>1. /\ week = 1 /\ part = "later" /\ podium = {} /\ jobs = {}
        /\ earned = [w \in 1..LastWeek |-> [u \in Climbers |-> 0]]
        /\ board = [w \in 1..LastWeek |-> [u \in Climbers |-> Unranked]]
        /\ plan = [scope |-> 0, rest |-> <<>>]
    BY DEF PlazaInit, NoPlan
  <1>2. Unranked \in BoardRows /\ 0 \in 0..BestScore /\ 1 \in 1..LastWeek
    BY BoardConstants, IdsDiffer DEF Unranked, BoardRows
  <1>3. WeekTypes
    BY <1>1, <1>2 DEF WeekTypes
  <1>. QED  BY <1>1, <1>3 DEF WeekInv, PlanLegal, PodiumEarned, JobsDone, FirstPass

LEMMA WeekStepKeeps ==
  ASSUME WeekInv, [PlazaNext]_plazaVars
  PROVE  WeekInv'
  <1>1. ASSUME NEW a \in Asks, FeedStep(a) PROVE WeekInv'
    <2>1. UNCHANGED weekVars
      BY <1>1 DEF FeedStep, WriteCheer, WriteComment, WriteReport, CountCheer, CountComment,
                  CountReport, HideReported, ResolveReports, LoseRequest
    <2>. QED  BY <2>1, SamePlan
  <1>2. ASSUME NEW a \in Asks, NEW op, NEW v, NEW c, Ask(a, op, v, c) PROVE WeekInv'
    BY <1>2, SamePlan DEF Ask
  <1>3. CASE HideActivity
    BY <1>3, SamePlan DEF HideActivity
  <1>4. ASSUME NEW action, ModerateActivity(action) PROVE WeekInv'
    BY <1>4, SamePlan DEF ModerateActivity
  <1>5. CASE BeginTick
    BY <1>5, BeginTickKeeps
  <1>6. CASE NextScope
    BY <1>6, NextScopeKeeps
  <1>7. CASE BeginRecap
    BY <1>7, BeginRecapKeeps
  <1>8. CASE EndRecap
    BY <1>8, IdlePlan DEF EndRecap
  <1>9. CASE Perform
    BY <1>9, PerformKeeps
  <1>10. CASE StopTick
    BY <1>10, IdlePlan DEF StopTick
  <1>11. CASE WeekClock
    BY <1>11, WeekClockKeeps
  <1>12. ASSUME NEW u \in Climbers, NEW amount \in 1..BestScore, Earn(u, amount) PROVE WeekInv'
    BY <1>12, EarnKeeps
  <1>13. CASE UNCHANGED plazaVars
    BY <1>13, SamePlan DEF plazaVars
  <1>. QED  BY <1>1, <1>2, <1>3, <1>4, <1>5, <1>6, <1>7, <1>8, <1>9, <1>10, <1>11, <1>12, <1>13
            DEF PlazaNext, WeekStep

\* What a row of plaza_job_runs stands for is there.
LEMMA JobsComplete ==
  ASSUME WeekInv
  PROVE  WeeklyJobsComplete
  <1>. SUFFICES ASSUME NEW w \in 1..LastWeek
                PROVE  /\ <<"finalize", w>> \in jobs =>
                            \A u \in Members("live") :
                              /\ {k[1] : k \in {k \in podium : k[2] = w /\ k[3] = u}}
                                   = IF u \in Winners(w, "live") THEN {Place(w, u)} ELSE {}
                              /\ u \in Winners(w, "live") =>
                                   <<"champion", w, u>> \in posted /\ <<"champion", w, u>> \in notices
                       /\ <<"recap", w>> \in jobs => \A u \in Climbers : <<"recap", w, u>> \in notices
    BY DEF WeeklyJobsComplete
  <1>1. \A s, table : Promised(<<>>, 1, s, table) => <<s.arg, s.week, s.user>> \in table
    BY DEF Promised
  <1>2. \A what, u, arg : /\ Do(what, u, w, arg).arg = arg /\ Do(what, u, w, arg).week = w
                          /\ Do(what, u, w, arg).user = u
    BY DEF Do
  <1>3. ASSUME <<"recap", w>> \in jobs, NEW u \in Climbers PROVE <<"recap", w, u>> \in notices
    <2>1. Promised(<<>>, 1, Do("notify", u, w, "recap"), notices)
      BY <1>3 DEF WeekInv, JobsDone, Recaps
    <2>. QED  BY <1>1, <1>2, <2>1
  <1>4. ASSUME <<"finalize", w>> \in jobs, NEW u \in Winners(w, "live")
        PROVE  /\ <<Place(w, u), w, u>> \in podium
               /\ <<"champion", w, u>> \in posted /\ <<"champion", w, u>> \in notices
    <2>1. /\ Promised(<<>>, 1, Do("award", u, w, Place(w, u)), podium)
          /\ Promised(<<>>, 1, Do("post", u, w, "champion"), posted)
          /\ Promised(<<>>, 1, Do("notify", u, w, "champion"), notices)
      BY <1>4 DEF WeekInv, JobsDone, Announces
    <2>. QED  BY <1>1, <1>2, <2>1
  <1>5. ASSUME NEW k \in podium, NEW u, k[2] = w, k[3] = u
        PROVE  u \in Winners(w, "live") /\ k[1] = Place(w, u)
    <2>1. PICK v \in 1..week - 1 : \E x \in Winners(v, "live") : k = <<Place(v, x), v, x>>
      BY DEF WeekInv, PodiumEarned
    <2>2. PICK x \in Winners(v, "live") : k = <<Place(v, x), v, x>>
      BY <2>1
    <2>3. v = w /\ x = u /\ k[1] = Place(v, x)
      BY <1>5, <2>2
    <2>. QED  BY <2>2, <2>3
  <1>6. ASSUME <<"finalize", w>> \in jobs, NEW u
        PROVE  {k[1] : k \in {k \in podium : k[2] = w /\ k[3] = u}}
                 = IF u \in Winners(w, "live") THEN {Place(w, u)} ELSE {}
    <2>1. CASE u \in Winners(w, "live")
      <3>. PICK key : key = <<Place(w, u), w, u>>
        OBVIOUS
      <3>1. key \in podium /\ key[1] = Place(w, u) /\ key[2] = w /\ key[3] = u
        BY <1>4, <1>6, <2>1
      <3>. QED  BY <1>5, <2>1, <3>1
    <2>2. CASE u \notin Winners(w, "live")
      BY <1>5, <2>2
    <2>. QED  BY <2>1, <2>2
  <1>. QED  BY <1>3, <1>4, <1>6

-----------------------------------------------------------------------------
(* Paging through the board *)

LEMMA InitialSegment ==
  ASSUME NEW n \in Nat, NEW S, S \subseteq 1..n, \A i \in S : \A j \in 1..n : j < i => j \in S
  PROVE  Cardinality(S) \in 0..n /\ S = 1..Cardinality(S)
  <1>1. CASE S = 1..n
    <2>1. Cardinality(1..n) = n
      BY FS_Interval
    <2>. QED  BY <1>1, <2>1
  <1>2. CASE S # 1..n
    <2>. DEFINE Out == (1..n) \ S
    <2>1. PICK m \in Out : \A k \in Out : m <= k
      <3>1. IsFiniteSet(1..n)
        BY FS_Interval
      <3>2. IsFiniteSet(Out)
        BY <3>1, FS_Subset
      <3>3. Out # {}
        BY <1>2
      <3>4. \A x \in Out : x \in Int
        OBVIOUS
      <3>. HIDE DEF Out
      <3>. QED  BY <3>2, <3>3, <3>4, LeastExists
    <2>2. m \in 1..n /\ m \notin S
      OBVIOUS
    <2>3. \A k \in 1..n : k \in S <=> k < m
      <3>. SUFFICES ASSUME NEW k \in 1..n PROVE k \in S <=> k < m
        OBVIOUS
      <3>1. k < m => k \in S
        BY <2>1, <2>2
      <3>2. k \in S => ~(m < k) /\ m # k
        BY <2>2
      <3>. QED  BY <2>2, <3>1, <3>2
    <2>. HIDE DEF Out
    <2>4. S = 1..m - 1
      <3>1. \A k \in 1..n : k < m <=> k \in 1..m - 1
        BY <2>2
      <3>2. 1..m - 1 \subseteq 1..n
        BY <2>2
      <3>. QED  BY <2>3, <3>1, <3>2
    <2>5. m - 1 \in Nat
      BY <2>2
    <2>6. Cardinality(1..m - 1) = m - 1
      BY <2>5, FS_Interval
    <2>. QED  BY <2>2, <2>4, <2>6
  <1>. QED  BY <1>1, <1>2

\* Rows in the order of their ranks; the rank of a row is the place of the
\* first of those it ties with.
BoardOrder(table) ==
  /\ Len(table) \in Nat /\ DOMAIN table = 1..Len(table)
  /\ \A i, j \in 1..Len(table) : i < j => table[i].rank <= table[j].rank
  /\ \A i \in 1..Len(table) : /\ table[i].rank \in 1..i
                              /\ table[table[i].rank].rank = table[i].rank

LEMMA RankIsPlace ==
  ASSUME NEW R, R \subseteq Climbers, NEW scores \in [R -> Nat], NEW u \in R, NEW v \in R
  PROVE  scores[v] > scores[u] <=> RankOf(scores, v) < RankOf(scores, u)
  <1>. PICK over, under : /\ over = {x \in R : scores[x] > scores[u]}
                          /\ under = {x \in R : scores[x] > scores[v]}
    OBVIOUS
  <1>1. RankOf(scores, u) = 1 + Cardinality(over) /\ RankOf(scores, v) = 1 + Cardinality(under)
    BY DEF RankOf
  <1>2. IsFiniteSet(R)
    BY BoardConstants, FS_Subset
  <1>3. IsFiniteSet(over) /\ IsFiniteSet(under)
        /\ Cardinality(over) \in Nat /\ Cardinality(under) \in Nat
    BY <1>2, FS_Subset, FS_CardinalityType
  <1>4. ASSUME scores[v] > scores[u] PROVE RankOf(scores, v) < RankOf(scores, u)
    <2>1. under \subseteq over
      <3>. SUFFICES ASSUME NEW x \in R, scores[x] > scores[v] PROVE scores[x] > scores[u]
        OBVIOUS
      <3>. QED  BY <1>4
    <2>2. v \in over /\ v \notin under
      BY <1>4
    <2>3. Cardinality(under) <= Cardinality(over) /\ Cardinality(under) # Cardinality(over)
      BY <1>3, <2>1, <2>2, FS_Subset
    <2>. QED  BY <1>1, <1>3, <2>3
  <1>5. ASSUME ~(scores[v] > scores[u]) PROVE ~(RankOf(scores, v) < RankOf(scores, u))
    <2>1. over \subseteq under
      <3>. SUFFICES ASSUME NEW x \in R, scores[x] > scores[u] PROVE scores[x] > scores[v]
        OBVIOUS
      <3>. QED  BY <1>5
    <2>2. Cardinality(over) <= Cardinality(under)
      BY <1>3, <2>1, FS_Subset
    <2>. QED  BY <1>1, <1>3, <2>2
  <1>. QED  BY <1>4, <1>5

LEMMA StandingsOrdered ==
  ASSUME WeekTypes, NEW scope
  PROVE  BoardOrder(Standings(scope))
  <1>. DEFINE R == Ranked(scope)
              scores == ScoresOf(scope)
              rank == [u \in R |-> RankOf(scores, u)]
              s == InRankOrder(R, rank)
              n == Cardinality(R)
              table == Standings(scope)
  <1>1. R \subseteq Climbers /\ scores \in [R -> Nat]
    <2>1. R \subseteq Climbers
      BY PlazaConstants DEF Ranked, Members
    <2>2. \A u \in Climbers : earned[week][u] \in Nat
      BY BoardConstants DEF WeekTypes
    <2>. QED  BY <2>1, <2>2 DEF ScoresOf
  <1>2. IsFiniteSet(R) /\ n \in Nat
    BY <1>1, BoardConstants, FS_Subset, FS_CardinalityType
  <1>3. table = [i \in DOMAIN s |-> [user |-> s[i], rank |-> rank[s[i]]]]
    BY DEF Standings, Ranked, ScoresOf
  <1>. HIDE DEF R, scores
  <1>4. \A u \in R : rank[u] = RankOf(scores, u) /\ rank[u] \in Nat
    BY <1>1, RanksFit, IdsDiffer
  <1>5. Sorted(s, R, rank)
    <2>. HIDE DEF rank
    <2>. QED  BY <1>1, <1>4, RankOrder
  <1>. HIDE DEF rank, s
  <1>6. /\ s \in [1..n -> R] /\ \A u \in R : \E i \in 1..n : s[i] = u
        /\ \A i, j \in 1..n : i < j => rank[s[i]] <= rank[s[j]]
        /\ \A i, j \in 1..n : s[i] = s[j] => i = j
    BY <1>5 DEF Sorted
  <1>7. /\ DOMAIN table = 1..n /\ Len(table) = n
        /\ \A i \in 1..n : table[i].rank = rank[s[i]]
    BY <1>2, <1>3, <1>6
  <1>. HIDE DEF table, n
  <1>8. ASSUME NEW i \in 1..n
        PROVE  rank[s[i]] \in 1..i /\ rank[s[rank[s[i]]]] = rank[s[i]]
    <2>. PICK r : r = rank[s[i]]
      OBVIOUS
    <2>. DEFINE S == {j \in 1..n : rank[s[j]] < r}
                above == {v \in R : scores[v] > scores[s[i]]}
    <2>1. r = 1 + Cardinality(above) /\ r \in Nat
      <3>1. s[i] \in R
        BY <1>6
      <3>2. r = RankOf(scores, s[i]) /\ r \in Nat
        BY <1>4, <3>1
      <3>3. DOMAIN scores = R
        BY <1>1
      <3>. QED  BY <3>2, <3>3 DEF RankOf
    <2>2. \A v \in R : v \in above <=> rank[v] < r
      BY <1>1, <1>4, <1>6, RankIsPlace
    <2>. HIDE DEF above
    <2>3. Cardinality(S) \in 0..n /\ S = 1..Cardinality(S)
      <3>1. ASSUME NEW j \in S, NEW k \in 1..n, k < j PROVE k \in S
        <4>1. rank[s[k]] <= rank[s[j]] /\ rank[s[j]] < r /\ rank[s[k]] \in Nat /\ rank[s[j]] \in Nat
          BY <1>4, <1>6, <3>1
        <4>. QED  BY <2>1, <4>1
      <3>2. S \subseteq 1..n
        OBVIOUS
      <3>. HIDE DEF S
      <3>. QED  BY <1>2, <3>1, <3>2, InitialSegment DEF n
    <2>4. Cardinality(S) = Cardinality(above)
      <3>. DEFINE f == [j \in S |-> s[j]]
      <3>1. f \in [S -> above] /\ \A j, k \in S : f[j] = f[k] => j = k
        BY <1>6, <2>2
      <3>2. \A v \in above : \E j \in S : f[j] = v
        <4>. SUFFICES ASSUME NEW v \in above PROVE \E j \in S : f[j] = v
          OBVIOUS
        <4>1. v \in R
          BY DEF above
        <4>2. PICK j \in 1..n : s[j] = v
          BY <1>6, <4>1
        <4>3. j \in S
          BY <2>2, <4>1, <4>2
        <4>. QED  BY <4>2, <4>3
      <3>3. IsFiniteSet(above)
        BY <1>2, FS_Subset DEF above
      <3>4. IsFiniteSet(S)
        <4>1. IsFiniteSet(1..n)
          BY <1>2, FS_Interval DEF n
        <4>. QED  BY <4>1, FS_Subset
      <3>. HIDE DEF S, f
      <3>5. f \in Bijection(S, above)
        BY <3>1, <3>2 DEF Bijection, Injection, Surjection, IsInjective
      <3>6. ExistsBijection(S, above)
        BY <3>5 DEF ExistsBijection
      <3>. QED  BY <3>3, <3>4, <3>6, FS_Bijection
    <2>5. \A j \in 1..n : rank[s[j]] < r <=> j < r
      <3>1. S = 1..r - 1
        BY <2>1, <2>3, <2>4
      <3>2. \A j \in 1..n : j \in S <=> rank[s[j]] < r
        OBVIOUS
      <3>. HIDE DEF S
      <3>. QED  BY <2>1, <3>1, <3>2
    <2>. HIDE DEF S
    <2>6. r \in 1..i
      <3>1. r >= 1
        <4>1. IsFiniteSet(above)
          BY <1>2, FS_Subset DEF above
        <4>2. Cardinality(above) \in Nat
          BY <4>1, FS_CardinalityType
        <4>. QED  BY <2>1, <4>2
      <3>2. ~(rank[s[i]] < r)
        BY <2>1
      <3>3. ~(i < r)
        BY <2>5, <3>2
      <3>. QED  BY <2>1, <3>1, <3>3
    <2>7. rank[s[r]] = r
      <3>1. r \in 1..n /\ r <= i
        BY <1>2, <2>6 DEF n
      <3>2. ~(rank[s[r]] < r) /\ rank[s[r]] \in Nat
        BY <1>4, <1>6, <2>1, <2>5, <3>1
      <3>3. rank[s[r]] <= r
        <4>1. CASE r = i
          <5>1. rank[s[r]] = r
            BY <4>1
          <5>. QED  BY <2>1, <5>1
        <4>2. CASE r # i
          <5>1. r < i
            BY <2>1, <3>1, <4>2
          <5>. QED  BY <1>6, <3>1, <5>1
        <4>. QED  BY <4>1, <4>2
      <3>. QED  BY <2>1, <3>2, <3>3
    <2>. QED  BY <2>6, <2>7
  <1>9. ASSUME NEW i \in 1..n
        PROVE  table[i].rank \in 1..i /\ table[table[i].rank].rank = table[i].rank
    <2>1. rank[s[i]] \in 1..n
      BY <1>2, <1>8 DEF n
    <2>. QED  BY <1>7, <1>8, <2>1
  <1>10. \A i, j \in 1..n : i < j => table[i].rank <= table[j].rank
    BY <1>6, <1>7
  <1>11. n \in Nat
    BY <1>2
  <1>. QED  BY <1>7, <1>9, <1>10, <1>11 DEF BoardOrder, table

\* The rows behind a rank follow those up to it.
LEMMA PageBehind ==
  ASSUME NEW table, BoardOrder(table), NEW after \in Nat
  PROVE  /\ PageStart(table, after) \in 1..Len(table) + 1
         /\ \A i \in 1..Len(table) : table[i].rank <= after <=> i < PageStart(table, after)
  <1>. PICK n : n = Len(table)
    OBVIOUS
  <1>. DEFINE S == {i \in 1..n : table[i].rank <= after}
  <1>1. n \in Nat /\ DOMAIN table = 1..n /\ \A i \in 1..n : table[i].rank \in Nat
    BY DEF BoardOrder
  <1>2. ASSUME NEW i \in S, NEW j \in 1..n, j < i PROVE j \in S
    <2>1. table[j].rank <= table[i].rank
      BY <1>2 DEF BoardOrder
    <2>2. table[i].rank \in Nat /\ table[j].rank \in Nat /\ table[i].rank <= after
      BY <1>1
    <2>. QED  BY <2>1, <2>2
  <1>3. S \subseteq 1..n
    OBVIOUS
  <1>4. PageStart(table, after) = 1 + Cardinality(S)
    BY <1>1 DEF PageStart
  <1>5. \A i \in 1..n : i \in S <=> table[i].rank <= after
    OBVIOUS
  <1>. HIDE DEF S
  <1>6. Cardinality(S) \in 0..n /\ S = 1..Cardinality(S)
    BY <1>1, <1>2, <1>3, InitialSegment
  <1>7. \A i \in 1..n : i \in 1..Cardinality(S) <=> i < 1 + Cardinality(S)
    BY <1>1, <1>6
  <1>. QED  BY <1>1, <1>4, <1>5, <1>6, <1>7

LastOf(table, after) == PageStart(table, after) + PageSize - 1

NextTurn(table, turn) ==
  {table[LastOf(table, r)].rank : r \in {r \in turn : LastOf(table, r) < Len(table)}}

TurnsUpto(it, table, n) ==
  it = [i \in 1..n |-> IF i = 1 THEN {PodiumSize} ELSE NextTurn(table, it[i - 1])]

LEMMA TurnsIterated ==
  ASSUME NEW table
  PROVE  Turns(table) = CHOOSE it : TurnsUpto(it, table, Len(table) + 1)
  BY DEF Turns, TurnsUpto, NextTurn, LastOf

LEMMA TurnsExist ==
  ASSUME NEW table, NEW n \in Nat \ {0}
  PROVE  \E it : TurnsUpto(it, table, n)
  <1>. DEFINE Bad == {m \in 1..n : ~ \E it : TurnsUpto(it, table, m)}
  <1>. SUFFICES ASSUME Bad # {} PROVE FALSE
    OBVIOUS
  <1>1. PICK m \in Bad : \A k \in Bad : m <= k
    <2>1. IsFiniteSet(1..n)
      BY FS_Interval
    <2>2. IsFiniteSet(Bad) /\ \A x \in Bad : x \in Int
      BY <2>1, FS_Subset
    <2>. HIDE DEF Bad
    <2>. QED  BY <2>2, LeastExists
  <1>2. m \in 1..n
    OBVIOUS
  <1>3. m # 1
    <2>1. TurnsUpto([i \in 1..1 |-> {PodiumSize}], table, 1)
      BY DEF TurnsUpto
    <2>. QED  BY <2>1
  <1>4. m - 1 \in 1..n /\ m - 1 \notin Bad
    BY <1>1, <1>2, <1>3
  <1>5. PICK f : TurnsUpto(f, table, m - 1)
    BY <1>4
  <1>. DEFINE it == [i \in 1..m |-> IF i = m THEN NextTurn(table, f[m - 1]) ELSE f[i]]
  <1>6. ASSUME NEW i \in 1..m
        PROVE  it[i] = IF i = 1 THEN {PodiumSize} ELSE NextTurn(table, it[i - 1])
    <2>1. CASE i = m
      <3>1. i # 1 /\ i - 1 \in 1..m /\ i - 1 # m /\ i - 1 = m - 1
        BY <1>2, <1>3, <2>1
      <3>2. it[i] = NextTurn(table, f[m - 1]) /\ it[i - 1] = f[m - 1]
        BY <2>1, <3>1
      <3>. QED  BY <2>1, <3>1, <3>2
    <2>2. CASE i # m
      <3>1. i \in 1..m - 1 /\ it[i] = f[i] /\ (i # 1 => it[i - 1] = f[i - 1])
        BY <1>2, <2>2
      <3>2. f[i] = IF i = 1 THEN {PodiumSize} ELSE NextTurn(table, f[i - 1])
        BY <1>5, <3>1 DEF TurnsUpto
      <3>. QED  BY <3>1, <3>2
    <2>. QED  BY <2>1, <2>2
  <1>7. TurnsUpto(it, table, m)
    <2>. HIDE DEF it
    <2>1. it = [i \in 1..m |-> it[i]]
      BY DEF it
    <2>. QED  BY <1>6, <2>1 DEF TurnsUpto
  <1>. QED  BY <1>7

\* A turn starts one page, behind all that the turns before it showed.
GoodTurn(turns, table, n) ==
  \A r \in turns[n] :
    /\ r \in Nat /\ (\A q \in turns[n] : q = r) /\ n <= PageStart(table, r)
    /\ \A m \in 1..n - 1 : \E q \in turns[m] : LastOf(table, q) \in Nat /\ LastOf(table, q) < PageStart(table, r)

LEMMA FirstTurn ==
  ASSUME NEW table, BoardOrder(table), NEW turns, turns[1] = {PodiumSize}
  PROVE  GoodTurn(turns, table, 1)
  <1>1. PodiumSize \in Nat
    BY BoardConstants
  <1>2. 1 <= PageStart(table, PodiumSize)
    BY <1>1, PageBehind DEF BoardOrder
  <1>. QED  BY <1>1, <1>2 DEF GoodTurn

LEMMA NextTurnGood ==
  ASSUME NEW table, BoardOrder(table), NEW turns, NEW n \in Nat, n > 1,
         turns[n] = NextTurn(table, turns[n - 1]), GoodTurn(turns, table, n - 1)
  PROVE  GoodTurn(turns, table, n)
  <1>. SUFFICES ASSUME NEW r \in turns[n]
                PROVE  /\ r \in Nat /\ (\A q \in turns[n] : q = r) /\ n <= PageStart(table, r)
                       /\ \A m \in 1..n - 1 : \E q \in turns[m] : LastOf(table, q) \in Nat /\ LastOf(table, q) < PageStart(table, r)
    BY DEF GoodTurn
  <1>1. PICK q \in turns[n - 1] : LastOf(table, q) < Len(table) /\ r = table[LastOf(table, q)].rank
    BY DEF NextTurn
  <1>2. /\ q \in Nat /\ (\A p \in turns[n - 1] : p = q) /\ n - 1 <= PageStart(table, q)
        /\ \A m \in 1..(n - 1) - 1 : \E p \in turns[m] : LastOf(table, p) \in Nat /\ LastOf(table, p) < PageStart(table, q)
    BY DEF GoodTurn
  <1>3. PageSize \in Nat /\ PageSize >= 1 /\ Len(table) \in Nat
    BY BoardConstants DEF BoardOrder
  <1>4. PageStart(table, q) \in 1..Len(table) + 1
    BY <1>2, PageBehind
  <1>. PICK e : e = LastOf(table, q)
    OBVIOUS
  <1>5. e \in 1..Len(table) /\ PageStart(table, q) <= e
    <2>1. e = PageStart(table, q) + PageSize - 1 /\ e < Len(table)
      BY <1>1 DEF LastOf
    <2>. QED  BY <1>3, <1>4, <2>1
  <1>6. r = table[e].rank /\ r \in Nat
    BY <1>1, <1>5 DEF BoardOrder
  <1>7. \A p \in turns[n] : p = r
    BY <1>1, <1>2 DEF NextTurn
  <1>8. e < PageStart(table, r) /\ PageStart(table, r) \in Nat
    <2>1. table[e].rank <= r
      BY <1>6
    <2>2. PageStart(table, r) \in 1..Len(table) + 1
      BY <1>6, PageBehind
    <2>3. e < PageStart(table, r)
      BY <1>5, <1>6, <2>1, PageBehind
    <2>. QED  BY <1>3, <2>2, <2>3
  <1>9. n <= PageStart(table, r)
    BY <1>2, <1>4, <1>5, <1>8
  <1>10. ASSUME NEW m \in 1..n - 1
         PROVE  \E p \in turns[m] : LastOf(table, p) \in Nat /\ LastOf(table, p) < PageStart(table, r)
    <2>1. CASE m = n - 1
      BY <1>5, <1>8, <2>1
    <2>2. CASE m # n - 1
      <3>1. m \in 1..(n - 1) - 1
        BY <2>2
      <3>2. PICK p \in turns[m] : LastOf(table, p) \in Nat /\ LastOf(table, p) < PageStart(table, q)
        BY <1>2, <3>1
      <3>. QED  BY <1>4, <1>5, <1>8, <3>2
    <2>. QED  BY <2>1, <2>2
  <1>. QED  BY <1>6, <1>7, <1>9, <1>10

LEMMA TurnsGood ==
  ASSUME NEW table, BoardOrder(table)
  PROVE  /\ DOMAIN Turns(table) = 1..Len(table) + 1 /\ Turns(table)[1] = {PodiumSize}
         /\ \A n \in 2..Len(table) + 1 : Turns(table)[n] = NextTurn(table, Turns(table)[n - 1])
         /\ \A n \in 1..Len(table) + 1 : GoodTurn(Turns(table), table, n)
  <1>. PICK turns, last : turns = Turns(table) /\ last = Len(table) + 1
    OBVIOUS
  <1>1. last \in Nat \ {0}
    BY DEF BoardOrder
  <1>2. TurnsUpto(turns, table, last)
    BY <1>1, TurnsExist, TurnsIterated
  <1>3. DOMAIN turns = 1..last /\ turns[1] = {PodiumSize}
    BY <1>1, <1>2 DEF TurnsUpto
  <1>4. \A n \in 2..last : turns[n] = NextTurn(table, turns[n - 1])
    <2>1. \A n \in 1..last : turns[n] = IF n = 1 THEN {PodiumSize} ELSE NextTurn(table, turns[n - 1])
      BY <1>2 DEF TurnsUpto
    <2>2. \A n \in 2..last : n \in 1..last /\ n # 1
      BY <1>1
    <2>. QED  BY <2>1, <2>2
  <1>5. \A n \in 1..last : GoodTurn(turns, table, n)
    <2>. DEFINE Bad == {n \in 1..last : ~GoodTurn(turns, table, n)}
    <2>. SUFFICES ASSUME Bad # {} PROVE FALSE
      OBVIOUS
    <2>1. PICK m \in Bad : \A k \in Bad : m <= k
      <3>1. IsFiniteSet(1..last)
        BY <1>1, FS_Interval
      <3>2. IsFiniteSet(Bad) /\ \A x \in Bad : x \in Int
        BY <3>1, FS_Subset
      <3>. HIDE DEF Bad
      <3>. QED  BY <3>2, LeastExists
    <2>2. m \in 1..last /\ ~GoodTurn(turns, table, m)
      OBVIOUS
    <2>3. m # 1
      BY <1>3, <2>2, FirstTurn
    <2>4. m \in 2..last /\ m - 1 \in 1..last /\ m \in Nat /\ m > 1 /\ ~(m <= m - 1)
      BY <1>1, <2>2, <2>3
    <2>5. GoodTurn(turns, table, m - 1)
      BY <2>1, <2>4
    <2>. QED  BY <1>4, <2>2, <2>4, <2>5, NextTurnGood
  <1>. QED  BY <1>3, <1>4, <1>5

Pages(table) == [n \in DOMAIN Turns(table) |->
                   UNION {PageRows(table, r) : r \in Turns(table)[n]}]
Seen(table) == PodiumRows(table) \cup UNION {Pages(table)[n] : n \in DOMAIN Pages(table)}

\* Nothing but ties is unseen, and nothing shown twice.
Unseen(table, pages, seen) ==
  /\ \A i \in DOMAIN table \ seen : \E j \in seen : table[j].rank = table[i].rank
  /\ \A n \in DOMAIN pages :
       /\ pages[n] \cap PodiumRows(table) = {}
       /\ \A m \in DOMAIN pages \ {n} : pages[n] \cap pages[m] = {}

\* The pages, by their turns: they are in order, behind the podium, and leave
\* out nothing but ties.
LEMMA PagesCover ==
  ASSUME NEW table, BoardOrder(table)
  PROVE  Unseen(table, Pages(table), Seen(table))
  <1>. PICK pages : pages = Pages(table)
    OBVIOUS
  <1>. PICK seen : seen = Seen(table)
    OBVIOUS
  <1>0. /\ pages = [n \in DOMAIN Turns(table) |->
                     UNION {PageRows(table, r) : r \in Turns(table)[n]}]
        /\ seen = PodiumRows(table) \cup UNION {pages[n] : n \in DOMAIN pages}
    BY DEF Pages, Seen
  <1>. PICK turns, size : turns = Turns(table) /\ size = Len(table)
    OBVIOUS
  <1>1. size \in Nat /\ DOMAIN table = 1..size /\ PageSize \in Nat /\ PageSize >= 1
        /\ PodiumSize \in Nat
    BY BoardConstants DEF BoardOrder
  <1>1a. PageStart(table, PodiumSize) \in 1..size + 1 /\ PageStart(table, PodiumSize) \in Nat
    <2>1. PageStart(table, PodiumSize) \in 1..size + 1
      BY <1>1, PageBehind
    <2>. QED  BY <1>1, <2>1
  <1>2. /\ DOMAIN turns = 1..size + 1 /\ turns[1] = {PodiumSize}
        /\ \A n \in 2..size + 1 : turns[n] = NextTurn(table, turns[n - 1])
        /\ \A n \in 1..size + 1 : GoodTurn(turns, table, n)
    BY TurnsGood
  <1>3. DOMAIN pages = 1..size + 1
        /\ \A n \in 1..size + 1 : \A i : i \in pages[n] <=> \E r \in turns[n] : i \in PageRows(table, r)
    BY <1>0, <1>2
  <1>4. \A n \in 1..size + 1 : pages[n] \subseteq seen
    BY <1>0, <1>3
  <1>5. \A i : i \in PodiumRows(table) <=> i \in 1..size /\ i <= PodiumSize
    BY <1>1 DEF PodiumRows, Upto
  <1>6. \A r : PageStart(table, r) \in Nat =>
           /\ LastOf(table, r) \in Nat
           /\ \A i : i \in PageRows(table, r) <=>
                       i \in Nat /\ PageStart(table, r) <= i /\ i <= size /\ i <= LastOf(table, r)
    <2>. SUFFICES ASSUME NEW r, PageStart(table, r) \in Nat
                  PROVE  /\ LastOf(table, r) \in Nat
                         /\ \A i : i \in PageRows(table, r) <=>
                              i \in Nat /\ PageStart(table, r) <= i /\ i <= size /\ i <= LastOf(table, r)
      OBVIOUS
    <2>. PICK first, last : first = PageStart(table, r) /\ last = LastOf(table, r)
      OBVIOUS
    <2>1. first \in Nat /\ last \in Nat
      BY <1>1 DEF LastOf
    <2>2. PageRows(table, r) = first..(IF last < size THEN last ELSE size)
      BY DEF PageRows, Upto, LastOf
    <2>. QED  BY <1>1, <2>1, <2>2
  <1>7. \A n \in 1..size + 1 : \A r \in turns[n] :
          /\ r \in Nat /\ PageStart(table, r) \in 1..size + 1 /\ LastOf(table, r) \in Nat
          /\ \A q \in turns[n] : q = r
          /\ n <= PageStart(table, r)
          /\ \A m \in 1..n - 1 : \E q \in turns[m] : LastOf(table, q) < PageStart(table, r)
    <2>. SUFFICES ASSUME NEW n \in 1..size + 1, NEW r \in turns[n]
                  PROVE  /\ r \in Nat /\ PageStart(table, r) \in 1..size + 1 /\ LastOf(table, r) \in Nat
                         /\ \A q \in turns[n] : q = r
                         /\ n <= PageStart(table, r)
                         /\ \A m \in 1..n - 1 : \E q \in turns[m] : LastOf(table, q) < PageStart(table, r)
      OBVIOUS
    <2>1. /\ r \in Nat /\ \A q \in turns[n] : q = r
          /\ n <= PageStart(table, r)
          /\ \A m \in 1..n - 1 : \E q \in turns[m] : LastOf(table, q) < PageStart(table, r)
      BY <1>2 DEF GoodTurn
    <2>2. PageStart(table, r) \in 1..size + 1 /\ PageStart(table, r) \in Nat
      BY <1>1, <2>1, PageBehind
    <2>. QED  BY <1>6, <2>1, <2>2
  <1>8. ASSUME NEW m \in 1..size + 1, NEW n \in 1..size + 1, m < n,
               NEW i \in pages[n], i \in pages[m]
        PROVE  FALSE
    <2>1. PICK r \in turns[n] : i \in PageRows(table, r)
      BY <1>3
    <2>2. PICK p \in turns[m] : i \in PageRows(table, p)
      BY <1>3, <1>8
    <2>3. m \in 1..n - 1
      BY <1>1, <1>8
    <2>4. LastOf(table, p) < PageStart(table, r)
      BY <1>7, <2>3
    <2>5. i <= LastOf(table, p) /\ PageStart(table, r) <= i /\ i \in Nat
      <3>1. PageStart(table, p) \in 1..size + 1 /\ PageStart(table, r) \in 1..size + 1
        BY <1>7
      <3>2. PageStart(table, p) \in Nat /\ PageStart(table, r) \in Nat
        BY <1>1, <3>1
      <3>. QED  BY <1>6, <2>1, <2>2, <3>2
    <2>6. LastOf(table, p) \in Nat /\ PageStart(table, r) \in Nat
      BY <1>1, <1>7
    <2>. QED  BY <2>4, <2>5, <2>6
  <1>9. \A n \in 1..size + 1 : \A r \in turns[n] : PageStart(table, PodiumSize) <= PageStart(table, r)
    <2>. SUFFICES ASSUME NEW n \in 1..size + 1, NEW r \in turns[n]
                  PROVE  PageStart(table, PodiumSize) <= PageStart(table, r)
      OBVIOUS
    <2>1. PageStart(table, PodiumSize) \in 1..size + 1 /\ PageStart(table, r) \in 1..size + 1
      BY <1>1, <1>7, PageBehind
    <2>2. CASE n = 1
      BY <1>2, <2>1, <2>2
    <2>3. CASE n # 1
      <3>1. 1 \in 1..n - 1
        BY <1>1, <2>3
      <3>2. LastOf(table, PodiumSize) < PageStart(table, r)
        BY <1>2, <1>7, <3>1
      <3>3. LastOf(table, PodiumSize) = PageStart(table, PodiumSize) + PageSize - 1
        BY DEF LastOf
      <3>. QED  BY <1>1, <2>1, <3>2, <3>3
    <2>. QED  BY <2>2, <2>3
  <1>10. ASSUME NEW n \in 1..size + 1, NEW i \in pages[n], i \in PodiumRows(table) PROVE FALSE
    <2>1. i \in 1..size /\ i <= PodiumSize
      BY <1>5, <1>10
    <2>2. PICK r \in turns[n] : i \in PageRows(table, r)
      BY <1>3
    <2>3. PageStart(table, r) <= i /\ PageStart(table, r) \in Nat
      BY <1>1, <1>6, <1>7, <2>2
    <2>4. table[i].rank \in 1..i
      BY <2>1 DEF BoardOrder
    <2>5. i < PageStart(table, PodiumSize)
      <3>1. table[i].rank <= PodiumSize
        BY <1>1, <2>1, <2>4
      <3>. QED  BY <1>1, <2>1, <3>1, PageBehind
    <2>6. PageStart(table, PodiumSize) <= PageStart(table, r)
      BY <1>9
    <2>. QED  BY <1>1a, <2>1, <2>3, <2>5, <2>6
  <1>11. ASSUME NEW i \in 1..size, i \notin seen
         PROVE  \E j \in seen : table[j].rank = table[i].rank
    <2>1. table[i].rank \in 1..i /\ table[table[i].rank].rank = table[i].rank
      BY DEF BoardOrder
    <2>2. CASE table[i].rank <= PodiumSize
      <3>1. table[i].rank \in 1..size
        BY <1>1, <2>1
      <3>2. table[i].rank \in seen
        BY <1>0, <1>5, <2>2, <3>1
      <3>. QED  BY <2>1, <3>2
    <2>3. CASE ~(table[i].rank <= PodiumSize)
      <3>. DEFINE Late == {n \in 1..size + 1 : ~ \E r \in turns[n] : PageStart(table, r) <= i}
      <3>1. size + 1 \in Late
        <4>1. size + 1 \in 1..size + 1
          BY <1>1
        <4>2. \A r \in turns[size + 1] : ~(PageStart(table, r) <= i)
          <5>. SUFFICES ASSUME NEW r \in turns[size + 1] PROVE ~(PageStart(table, r) <= i)
            OBVIOUS
          <5>1. size + 1 <= PageStart(table, r) /\ PageStart(table, r) \in Nat
            BY <1>1, <1>7, <4>1
          <5>. QED  BY <1>1, <5>1
        <4>. QED  BY <4>1, <4>2
      <3>2. PICK b \in Late : \A k \in Late : b <= k
        <4>1. IsFiniteSet(1..size + 1)
          BY <1>1, FS_Interval
        <4>2. IsFiniteSet(Late)
          BY <4>1, FS_Subset
        <4>3. \A x \in Late : x \in Int
          OBVIOUS
        <4>. HIDE DEF Late
        <4>. QED  BY <3>1, <4>2, <4>3, LeastExists
      <3>3. b \in 1..size + 1 /\ ~ \E r \in turns[b] : PageStart(table, r) <= i
        OBVIOUS
      <3>4. b # 1
        <4>1. ~(i < PageStart(table, PodiumSize))
          BY <1>1, <2>3, PageBehind
        <4>2. PageStart(table, PodiumSize) <= i
          BY <1>1a, <4>1
        <4>. QED  BY <1>2, <3>3, <4>2
      <3>5. b \in 2..size + 1 /\ b - 1 \in 1..size + 1 /\ ~(b <= b - 1)
        BY <1>1, <3>3, <3>4
      <3>6. b - 1 \notin Late
        BY <3>2, <3>5
      <3>7. PICK r \in turns[b - 1] : PageStart(table, r) <= i
        BY <3>5, <3>6
      <3>. HIDE DEF Late
      <3>8. PageStart(table, r) \in Nat /\ LastOf(table, r) \in Nat /\ r \in Nat
        BY <1>1, <1>7, <3>5
      <3>9. ~(i <= LastOf(table, r))
        <4>. SUFFICES ASSUME i <= LastOf(table, r) PROVE FALSE
          OBVIOUS
        <4>1. i \in PageRows(table, r)
          BY <1>1, <1>6, <3>7, <3>8
        <4>. QED  BY <1>3, <1>4, <1>11, <3>5, <4>1
      <3>. PICK e : e = LastOf(table, r)
        OBVIOUS
      <3>10. e \in 1..size /\ e < i /\ e < size /\ PageStart(table, r) <= e
        <4>1. e = PageStart(table, r) + PageSize - 1
          BY DEF LastOf
        <4>2. PageStart(table, r) \in 1..size + 1
          BY <1>7, <3>5
        <4>. QED  BY <1>1, <3>8, <3>9, <4>1, <4>2
      <3>11. table[e].rank \in turns[b] /\ table[e].rank \in Nat
        <4>1. turns[b] = NextTurn(table, turns[b - 1])
          BY <1>2, <3>5
        <4>2. LastOf(table, r) < Len(table) /\ table[e].rank = table[LastOf(table, r)].rank
          BY <3>10
        <4>3. table[e].rank \in turns[b]
          BY <3>7, <4>1, <4>2 DEF NextTurn
        <4>. QED  BY <1>7, <3>3, <4>3
      <3>12. i < PageStart(table, table[e].rank)
        <4>1. ~(PageStart(table, table[e].rank) <= i)
          BY <3>3, <3>11
        <4>2. PageStart(table, table[e].rank) \in 1..size + 1
          BY <3>11, PageBehind
        <4>. QED  BY <1>1, <4>1, <4>2
      <3>13. table[i].rank <= table[e].rank
        BY <3>11, <3>12, PageBehind
      <3>14. table[e].rank <= table[i].rank
        BY <3>10 DEF BoardOrder
      <3>15. table[i].rank = table[e].rank
        BY <2>1, <3>11, <3>13, <3>14
      <3>16. e \in seen
        <4>1. e \in PageRows(table, r)
          BY <1>1, <1>6, <3>8, <3>10
        <4>. QED  BY <1>3, <1>4, <3>5, <4>1
      <3>. QED  BY <3>15, <3>16
    <2>. QED  BY <2>2, <2>3
  <1>12. \A n \in 1..size + 1 : \A m \in (1..size + 1) \ {n} : pages[n] \cap pages[m] = {}
    <2>. SUFFICES ASSUME NEW n \in 1..size + 1, NEW m \in 1..size + 1, m # n,
                         NEW i \in pages[n], i \in pages[m]
                  PROVE  FALSE
      OBVIOUS
    <2>1. m < n \/ n < m
      BY <1>1
    <2>. QED  BY <1>8, <2>1
  <1>. QED  BY <1>1, <1>3, <1>10, <1>11, <1>12 DEF Unseen

\* Everyone is seen by who pages through the whole board, except behind a tie.
LEMMA PagesComplete == WeekInv => OnlyTiesUnseen
  <1>. SUFFICES ASSUME WeekInv PROVE OnlyTiesUnseen
    OBVIOUS
  <1>. PICK table : table = Standings("live")
    OBVIOUS
  <1>1. BoardOrder(table)
    BY StandingsOrdered DEF WeekInv
  <1>. QED  BY <1>1, PagesCover DEF OnlyTiesUnseen, Unseen, Pages, Seen

\* The jobs of a week that are recorded as run have reached everybody, and
\* the board leaves out nobody but behind a tie: in every state of the Plaza.
THEOREM StandingsCorrect == PlazaSpec => []StandingsComplete
  <1>1. PlazaInit => WeekInv
    BY WeekInitially
  <1>2. WeekInv /\ [PlazaNext]_plazaVars => WeekInv'
    BY WeekStepKeeps
  <1>3. WeekInv => StandingsComplete
    BY JobsComplete, PagesComplete DEF StandingsComplete
  <1>. QED  BY <1>1, <1>2, <1>3, PTL DEF PlazaSpec

-----------------------------------------------------------------------------
(* The types of the Plaza *)

CommentRow == [state : {"none", "posted", "deleted"}, hidden : {"no", "auto", "admin"}]
AskSteps == {"idle", "write", "count", "hide"}

\* What PlazaTypeOK says and the counters and the board do not need.
FeedTypes ==
  /\ shown \in BOOLEAN
  /\ comment \in [Comments -> CommentRow]
  /\ commentCount \in Nat /\ cleared \subseteq Comments
  /\ openReports \in [Comments -> SUBSET Viewers]
  /\ lost \in 0..MaxLost
  /\ \A a \in Asks : ask[a].step \in AskSteps

\* A request that goes on is at one of its steps.
LEMMA StepsFit ==
  ASSUME FeedTables, FeedTypes, NEW a \in Asks, NEW step \in AskSteps, Then(a, step)
  PROVE  \A b \in Asks : ask'[b].step \in AskSteps
  <1>1. Moves(a, step)
    BY ThenMoves DEF FeedTables
  <1>. QED  BY <1>1 DEF Moves, FeedTypes

LEMMA CheerTyped ==
  ASSUME FeedTables, FeedTypes, NEW a \in Asks, WriteCheer(a) \/ CountCheer(a)
  PROVE  FeedTypes'
  <1>1. \A b \in Asks : ask'[b].step \in AskSteps
    BY StepsFit DEF WriteCheer, CountCheer, AskSteps
  <1>2. UNCHANGED <<shown, comment, commentCount, cleared, openReports, lost>>
    BY DEF WriteCheer, CountCheer
  <1>. QED  BY <1>1, <1>2 DEF FeedTypes

LEMMA CommentTyped ==
  ASSUME FeedTables, FeedTypes, NEW a \in Asks, WriteComment(a)
  PROVE  FeedTypes'
  <1>1. \A b \in Asks : ask'[b].step \in AskSteps
    BY StepsFit DEF WriteComment, AskSteps
  <1>2. UNCHANGED <<shown, commentCount, openReports, lost>>
    BY DEF WriteComment
  <1>3. PICK c \in Comments : c = ask[a].on
    BY DEF WriteComment, At, FeedTables
  <1>4. cleared' \subseteq Comments
    BY <1>3 DEF WriteComment, FeedTypes
  <1>5. \/ comment' = comment
        \/ \E value \in {"posted", "deleted"} :
             comment' = [comment EXCEPT ![c] = [comment[c] EXCEPT !["state"] = value]]
        \/ \E value \in {"no", "admin"} :
             comment' = [comment EXCEPT ![c] = [comment[c] EXCEPT !["hidden"] = value]]
    BY <1>3 DEF WriteComment
  <1>6. comment' \in [Comments -> CommentRow]
    <2>1. comment[c] \in CommentRow
      BY DEF FeedTypes
    <2>2. ASSUME NEW row \in CommentRow, comment' = [comment EXCEPT ![c] = row]
          PROVE  comment' \in [Comments -> CommentRow]
      BY <2>2 DEF FeedTypes
    <2>3. ASSUME NEW value \in {"posted", "deleted"}
          PROVE  [comment[c] EXCEPT !["state"] = value] \in CommentRow
      BY <2>1 DEF CommentRow
    <2>4. ASSUME NEW value \in {"no", "admin"}
          PROVE  [comment[c] EXCEPT !["hidden"] = value] \in CommentRow
      BY <2>1 DEF CommentRow
    <2>. QED  BY <1>5, <2>2, <2>3, <2>4 DEF FeedTypes
  <1>. QED  BY <1>1, <1>2, <1>4, <1>6 DEF FeedTypes

LEMMA ReportTyped ==
  ASSUME FeedTables, FeedTypes, NEW a \in Asks, WriteReport(a)
  PROVE  FeedTypes'
  <1>1. \A b \in Asks : ask'[b].step \in AskSteps
    BY StepsFit DEF WriteReport, AskSteps
  <1>2. ask[a].on \in Comments /\ ask[a].by \in Viewers
    BY DEF WriteReport, At, FeedTables
  <1>3. openReports' \in [Comments -> SUBSET Viewers]
    BY <1>2 DEF WriteReport, FeedTypes
  <1>4. UNCHANGED <<shown, comment, commentCount, cleared, lost>>
    BY DEF WriteReport
  <1>. QED  BY <1>1, <1>3, <1>4 DEF FeedTypes

LEMMA CountTyped ==
  ASSUME FeedTables, FeedTypes, NEW a \in Asks, CountComment(a)
  PROVE  FeedTypes'
  <1>1. \A b \in Asks : ask'[b].step \in AskSteps
    BY StepsFit DEF CountComment, AskSteps
  <1>2. commentCount' \in Nat
    BY DEF CountComment, Less, FeedTypes
  <1>3. UNCHANGED <<shown, comment, cleared, openReports, lost>>
    BY DEF CountComment
  <1>. QED  BY <1>1, <1>2, <1>3 DEF FeedTypes

LEMMA CountReportTyped ==
  ASSUME FeedTables, FeedTypes, NEW a \in Asks, CountReport(a)
  PROVE  FeedTypes'
  <1>1. \A b \in Asks : ask'[b].step \in AskSteps
    BY StepsFit DEF CountReport, AskSteps
  <1>2. UNCHANGED <<shown, comment, commentCount, cleared, openReports, lost>>
    BY DEF CountReport
  <1>. QED  BY <1>1, <1>2 DEF FeedTypes

LEMMA HideTyped ==
  ASSUME FeedTables, FeedTypes, NEW a \in Asks, HideReported(a)
  PROVE  FeedTypes'
  <1>1. \A b \in Asks : ask'[b].step \in AskSteps
    BY StepsFit DEF HideReported, AskSteps
  <1>2. comment' \in [Comments -> CommentRow]
    <2>1. comment' = [comment EXCEPT ![ask[a].on].hidden = "auto"]
      BY DEF HideReported
    <2>. QED  BY <2>1 DEF FeedTypes, CommentRow
  <1>3. UNCHANGED <<shown, commentCount, cleared, openReports, lost>>
    BY DEF HideReported
  <1>. QED  BY <1>1, <1>2, <1>3 DEF FeedTypes

LEMMA ResolveTyped ==
  ASSUME FeedTables, FeedTypes, NEW a \in Asks, ResolveReports(a)
  PROVE  FeedTypes'
  <1>1. \A b \in Asks : ask'[b].step \in AskSteps
    BY StepsFit DEF ResolveReports, AskSteps
  <1>2. openReports' \in [Comments -> SUBSET Viewers]
    BY DEF ResolveReports, FeedTypes
  <1>3. UNCHANGED <<shown, comment, commentCount, cleared, lost>>
    BY DEF ResolveReports
  <1>. QED  BY <1>1, <1>2, <1>3 DEF FeedTypes

LEMMA LossTyped ==
  ASSUME FeedTables, FeedTypes, NEW a \in Asks, LoseRequest(a)
  PROVE  FeedTypes'
  <1>1. \A b \in Asks : ask'[b].step \in AskSteps
    BY StepsFit DEF LoseRequest, AskSteps
  <1>2. lost' \in 0..MaxLost
    BY BoardConstants DEF LoseRequest, FeedTypes
  <1>3. UNCHANGED <<shown, comment, commentCount, cleared, openReports>>
    BY DEF LoseRequest, feedRows
  <1>. QED  BY <1>1, <1>2, <1>3 DEF FeedTypes

LEMMA AskTyped ==
  ASSUME FeedTables, FeedTypes, NEW a \in Asks, NEW op, NEW v, NEW c, Ask(a, op, v, c)
  PROVE  FeedTypes'
  <1>1. PICK row : row = [step |-> "write", op |-> op, by |-> v, on |-> c]
    OBVIOUS
  <1>2. ask' = [ask EXCEPT ![a] = row] /\ row.step = "write"
    BY <1>1 DEF Ask
  <1>3. ask = [b \in Asks |-> ask[b]]
    BY DEF FeedTables, RequestTable
  <1>4. \A b \in Asks : ask'[b].step \in AskSteps
    BY <1>2, <1>3 DEF FeedTypes, AskSteps
  <1>5. UNCHANGED <<shown, comment, commentCount, cleared, openReports, lost>>
    BY DEF Ask, feedRows
  <1>. QED  BY <1>4, <1>5 DEF FeedTypes

LEMMA FeedTypesKept ==
  ASSUME FeedTables, FeedTypes, [PlazaNext]_plazaVars
  PROVE  FeedTypes'
  <1>1. ASSUME NEW a \in Asks, FeedStep(a) PROVE FeedTypes'
    BY <1>1, CheerTyped, CommentTyped, ReportTyped, CountTyped, CountReportTyped, HideTyped,
       ResolveTyped, LossTyped DEF FeedStep
  <1>2. CASE HideActivity \/ \E action \in {"hide", "restore"} : ModerateActivity(action)
    BY <1>2 DEF HideActivity, ModerateActivity, feedRows, FeedTypes
  <1>3. CASE WeekStep
    <2>1. UNCHANGED feedVars
      BY <1>3 DEF WeekStep, BeginTick, NextScope, BeginRecap, EndRecap, Perform, StopTick, WeekClock
    <2>2. lost' \in 0..MaxLost
      <3>1. CASE StopTick
        BY <3>1, BoardConstants DEF FeedTypes, StopTick
      <3>2. CASE ~StopTick
        BY <1>3, <3>2
           DEF FeedTypes, WeekStep, BeginTick, NextScope, BeginRecap, EndRecap, Perform, WeekClock
      <3>. QED  BY <3>1, <3>2
    <2>. QED  BY <2>1, <2>2 DEF FeedTypes, feedVars, feedRows
  <1>4. ASSUME NEW u, NEW amount, Earn(u, amount) PROVE FeedTypes'
    BY <1>4 DEF Earn, FeedTypes, feedVars, feedRows
  <1>5. CASE UNCHANGED plazaVars
    BY <1>5 DEF plazaVars, feedVars, feedRows, FeedTypes
  <1>. QED  BY <1>1, <1>2, <1>3, <1>4, <1>5, AskTyped DEF PlazaNext

LEMMA FeedTypesAtFirst == PlazaInit => FeedTypes
  <1>. SUFFICES ASSUME PlazaInit PROVE FeedTypes
    OBVIOUS
  <1>1. \A a \in Asks : ask[a].step \in AskSteps
    <2>1. \A a \in Asks : ask[a].step = "idle"
      BY DEF PlazaInit, NoRequest
    <2>. QED  BY <2>1 DEF AskSteps
  <1>2. comment \in [Comments -> CommentRow]
    <2>1. [state |-> "none", hidden |-> "no"] \in CommentRow
      BY DEF CommentRow
    <2>2. comment = [c \in Comments |-> [state |-> "none", hidden |-> "no"]]
      BY DEF PlazaInit
    <2>. QED  BY <2>1, <2>2
  <1>3. shown \in BOOLEAN /\ commentCount \in Nat /\ cleared \subseteq Comments
    BY DEF PlazaInit
  <1>4. openReports \in [Comments -> SUBSET Viewers]
    BY DEF PlazaInit
  <1>5. lost \in 0..MaxLost
    BY BoardConstants DEF PlazaInit
  <1>. QED  BY <1>1, <1>2, <1>3, <1>4, <1>5 DEF FeedTypes

\* The tables of the feed and of the board keep their type.
THEOREM PlazaTyped == PlazaSpec => []PlazaTypeOK
  <1>1. PlazaInit => CounterInv /\ WeekInv /\ FeedTypes
    BY CountersAtFirst, WeekInitially, FeedTypesAtFirst
  <1>2. CounterInv /\ WeekInv /\ FeedTypes /\ [PlazaNext]_plazaVars => (CounterInv /\ WeekInv /\ FeedTypes)'
    BY CountersKept, WeekStepKeeps, FeedTypesKept DEF CounterInv
  <1>3. CounterInv /\ WeekInv /\ FeedTypes => PlazaTypeOK
    BY DEF CounterInv, FeedTables, WeekInv, WeekTypes, BoardRows, FeedTypes, CommentRow, AskSteps,
           PlazaTypeOK
  <1>. QED  BY <1>1, <1>2, <1>3, PTL DEF PlazaSpec

-----------------------------------------------------------------------------
(* The tables of the side *)

\* Whatever is claimed, answered, voted, proven, bought or said, and whatever
\* request, tick or statement comes late, twice or not at all: every column of
\* every table of the side keeps its type.
THEOREM CommunityTyped == CommunitySpec => []CommunityTypeOK
  <1>1. /\ LedgerSpec => [](LedgerTypeOK /\ LedgerMatchesState)
        /\ ElectionSpec => [](ElectionTypeOK /\ ElectionsAddUp)
        /\ StepSpec => [](StepTypeOK /\ StepsHold)
    BY LedgerCorrect, ElectionsCorrect, StepsCorrect
  <1>2. /\ StampSpec => []StampTypeOK
        /\ QuizSpec => []QuizTypeOK
        /\ PlazaSpec => []PlazaTypeOK
    BY StampsTyped, QuizzesTyped, PlazaTyped
  <1>3. /\ LedgerTypeOK /\ StampTypeOK /\ QuizTypeOK /\ ElectionTypeOK
        /\ StepTypeOK /\ PlazaTypeOK
        => CommunityTypeOK
    BY DEF CommunityTypeOK
  <1>. QED  BY <1>1, <1>2, <1>3, PTL DEF CommunitySpec, PassportSpec
=============================================================================
