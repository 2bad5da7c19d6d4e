------------------------------ MODULE ChainIndexer ------------------------------
(***************************************************************************)
(* The indexers of one chain (chain/indexer.ts): each follows the blocks   *)
(* the network reports, stores the confirmed ones, rewinds when the        *)
(* network reorganised, and projects the logs onto the commands and the    *)
(* audit of roles.                                                         *)
(*                                                                         *)
(* An indexer reads the network, the headers and the checkpoint without a  *)
(* lock, so each read is an action; storing a block and rewinding are      *)
(* transactions that hold the checkpoint's row.                            *)
(***************************************************************************)
EXTENDS Integers, FiniteSets, FiniteSetsExt

CONSTANTS
  Indexers,
  Blocks, NoBlock,
  Height, Parent,    \* of a block; heights start at startBlock, which is 0
  LogsIn,            \* the logs of each block, as a set of ids of one log of
                     \* one transaction, which may be mined again elsewhere
  ClaimLog,          \* the log that matches the command
  Confirmations,
  SyncLimit,         \* maxBlocks
  MaxReorgs          \* bound: changes of the network's latest block

ASSUME BlocksFormATree ==
  /\ Height \in [Blocks -> Nat] /\ NoBlock \notin Blocks
  /\ \A b \in Blocks : IF Height[b] = 0 THEN Parent[b] = NoBlock
       ELSE Parent[b] \in Blocks /\ Height[Parent[b]] = Height[b] - 1

ASSUME SyncsAreCounted ==
  Confirmations \in Nat \ {0} /\ SyncLimit \in Nat /\ MaxReorgs \in Nat

VARIABLES
  tip,               \* the latest block of the network
  reorgs,            \* counts its changes
  headers,           \* chain_block_headers that are canonical
  logs,              \* chain_events that are canonical, as pairs of block and log
  checkpoint,        \* chain_checkpoints, NoBlock before the first
  audit,             \* chain_wallet_audit, as pairs of log and block number
  command,           \* the status of a token claim's chain command
  indexer,           \* what each indexer does and has read
  synced             \* history: the indexers that ever began a synchronization

indexVars ==
  <<tip, reorgs, headers, logs, checkpoint, audit, command, indexer, synced>>

projections == <<headers, logs, checkpoint, audit, command>>

Lineage[b \in Blocks] == {b} \cup IF Height[b] = 0 THEN {} ELSE Lineage[Parent[b]]

\* getBlock: no block above the network's latest.
NetworkAt(n) ==
  IF Height[tip] < n THEN NoBlock ELSE CHOOSE b \in Lineage[tip] : Height[b] = n

Number(b) == IF b = NoBlock THEN -1 ELSE Height[b]

IndexerState ==
  [pc : {"idle", "current", "compare", "walk", "probe", "rewind", "reread", "fetch", "store"},
   current : Blocks \cup {NoBlock},    \* the checkpoint it read
   block : Blocks \cup {NoBlock},      \* the block it is about
   walk : Int, safe : Int, left : 0..SyncLimit]

Resting == [pc |-> "idle", current |-> NoBlock, block |-> NoBlock,
            walk |-> 0, safe |-> 0, left |-> 0]

Goes(i, state) == indexer' = [indexer EXCEPT ![i] = state]
Rests(i) == Goes(i, Resting)
At(i, pc) == indexer[i].pc = pc

-----------------------------------------------------------------------------
(* Projections *)

\* projectCommands for a claim whose expected amount and recipient match.
Projected(status, rows, heads) ==
  IF \E row \in rows : row[2] = ClaimLog /\ row[1] \in heads THEN "finalized"
  ELSE IF status = "finalized" THEN "unknown" ELSE status

\* projectRoleAndPauseEvents: a row for each log that has none.
Audited(rows, heads, events) ==
  rows \cup {<<e[2], Height[e[1]]>> : e \in {e \in events :
    /\ e[1] \in heads /\ e[2] # ClaimLog
    /\ \A a \in rows : a[1] # e[2]}}

-----------------------------------------------------------------------------
(* A synchronization *)

\* sync: the safe head is computed once.
BeginSync(i) ==
  /\ At(i, "idle")
  /\ Goes(i, [Resting EXCEPT !.pc = "current", !.left = SyncLimit,
                             !.safe = Height[tip] - Confirmations])
  /\ synced' = synced \cup {i}
  /\ UNCHANGED <<tip, reorgs, projections>>

\* reconcileHead reads the checkpoint.
ReadCurrent(i) ==
  /\ At(i, "current")
  /\ Goes(i, [indexer[i] EXCEPT !.current = checkpoint,
       !.pc = IF checkpoint = NoBlock THEN "reread" ELSE "compare"])
  /\ UNCHANGED <<tip, reorgs, projections, synced>>

\* Without the block the call fails.
CompareHead(i) ==
  LET current == indexer[i].current IN
  /\ At(i, "compare")
  /\ IF NetworkAt(Height[current]) = NoBlock THEN Rests(i)
     ELSE Goes(i, [indexer[i] EXCEPT
            !.pc = IF NetworkAt(Height[current]) = current THEN "reread" ELSE "walk",
            !.walk = Height[current] - 1])
  /\ UNCHANGED <<tip, reorgs, projections, synced>>

\* Walking down: the canonical header at a height, and then the network's
\* block there.
ReadStored(i) ==
  LET n == indexer[i].walk
      stored == {b \in headers : Height[b] = n}
  IN
  /\ At(i, "walk")
  /\ IF n < 0 THEN Rests(i)    \* CHAIN_REORG_BEYOND_START_BLOCK
     ELSE \E b \in (IF stored = {} THEN {NoBlock} ELSE stored) :
            Goes(i, [indexer[i] EXCEPT !.pc = "probe", !.block = b])
  /\ UNCHANGED <<tip, reorgs, projections, synced>>

\* To a block that was canonical when it was read and is the network's.
ReadNetwork(i) ==
  LET n == indexer[i].walk IN
  /\ At(i, "probe")
  /\ IF NetworkAt(n) = NoBlock THEN Rests(i)
     ELSE IF NetworkAt(n) = indexer[i].block
     THEN Goes(i, [indexer[i] EXCEPT !.pc = "rewind"])
     ELSE Goes(i, [indexer[i] EXCEPT !.pc = "walk", !.block = NoBlock, !.walk = n - 1])
  /\ UNCHANGED <<tip, reorgs, projections, synced>>

\* What a rewind leaves of the rows of blocks.
Kept(rows, n) == {row \in rows : Height[row[1]] <= n}

\* rewindTo, or CHAIN_CHECKPOINT_CHANGED: only the heights are compared, so the
\* block need no longer be the canonical one of its height.
Rewind(i) ==
  LET n == Height[indexer[i].block] IN
  /\ At(i, "rewind")
  /\ IF Number(checkpoint) <= n THEN Rests(i) /\ UNCHANGED projections
     ELSE /\ headers' = {b \in headers : Height[b] <= n}
          /\ logs' = Kept(logs, n)
          /\ checkpoint' = indexer[i].block
          /\ audit' = {a \in audit : a[2] <= n}
          /\ command' = Projected(command, logs', headers')
          /\ Goes(i, [indexer[i] EXCEPT !.pc = "reread"])
  /\ UNCHANGED <<tip, reorgs, synced>>

\* sync reads the checkpoint after reconcileHead.
Reread(i) ==
  /\ At(i, "reread")
  /\ Goes(i, [indexer[i] EXCEPT !.pc = "fetch", !.current = checkpoint])
  /\ UNCHANGED <<tip, reorgs, projections, synced>>

\* The next block, unless the safe head or the limit is reached; a block with
\* another parent starts a reconciliation.
FetchBlock(i) ==
  LET current == indexer[i].current
      block == NetworkAt(Number(current) + 1)
  IN
  /\ At(i, "fetch")
  /\ IF indexer[i].left = 0 \/ Number(current) >= indexer[i].safe \/ block = NoBlock
     THEN Rests(i)
     ELSE IF Parent[block] # current /\ current # NoBlock
     THEN Goes(i, [indexer[i] EXCEPT !.pc = "current"])
     ELSE Goes(i, [indexer[i] EXCEPT !.pc = "store", !.block = block])
  /\ UNCHANGED <<tip, reorgs, projections, synced>>

\* Mutant: the block is stored on whatever checkpoint there is.
Follows_Any(block) == TRUE

\* The checks of storeBlock: the checkpoint it follows, one canonical header
\* for each height, one canonical row for each log.
Follows(block) == checkpoint = Parent[block]

Storable(block) ==
  /\ Follows(block)
  /\ \A b \in headers : Height[b] = Height[block] => b = block
  /\ \A row \in logs : row[2] \in LogsIn[block] => row[1] = block

\* storeBlock; any of the checks fails the synchronization.
StoreBlock(i) ==
  LET block == indexer[i].block IN
  /\ At(i, "store")
  /\ IF ~Storable(block) THEN Rests(i) /\ UNCHANGED projections
     ELSE /\ headers' = headers \cup {block}
          /\ logs' = logs \cup ({block} \X LogsIn[block])
          /\ checkpoint' = block
          /\ command' = Projected(command, logs', headers')
          /\ audit' = Audited(audit, headers', logs')
          /\ Goes(i, [indexer[i] EXCEPT !.pc = "fetch", !.current = block, !.left = @ - 1])
  /\ UNCHANGED <<tip, reorgs, synced>>

\* A call fails, or the process stops.
AbortSync(i) ==
  /\ ~At(i, "idle")
  /\ Rests(i)
  /\ UNCHANGED <<tip, reorgs, projections, synced>>

\* The network's latest block is another one, on this branch or not.
NetworkMoves(b) ==
  /\ reorgs < MaxReorgs /\ b # tip
  /\ tip' = b
  /\ reorgs' = reorgs + 1
  /\ UNCHANGED <<projections, indexer, synced>>

-----------------------------------------------------------------------------

IndexInit ==
  /\ tip \in Blocks /\ reorgs = 0
  /\ headers = {} /\ logs = {} /\ checkpoint = NoBlock /\ audit = {}
  /\ command = "submitted"
  /\ indexer = [i \in Indexers |-> Resting] /\ synced = {}

SyncStep(i) ==
  \/ BeginSync(i) \/ ReadCurrent(i) \/ CompareHead(i) \/ ReadStored(i)
  \/ ReadNetwork(i) \/ Rewind(i) \/ Reread(i) \/ FetchBlock(i) \/ StoreBlock(i)

IndexNext ==
  \/ \E i \in Indexers : SyncStep(i) \/ AbortSync(i)
  \/ \E b \in Blocks : NetworkMoves(b)

IndexSpec == IndexInit /\ [][IndexNext]_indexVars

-----------------------------------------------------------------------------
(* Properties *)

IndexTypeOK ==
  /\ tip \in Blocks /\ reorgs \in 0..MaxReorgs
  /\ headers \subseteq Blocks
  /\ logs \subseteq Blocks \X (UNION {LogsIn[b] : b \in Blocks})
  /\ checkpoint \in Blocks \cup {NoBlock}
  /\ audit \subseteq (UNION {LogsIn[b] : b \in Blocks}) \X Nat
  /\ command \in {"submitted", "finalized", "unknown"}
  /\ indexer \in [Indexers -> IndexerState] /\ synced \subseteq Indexers

\* However often the network reorganises and however many indexers there are:
\* the canonical headers are one block for each height down to the start block
\* from the checkpoint's, the canonical logs are theirs, and what was projected
\* onto commands and the audit is what those logs say.
ProjectsItsHeaders ==
  /\ \A b1, b2 \in headers : Height[b1] = Height[b2] => b1 = b2
  /\ {Height[b] : b \in headers} = 0..Number(checkpoint)
  /\ logs = UNION {{b} \X LogsIn[b] : b \in headers}
  /\ command = "finalized" <=> \E row \in logs : row[2] = ClaimLog
  /\ audit = {<<row[2], Height[row[1]]>> : row \in {r \in logs : r[2] # ClaimLog}}

\* Those headers are the checkpoint's branch as long as a single indexer has
\* ever run.  With two it is not so: one that rewinds late, to a block the other
\* has replaced since it was read, leaves the checkpoint on a block that is not
\* among the headers, and if the network returns to that block's branch, the
\* next one is stored over the other branch's.
IndexFollowsOneBranch ==
  /\ ProjectsItsHeaders
  /\ (\E i \in Indexers : synced \subseteq {i}) =>
       headers = IF checkpoint = NoBlock THEN {} ELSE Lineage[checkpoint]
=============================================================================
