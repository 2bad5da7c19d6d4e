----------------------------- MODULE RewardEscrow -----------------------------
(***************************************************************************)
(* What a reward pool promises its travelers: an amount is set aside for a *)
(* claimant before the claimant has done the work, and is then either paid *)
(* to that claimant, once and for all, or returned to the pool.            *)
(***************************************************************************)
EXTENDS Naturals, FiniteSets

CONSTANTS Claimants, Reward, Allocated

VARIABLES
  free,     \* the amount nobody has a claim on
  holding,  \* the claimants with an amount set aside
  settled   \* the claimants who were paid

escrowVars == <<free, holding, settled>>

Init ==
  /\ free = Allocated
  /\ holding = {}
  /\ settled = {}

Hold(c) ==
  /\ c \notin holding \cup settled
  /\ free >= Reward
  /\ free' = free - Reward
  /\ holding' = holding \cup {c}
  /\ UNCHANGED settled

Pay(c) ==
  /\ c \in holding
  /\ holding' = holding \ {c}
  /\ settled' = settled \cup {c}
  /\ UNCHANGED free

Return(c) ==
  /\ c \in holding
  /\ holding' = holding \ {c}
  /\ free' = free + Reward
  /\ UNCHANGED settled

Next == \E c \in Claimants : Hold(c) \/ Pay(c) \/ Return(c)

Spec == Init /\ [][Next]_escrowVars
=============================================================================
