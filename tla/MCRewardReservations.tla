------------------------- MODULE MCRewardReservations -------------------------
(* The funded quest on small instances; see the .cfg files. *)
EXTENDS RewardReservations, TLC

\* Travelers and reviewers are never picked by CHOOSE; row ids are, so they
\* are not part of the symmetry.
People == Permutations(Travelers) \cup Permutations(Reviewers)
=============================================================================
