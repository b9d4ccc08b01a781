---------------------------- MODULE MCLockFreeQueue ----------------------------
(***************************************************************************)
(* Symmetry for checking LockFreeQueue with TLC.                           *)
(***************************************************************************)
EXTENDS LockFreeQueue, TLC

Symmetry == Permutations(Threads) \cup Permutations(Nodes) \cup Permutations(Values)

=============================================================================
