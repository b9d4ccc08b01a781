----------------------------- MODULE MCNetServer -----------------------------
(***************************************************************************)
(* Values for checking NetServer with TLC.  Workers, callers, handles and  *)
(* packets are interchangeable: only equality is ever asked of them.       *)
(***************************************************************************)
EXTENDS NetServer, TLC

Symmetry == Permutations(Workers) \cup Permutations(Callers)
              \cup Permutations(Handles) \cup Permutations(Packets)

=============================================================================
