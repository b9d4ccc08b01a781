----------------------------- MODULE MCMemoryPool -----------------------------
(***************************************************************************)
(* Symmetry and a view for checking MemoryPool with TLC.                   *)
(***************************************************************************)
EXTENDS MemoryPool, TLC

Symmetry == Permutations(Threads) \cup Permutations(Blocks)

\* Where every block is in one place (OnePlace), nobody reads the next of a
\* block in use, or the count of a block that heads no chunk, before it is
\* written again: states that differ in these alone go on in the same way.
Seen ==
  LET heads == {First(c) : c \in Chunks}
  IN  <<[b \in Blocks |-> IF b \in inUse THEN NoBlock ELSE next[b]],
        [b \in Blocks |-> IF b \in heads THEN count[b] ELSE 0],
        chunkNext, shared, top, cache, pc, locals, slept>>

=============================================================================
