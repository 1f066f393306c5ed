--------------------------- MODULE MCTaskRelease ---------------------------
(***************************************************************************)
(* Small instances of TaskRelease for TLC: c depends on a and b.           *)
(***************************************************************************)
EXTENDS TaskRelease, TLC

CONSTANTS a, b, c

Workflow == [t \in Tasks |-> IF t = c THEN <<a, b>> ELSE <<>>]

ResolverSymmetry == Permutations(Resolvers)

=============================================================================
