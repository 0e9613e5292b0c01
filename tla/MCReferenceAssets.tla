------------------------- MODULE MCReferenceAssets -------------------------
(* An instance of ReferenceAssets for TLC.                                 *)
EXTENDS ReferenceAssets, TLC

\* Content types are compared as sizes are; one of them is enough.
MCMaxBytes == [c \in ContentTypes |-> 2]

\* No property tells one asset or one generation from another.
MCSymmetry == Permutations(Assets) \cup Permutations(Generations)

\* One of the two jobs is retried.
OneRetry ==
  \A g, h \in Generations : g # h => attempt[g] + attempt[h] <= 3
=============================================================================
