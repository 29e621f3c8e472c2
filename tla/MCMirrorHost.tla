---------------------------- MODULE MCMirrorHost ----------------------------
\* MirrorHost on small instances.
EXTENDS MirrorHost, TLC

CONSTANTS a, b, mine, theirs

Symmetry == Permutations(Client)
=============================================================================
