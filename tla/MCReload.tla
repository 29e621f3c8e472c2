------------------------------ MODULE MCReload ------------------------------
\* A finite instance of Reload.
EXTENDS Reload, TLC

CONSTANTS p, q

Symmetry == Permutations({p, q})
Slots == 1..2
=============================================================================
