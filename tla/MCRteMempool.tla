---------------------------- MODULE MCRteMempool ----------------------------
EXTENDS RteMempool, TLC

\* Buffers are alike.
Symmetry == Permutations(Objs)
=============================================================================
