------------------------------ MODULE MCPackets -----------------------------
\* Which node malloc() hands out makes no difference.
EXTENDS Packets, TLC
AnyNode == Permutations(Nodes)
=============================================================================
