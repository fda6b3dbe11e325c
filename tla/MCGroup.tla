------------------------------ MODULE MCGroup ------------------------------
EXTENDS Group, TLC

\* All nodes but the creator are interchangeable.
NodeSymmetry == Permutations(Node \ {Creator})
============================================================================
