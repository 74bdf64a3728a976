---------------------------- MODULE MCPQServer ------------------------------
EXTENDS PQServerProperties, TLC
Symmetry == Permutations(Jobs)
=============================================================================
