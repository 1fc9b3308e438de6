--------------------------- MODULE MCSymbolTables ---------------------------
EXTENDS SymbolTables, TLC

\* Addresses are all alike to map.c.
Symmetry == Permutations(Node)
=============================================================================
