------------------------------ MODULE MCIdentity ------------------------------
EXTENDS IdentityProperties, TLC

Symmetry == Permutations(Players) \cup Permutations(Row) \cup Permutations(Source)
===============================================================================
