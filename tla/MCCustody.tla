------------------------------ MODULE MCCustody ------------------------------
(***************************************************************************)
(* Small instances of custody for TLC.                                     *)
(***************************************************************************)
EXTENDS CustodyRefinement, TLC

Symmetry == Permutations(Txn) \cup Permutations(Item) \cup Permutations(Wid)
=============================================================================
