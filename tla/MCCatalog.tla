------------------------------ MODULE MCCatalog ------------------------------
(* Instances of Catalog for TLC.                                           *)
EXTENDS Catalog, TLC

Symmetry == Permutations(Ids) \cup Permutations(Clients)
===============================================================================
