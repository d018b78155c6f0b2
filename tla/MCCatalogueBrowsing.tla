-------------------------- MODULE MCCatalogueBrowsing --------------------------
(* Small instances of CatalogueBrowsing for TLC. *)
EXTENDS CatalogueBrowsing

CONSTANTS c1, c2, p1, p2

Symmetry == Permutations(Creators) \cup Permutations(Seeders)
=============================================================================
