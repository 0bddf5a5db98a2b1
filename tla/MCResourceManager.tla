-------------------------- MODULE MCResourceManager --------------------------
(***************************************************************************)
(* ResourceManager for TLC.  Clients and Workers are sets of model values, *)
(* interchangeable within each set.                                        *)
(***************************************************************************)
EXTENDS ResourceManager, TLC

Symmetry == Permutations(Clients) \cup Permutations(Workers)
=============================================================================
