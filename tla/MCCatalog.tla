----------------------------- MODULE MCCatalog ------------------------------
(***************************************************************************)
(* Small instances of Catalog for TLC.                                      *)
(***************************************************************************)
EXTENDS Catalog, TLC

Symmetry ==
  {f @@ g @@ h : f \in Permutations(Channel), g \in Permutations(Topic),
                 h \in Permutations(Name)}
=============================================================================
