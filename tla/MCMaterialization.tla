---- MODULE MCMaterialization ----
EXTENDS Materialization, TLC

(* Fingerprints and deliveries are interchangeable. *)
Symmetry == Permutations(Inputs) \union Permutations(Workers)
====
