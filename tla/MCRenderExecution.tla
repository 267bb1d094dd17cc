---- MODULE MCRenderExecution ----
EXTENDS RenderExecution, TLC

(* Fingerprints, deliveries and requests are interchangeable. *)
Symmetry == Permutations(Inputs) \union Permutations(Workers) \union Permutations(Clients)
====
