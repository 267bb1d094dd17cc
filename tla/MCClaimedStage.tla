---- MODULE MCClaimedStage ----
EXTENDS ClaimedStage, TLC

(* Jobs, deliveries and requests are interchangeable. *)
Symmetry == Permutations(Jobs) \union Permutations(Workers) \union Permutations(Clients)
====
