-------------------------- MODULE MCUnclaimedStage --------------------------
EXTENDS UnclaimedStage

CONSTANTS c1, c2

Everything == {"crash", "raise", "cancel", "edit", "redeliver"}

MCManual == {[stage |-> "refinement", clients |-> {c1}, faults |-> {"manual"}]}

(* Concurrent requests for an analysis; everything that can befall a job of
   either stage; an operator at work beside a refinement. *)
MCSettings ==
    MCManual \union
    {[stage |-> "analysis", clients |-> {c1, c2}, faults |-> {}],
     [stage |-> "analysis", clients |-> {c1}, faults |-> Everything],
     [stage |-> "refinement", clients |-> {c1}, faults |-> Everything]}
=============================================================================
