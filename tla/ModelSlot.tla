----------------------------- MODULE ModelSlot -----------------------------
(***************************************************************************)
(* What the heavy-model lease promises when nothing fails: one slot, work  *)
(* is resident only in the slot, and a gate that an operator reopens only  *)
(* once nothing is resident.                                               *)
(***************************************************************************)
CONSTANTS Users, Nobody

VARIABLES slot, closed, inside

slotVars == <<slot, closed, inside>>

SlotInit == slot = Nobody /\ closed = FALSE /\ inside = {}

Take(u) == slot = Nobody /\ ~closed /\ slot' = u /\ UNCHANGED <<closed, inside>>
Enter(u) == slot = u /\ inside' = inside \union {u} /\ UNCHANGED <<slot, closed>>
Leave(u) == inside' = inside \ {u} /\ UNCHANGED <<slot, closed>>
Give == slot \notin inside /\ slot' = Nobody /\ UNCHANGED <<closed, inside>>
Close == closed' = TRUE /\ UNCHANGED <<slot, inside>>
Reopen == closed /\ inside = {} /\ closed' = FALSE /\ slot' = Nobody /\ UNCHANGED inside

SlotNext == Give \/ Close \/ Reopen \/ \E u \in Users : Take(u) \/ Enter(u) \/ Leave(u)

SlotSpec == SlotInit /\ [][SlotNext]_slotVars

(* Whoever is resident holds the slot, so nobody else is. *)
OneInside == \A u \in inside : slot = u
=============================================================================
