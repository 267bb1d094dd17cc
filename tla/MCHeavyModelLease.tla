---- MODULE MCHeavyModelLease ----
EXTENDS HeavyModelLease, TLC

CONSTANTS l1, l2, l3, l4

(* A worker's Whisper stage, a Stage 2.7 reconstruction, a CLI benchmark and a
   Stage 3.5 re-transcription. *)
MCKind == [l \in Leases |-> CASE l = l1 -> "whisper" [] l = l2 -> "ollama"
                              [] l = l3 -> "bench" [] l = l4 -> "targeted"]

(* A Stage 4.1 planning call in place of the Whisper stage. *)
MCKindPlanner == [MCKind EXCEPT ![l1] = "planner"]
====
