---- MODULE MCPipelineRunner ----
EXTENDS PipelineRunner, TLC

(* INGEST, transcription, reconstruction, candidate analysis: every stage
   reads the one before, but candidate analysis does not read the
   reconstruction. *)
MCNeeds == [s \in Stages |-> CASE s = 1 -> {} [] s = 2 -> {1} [] OTHER -> {2}]

CONSTANTS w1, w2
Symmetry == Permutations(Workers)
====
