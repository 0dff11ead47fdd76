---------------------------- MODULE MCStageFlow -----------------------------
(* StageFlow over the pipelines of StageShapes. *)
EXTENDS StageFlow, StageShapes
=============================================================================
