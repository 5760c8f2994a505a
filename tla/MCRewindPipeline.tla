--------------------------- MODULE MCRewindPipeline ---------------------------
(* Small instances of RewindPipeline. *)
EXTENDS RewindPipeline

CONSTANTS a, b

MCInputs == {a, b}
=============================================================================
