------------------------- MODULE MCRequestPipeline -------------------------
(* The first plugin has all hooks, the others leave two of them out. *)
EXTENDS RequestPipeline

MCHooks ==
  [p \in Plugin |->
     IF p = 1 THEN Hook ELSE Hook \ {"post_stream_start", "post_stream_end"}]
=============================================================================
