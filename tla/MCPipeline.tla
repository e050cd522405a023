----------------------------- MODULE MCPipeline -----------------------------
(***************************************************************************)
(* Module Pipeline on the instance of MCPipeline.cfg.  Workers are not     *)
(* declared symmetric because the run checks liveness.                     *)
(***************************************************************************)
EXTENDS Pipeline

\* Two chunks, the second one short, and an article without a word.
Articles == << 3, 0 >>
=============================================================================
