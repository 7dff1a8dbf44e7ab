----------------------------- MODULE MCPipeline -----------------------------
(* Pipeline with one architectural register besides x0.                    *)
EXTENDS Pipeline
=============================================================================
