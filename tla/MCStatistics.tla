---------------------------- MODULE MCStatistics ----------------------------
(***************************************************************************)
(* The archive of MCPipeline with a reader of the statistics page.         *)
(***************************************************************************)
EXTENDS MCPipeline, Statistics
=============================================================================
