---------------------------- MODULE MCProcPaths ----------------------------
(* Values of the constants of ProcPaths for TLC.                             *)
EXTENDS ProcPaths

TwoBuses == {"b0", "b1"}
FirstBus == {"b0"}
=============================================================================
