---------------------------- MODULE MCPsProcess ----------------------------
(* Model checking of PsProcess.                                             *)
EXTENDS PsProcess
============================================================================
