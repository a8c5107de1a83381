---------------------------- MODULE MCPipeForward ----------------------------
(* Instances of PipeForward for TLC; the bounds are in the configurations,   *)
(* and a state in which they are used up may stop.                           *)
EXTENDS PipeForward
=============================================================================
