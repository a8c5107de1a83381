-------------------------- MODULE MCPipeSubscriber --------------------------
(* Instances of PipeSubscriber for TLC.  The sets of operations are given   *)
(* in the configurations; a state whose bounds are used up may stop.        *)
EXTENDS PipeSubscriber
=============================================================================
