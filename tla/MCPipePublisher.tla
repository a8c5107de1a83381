--------------------------- MODULE MCPipePublisher ---------------------------
(* Instances of PipePublisher for TLC.  The subscribers are interchangeable, *)
(* but the run that checks liveness cannot use the symmetry.                 *)
EXTENDS PipePublisher, TLC

Symmetry == Permutations(Clients)
=============================================================================
