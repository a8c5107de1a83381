--------------------------- MODULE MCWorkerThread ---------------------------
(* Instances of WorkerThread for TLC.  No symmetry: the runs check liveness, *)
(* and the owner differs from the other clients.                             *)
EXTENDS WorkerThread
=============================================================================
