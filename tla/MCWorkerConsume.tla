--------------------------- MODULE MCWorkerConsume ---------------------------
(* Instances of WorkerConsume for TLC.  MaxHooks leaves room for every      *)
(* registration the messages and one Done can cause.                        *)
EXTENDS WorkerConsume
=============================================================================
