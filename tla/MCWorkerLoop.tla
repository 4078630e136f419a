---------------------------- MODULE MCWorkerLoop ----------------------------
(* Small instances of WorkerLoop.                                          *)
EXTENDS WorkerLoop
=============================================================================
