-------------------------- MODULE MCTaskPipeline --------------------------
(* TaskPipeline for TLC: two tasks on a worker with one job slot, so that  *)
(* one of them waits in newFs.                                             *)
EXTENDS TaskPipeline
=============================================================================
