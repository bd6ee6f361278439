-------------------------- MODULE MCFileSetWaiter --------------------------
(* FileSetWaiter for TLC. *)
EXTENDS FileSetWaiter
=============================================================================
