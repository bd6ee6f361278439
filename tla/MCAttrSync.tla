---------------------------- MODULE MCAttrSync ----------------------------
(* A small instance of AttrSync for TLC: one worker address with two       *)
(* successive connections, and two tasks.                                  *)
EXTENDS AttrSync
=============================================================================
