---------------------------- MODULE MCMirrorSetup ----------------------------
(* MirrorSetup for TLC: two calls, of one master or of two. *)
EXTENDS MirrorSetup, TLC

CONSTANTS c1, c2, m1, m2
MCCallers == {c1 :> m1 @@ c2 :> m1, c1 :> m1 @@ c2 :> m2}
MCWanted == c1 :> 1 @@ c2 :> 3
=============================================================================
