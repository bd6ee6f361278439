------------------------ MODULE MCMirrorConnections ------------------------
(* MirrorConnections for TLC: one worker, so that its tasks meet on the    *)
(* same connections.  Connections and tasks are interchangeable where no   *)
(* liveness is checked.                                                    *)
EXTENDS MirrorConnections, TLC

Symmetry == Permutations(Mc) \cup Permutations(Task)
=============================================================================
