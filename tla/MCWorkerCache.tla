--------------------------- MODULE MCWorkerCache ---------------------------
(* WorkerCache for TLC: a file f in the root. *)
EXTENDS WorkerCache, TLC

f == "f"
MCParentOf == (f :> "")
MCPathOrder == <<"", f>>

Symmetry == Permutations(Job) \cup Permutations(Replay)
=============================================================================
