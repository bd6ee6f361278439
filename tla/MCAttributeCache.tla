-------------------------- MODULE MCAttributeCache --------------------------
(* AttributeCache for TLC: the root with a file g, a directory d and a     *)
(* file f in it.                                                           *)
EXTENDS AttributeCache, TLC

d == "d"
f == "d/f"
g == "g"
MCParentOf == (d :> "") @@ (f :> d) @@ (g :> "")
MCPathOrder == <<"", d, f, g>>

dir(p) == [path |-> p, del |-> FALSE, hash |-> NoHash, names |-> NoNames]
file(p, h) == [path |-> p, del |-> FALSE, hash |-> h, names |-> {}]
rm(p) == [path |-> p, del |-> TRUE, hash |-> NoHash, names |-> {}]

(* A task writes f, making d if need be; one deletes f, and d with it; one *)
(* moves f to g or writes another g; mkdir on the master makes d, and rm   *)
(* deletes g twice.                                                        *)
MCFileSets ==
  { <<rm(f), rm(d)>>, <<dir(""), [dir(d) EXCEPT !.names = {}]>>,
    <<dir(""), rm(g), dir(""), rm(g)>> } \cup
  UNION {{ <<dir(d), file(f, h)>>, <<rm(f), file(g, h)>> } : h \in Contents}

Symmetry == Permutations(Replay) \cup Permutations(Contents)
=============================================================================
