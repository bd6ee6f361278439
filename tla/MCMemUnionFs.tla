---------------------------- MODULE MCMemUnionFs ----------------------------
(* MemUnionFs for TLC: two names, two levels; the master has a directory a *)
(* with a file a/a, and a file b.                                          *)
EXTENDS MemUnionFs

Name == {"a", "b"}
MCPath == {<<>>} \cup {<<x>> : x \in Name} \cup (Name \X Name)
File(v) == [dir |-> FALSE, val |-> v, mode |-> 0]
Dir == [dir |-> TRUE, val |-> "empty", mode |-> 0]
MCBase ==
  (<<>> :> Dir) @@ (<<"a">> :> Dir) @@ (<<"a", "a">> :> File("aa")) @@ (<<"b">> :> File("b"))

(* What another task may have done: written b, made a/b, or removed a. *)
MCUpdates == {
  <<"b">> :> [File("new") EXCEPT !.mode = 1],
  (<<"a">> :> Dir) @@ (<<"a", "b">> :> File("new")),
  (<<"a">> :> Deletion) @@ (<<"a", "a">> :> Deletion) @@ (<<>> :> Dir) }
=============================================================================
