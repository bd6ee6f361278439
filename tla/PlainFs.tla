------------------------------- MODULE PlainFs ------------------------------
(***************************************************************************)
(* A file system as a task sees it: files and directories under their      *)
(* paths, sequences of names, as a partial function from Path to entries   *)
(* [dir, val, mode].  Each operation is a relation between the files f     *)
(* before and g after it: what MemUnionFs promises to its tasks.           *)
(***************************************************************************)
EXTENDS Integers, SequencesExt

CONSTANTS
  Path,     \* the paths
  Empty     \* the contents of a new file

Under(p) == {q \in Path : IsPrefix(p, q)}
Move(q, p, r) == r \o SubSeq(q, Len(p) + 1, Len(q))   \* q, under p, after p is renamed to r

Make(f, g, p, dir) ==
  /\ p \in Path \ DOMAIN f /\ Front(p) \in DOMAIN f /\ f[Front(p)].dir
  /\ g = [q \in DOMAIN f \cup {p} |->
            IF q = p THEN [dir |-> dir, val |-> Empty, mode |-> 0] ELSE f[q]]

Write(f, g, p, v) == p \in DOMAIN f /\ ~f[p].dir /\ g = [f EXCEPT ![p].val = v]

Chmod(f, g, p) == p \in DOMAIN f /\ g = [f EXCEPT ![p].mode = 1 - @]

(* Nobody checks that a directory is empty. *)
Delete(f, g, p) == p \in DOMAIN f \ {<<>>} /\ g = [q \in DOMAIN f \ Under(p) |-> f[q]]

Rename(f, g, p, r) ==
  LET moved == {Move(q, p, r) : q \in Under(p) \cap DOMAIN f} IN
  /\ ~IsPrefix(p, r) /\ ~IsPrefix(r, p)
  /\ p \in DOMAIN f \ {<<>>} /\ Front(r) \in DOMAIN f /\ f[Front(r)].dir
  /\ g = [q \in (DOMAIN f \ (Under(p) \cup Under(r))) \cup moved |->
            IF q \in moved THEN f[Move(q, r, p)] ELSE f[q]]
=============================================================================
