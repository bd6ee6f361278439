----------------------------- MODULE MemUnionFs -----------------------------
(***************************************************************************)
(* The writable file system of a task (fs/memunionfs.go): a tree of nodes  *)
(* in memory over the master's read-only files.  Nodes are made when a     *)
(* path is looked up; changes are kept in them and in the set of deleted   *)
(* paths, until reap (termite/fuse.go) collects them as results and resets *)
(* the file system for the next task.                                      *)
(*                                                                         *)
(* While a task runs, and between tasks, the master pushes what other      *)
(* tasks have changed: first the read-only files change, then the nodes.   *)
(*                                                                         *)
(* The kernel looks up what an operation names, and each handler holds the *)
(* mutex from start to end.  Times, owners and hard links are left out;    *)
(* Utimens and Chown change attributes as Chmod does, and the target of a  *)
(* symbolic link is contents like a file's.                                *)
(***************************************************************************)
EXTENDS Integers, FiniteSetsExt, SequencesExt, TLC

CONSTANTS Path, Base, Empty, Values, Deletion,
  Updates,    \* what the master may push: entries, or Deletion, under paths
  MaxOps,     \* bound on the operations between two reaps
  MaxUpdates  \* bound on the updates

VARIABLES
  base,          \* the read-only files, at first Base
  tree,          \* the memNode at each path that has one
  deleted,       \* MemUnionFs.deleted
  openWritable,  \* MemUnionFs.openWritable
  reaped,        \* Reap has been called, and Reset not yet
  push,          \* what Update has yet to delete from, or add to, the tree
  updates,
  ops,
  lost           \* history: a rename has replaced what it should not, an update
                 \* has met something that the task made or moved, or has left a
                 \* node the inode of which is of the wrong kind

roVars == <<base, push, updates>>
taskVars == <<tree, deleted, openWritable, reaped, ops, lost>>
vars == <<roVars, taskVars>>

Root == <<>>
Under(p) == {q \in Path : IsPrefix(p, q)}
Children(p) == {q \in Path : q # Root /\ Front(q) = p}
Move(q, p, r) == r \o SubSeq(q, Len(p) + 1, Len(q))

(* memNode: dir and mode are info's, which the kernel sees, and inodeDir   *)
(* is Inode().IsDir(); orig is {} or {original}; val counts if there is a  *)
(* backing file.                                                           *)
Node(dir, orig, changed, mode) ==
  [dir |-> dir, inodeDir |-> dir, orig |-> orig, changed |-> changed, mode |-> mode,
   backing |-> FALSE, val |-> Empty, open |-> FALSE]

Nothing == [del |-> {}, add |-> <<>>]

NewFile == [Node(FALSE, {}, TRUE, 0) EXCEPT !.backing = TRUE, !.open = TRUE]

Init ==
  /\ base = Base /\ push = Nothing /\ updates = 0
  /\ tree = Root :> Node(TRUE, {Root}, FALSE, Base[Root].mode)
  /\ deleted = {} /\ openWritable = 0 /\ reaped = FALSE /\ ops = 0 /\ lost = FALSE

(* The read-only path that lookup finds for p, which need not have a node. *)
Original[p \in Path] ==
  IF p \in DOMAIN tree THEN tree[p].orig
  ELSE {Append(o, Last(p)) : o \in Original[Front(p)]} \cap (DOMAIN base \ deleted)

(* What OpenDir, GetAttr and Open show.  A file that the master has        *)
(* deleted cannot be read, as if it were empty.                            *)
Contents(n) ==
  IF n.backing \/ n.dir \/ n.orig \cap DOMAIN base = {} THEN n.val
  ELSE base[CHOOSE o \in n.orig : TRUE].val
Entry(n) == [dir |-> n.dir, val |-> Contents(n), mode |-> n.mode]
Exists(p) == p \in DOMAIN tree \/ Original[p] # {}
View ==
  [p \in {q \in Path : Exists(q)} |->
     IF p \in DOMAIN tree THEN Entry(tree[p]) ELSE base[CHOOSE o \in Original[p] : TRUE]]

-----------------------------------------------------------------------------
Fresh(o) == Node(base[o].dir, {o}, FALSE, base[o].mode)

(* The kernel sees a directory, and its inode can have children. *)
IsDir(p) == p \in DOMAIN tree /\ tree[p].dir /\ tree[p].inodeDir

Lookup(p) ==
  /\ ~reaped
  /\ p \notin DOMAIN tree /\ IsDir(Front(p))
  /\ \E o \in Original[p] : tree' = tree @@ (p :> Fresh(o))
  /\ UNCHANGED <<deleted, openWritable, ops, lost, reaped, roVars>>

Operation ==
  /\ ~reaped
  /\ ops < MaxOps /\ ops' = ops + 1
  /\ UNCHANGED <<reaped, roVars>>
touch(T, p) == [T EXCEPT ![p].changed = TRUE]

(* The kernel has looked up p in its directory, and it does not exist. *)
Missing(p) == p # Root /\ ~Exists(p) /\ IsDir(Front(p))

Mkdir(p) ==
  /\ Operation /\ Missing(p)
  /\ tree' = touch(tree, Front(p)) @@ (p :> Node(TRUE, {}, TRUE, 0))
  /\ UNCHANGED <<deleted, openWritable, lost>>

Create(p) ==
  /\ Operation /\ Missing(p)
  /\ tree' = touch(tree, Front(p)) @@ (p :> NewFile)
  /\ openWritable' = openWritable + 1
  /\ UNCHANGED <<deleted, lost>>

Symlink(p) ==
  /\ Operation /\ Missing(p)
  /\ tree' = touch(tree, Front(p)) @@ (p :> Node(FALSE, {}, TRUE, 0))
  /\ UNCHANGED <<deleted, openWritable, lost>>

(* A file, and no symbolic link of the task. *)
IsRegular(p) == p \in DOMAIN tree /\ ~tree[p].dir /\ (tree[p].backing \/ tree[p].orig # {})

(* The file is copied to the backing store. *)
promote(n) ==
  IF n.backing THEN n ELSE [n EXCEPT !.backing = TRUE, !.val = Contents(n), !.orig = {}]

(* For writing, one writer at a time. *)
Open(p) ==
  /\ Operation
  /\ IsRegular(p) /\ ~tree[p].open
  /\ tree' = [tree EXCEPT ![p] = [promote(@) EXCEPT !.changed = TRUE, !.open = TRUE]]
  /\ openWritable' = openWritable + 1
  /\ UNCHANGED <<deleted, lost>>

Truncate(p) ==
  /\ Operation
  /\ IsRegular(p)
  /\ tree' = [tree EXCEPT ![p] = [promote(@) EXCEPT !.changed = TRUE, !.val = Empty]]
  /\ UNCHANGED <<deleted, openWritable, lost>>

(* The kernel writes to the file in the backing store. *)
Write(p, v) ==
  /\ p \in DOMAIN tree /\ tree[p].open
  /\ tree' = [tree EXCEPT ![p].val = v]
  /\ UNCHANGED <<deleted, openWritable, ops, lost, reaped, roVars>>

Release(p) ==
  /\ p \in DOMAIN tree /\ tree[p].open
  /\ tree' = [tree EXCEPT ![p].open = FALSE]
  /\ openWritable' = openWritable - 1
  /\ UNCHANGED <<deleted, ops, lost, reaped, roVars>>

(* One of a file that has lost its name. *)
ReleaseUnlinked ==
  /\ openWritable > Cardinality({p \in DOMAIN tree : tree[p].open})
  /\ openWritable' = openWritable - 1
  /\ UNCHANGED <<tree, deleted, ops, lost, reaped, roVars>>

Chmod(p) ==
  /\ Operation
  /\ p \in DOMAIN tree
  /\ tree' = [tree EXCEPT ![p].mode = 1 - @, ![p].changed = TRUE]
  /\ UNCHANGED <<deleted, openWritable, lost>>

(* The read-only path p is marked as deleted, if its directory has one. *)
mark(p) == {Append(o, Last(p)) : o \in tree[Front(p)].orig}

(* Mutant: what is below a removed directory stays. *)
UnlinkShallow(p) ==
  /\ Operation
  /\ p \in DOMAIN tree \ {Root}
  /\ deleted' = deleted \cup mark(p)
  /\ tree' = [q \in DOMAIN tree \ {p} |-> touch(tree, Front(p))[q]]
  /\ UNCHANGED <<openWritable, lost>>

(* Unlink and Rmdir; neither looks whether a directory is empty. *)
Unlink(p) ==
  /\ Operation
  /\ p \in DOMAIN tree \ {Root}
  /\ deleted' = deleted \cup mark(p)
  /\ tree' = [q \in DOMAIN tree \ Under(p) |-> touch(tree, Front(p))[q]]
  /\ UNCHANGED <<openWritable, lost>>

(* Looks up every read-only child of p, also those that have a node: it is *)
(* replaced, with all below it.                                            *)
Loaded(T, p, del) ==
  {q \in Children(p) : \E o \in T[p].orig : Append(o, Last(q)) \in DOMAIN base \ del}

materializeSelf(T, p, del) ==
  LET new == Loaded(T, p, del)
      old == DOMAIN T \ UNION {Under(q) : q \in new}
      node(q) == IF q \in new THEN Fresh(Append(CHOOSE o \in T[p].orig : TRUE, Last(q)))
                 ELSE IF q = p THEN [T[p] EXCEPT !.changed = TRUE, !.orig = {}]
                 ELSE T[q] IN
  IF T[p].inodeDir THEN [q \in old \cup new |-> node(q)] ELSE touch(T, p)

RECURSIVE materialize(_, _, _)
materialize(T, p, del) ==
  LET S == materializeSelf(T, p, del)
      dirs == {q \in Children(p) \cap DOMAIN S : S[q].inodeDir} IN
  FoldSet(LAMBDA q, A : materialize(A, q, del), S, dirs)

markChanged(T, p) ==
  [q \in DOMAIN T |-> IF q \in Under(p) THEN [T[q] EXCEPT !.changed = TRUE] ELSE T[q]]

(* Mutant: the files below a renamed directory are not marked. *)
RelocateUnmarked(p, del) ==
  IF tree[p].orig = {} THEN tree ELSE materialize(tree, p, del)

(* The renamed node and all below it become the task's own. *)
Relocate(p, del) ==
  IF tree[p].orig = {} THEN tree ELSE markChanged(materialize(tree, p, del), p)

(* Changed nodes below p are replaced, or r is a directory with files of   *)
(* the master's: these are not marked as deleted.                          *)
Replaces(p, r, del) ==
  \/ /\ tree[p].orig # {}
     /\ \E q \in Loaded(tree, p, del), s \in DOMAIN tree :
          IsPrefix(q, s) /\ (tree[s].changed \/ tree[s].open)
  \/ \E q \in Children(r) : Exists(q)

Rename(p, r) ==
  LET del == deleted \cup mark(p)
      T == Relocate(p, del)
      moved == {Move(q, p, r) : q \in Under(p) \cap DOMAIN T}
      other == DOMAIN T \ (Under(p) \cup Under(r)) IN
  /\ Operation
  /\ p \in DOMAIN tree \ {Root} /\ ~IsPrefix(p, r) /\ ~IsPrefix(r, p)
  /\ IsDir(Front(r))
  /\ Exists(r) => r \in DOMAIN tree /\ tree[r].dir = tree[p].dir
  /\ moved \subseteq Path
  /\ deleted' = del
  /\ tree' = touch([q \in other \cup moved |->
                      IF q \in moved THEN T[Move(q, r, p)] ELSE T[q]], Front(p))
  /\ lost' = (lost \/ Replaces(p, r, del))
  /\ UNCHANGED openWritable

-----------------------------------------------------------------------------
(* Reap: deleted paths with all below them, and over those the changed     *)
(* nodes.  A result without a backing file has the contents of its         *)
(* original (fillReply).                                                   *)
Gone == {p \in DOMAIN base : \E q \in deleted : IsPrefix(q, p)}
Changed == {p \in DOMAIN tree : tree[p].changed}

Reap ==
  /\ ~reaped /\ openWritable = 0
  /\ reaped' = TRUE
  /\ UNCHANGED <<tree, deleted, openWritable, ops, lost, roVars>>

(* Mutant: nodes from another path stay. *)
KeptMoved == {p \in DOMAIN tree : \A q \in DOMAIN tree :
                IsPrefix(q, p) => ~tree[q].backing /\ tree[q].orig # {} /\ p \in DOMAIN base}

(* reset: nodes with a backing file or from another path go, and changed   *)
(* ones the original of which has gone, with what is below them.  The      *)
(* other changed ones get back their attributes, but stay changed.  No     *)
(* inode changes its kind.                                                 *)
Kept == {p \in DOMAIN tree : \A q \in DOMAIN tree :
           IsPrefix(q, p) => /\ ~tree[q].backing /\ tree[q].orig = {q}
                             /\ tree[q].changed => q \in DOMAIN base}

Reset ==
  /\ reaped
  /\ tree' = [p \in Kept |->
                IF tree[p].changed
                THEN [tree[p] EXCEPT !.mode = base[p].mode, !.dir = base[p].dir]
                ELSE tree[p]]
  /\ deleted' = {}
  /\ reaped' = FALSE /\ ops' = 0
  /\ lost' = \E p \in DOMAIN tree' : tree'[p].inodeDir # tree'[p].dir
  /\ UNCHANGED <<openWritable, roVars>>

-----------------------------------------------------------------------------
(* RpcFs.updateFiles: the worker's copy of the master's attributes. *)
Applied(u) ==
  [p \in {q \in DOMAIN base \cup DOMAIN u : q \in DOMAIN u => u[q] # Deletion} |->
     IF p \in DOMAIN u THEN u[p] ELSE base[p]]

(* What the master can have replayed: a tree again, in which no path has   *)
(* turned from a file into a directory or back.                            *)
Possible(u) ==
  /\ \A p \in DOMAIN u : u[p] = Deletion => p \in DOMAIN base
  /\ \A p \in DOMAIN Applied(u) \ {Root} :
       Front(p) \in DOMAIN Applied(u) /\ Applied(u)[Front(p)].dir
  /\ \A p \in DOMAIN base \cap DOMAIN Applied(u) : Applied(u)[p].dir = base[p].dir

(* workerFuseFs.update: an attribute without a mode is a deletion. *)
update(u) ==
  LET del == {p \in DOMAIN u : u[p] = Deletion} IN
  [del |-> del, add |-> [p \in DOMAIN u \ del |-> u[p]]]

(* Mirror.updateFiles begins.  A file that the task has moved loses its    *)
(* contents with its original.                                             *)
updateFiles(u) ==
  /\ push = Nothing /\ updates < MaxUpdates
  /\ Possible(u)
  /\ base' = Applied(u)
  /\ push' = update(u)
  /\ updates' = updates + 1
  /\ lost' = (lost \/ \E p \in DOMAIN tree, q \in update(u).del :
                        q \in tree[p].orig /\ p # q)
  /\ UNCHANGED <<tree, deleted, openWritable, reaped, ops>>

(* Mutant: the nodes of deleted files are left to the kernel. *)
UpdateDeleteNone ==
  /\ push.del # {}
  /\ push' = [push EXCEPT !.del = {}]
  /\ UNCHANGED <<base, updates, tree, deleted, openWritable, reaped, ops, lost>>

(* MemUnionFs.Update, without the mutex: deleted paths lose their nodes, *)
(* with all below them, whatever the task has made of them.              *)
UpdateDelete ==
  /\ push.del # {}
  /\ tree' = [p \in DOMAIN tree \ UNION {Under(q) : q \in push.del} |-> tree[p]]
  /\ push' = [push EXCEPT !.del = {}]
  /\ UNCHANGED <<base, updates, deleted, openWritable, reaped, ops, lost>>

(* ... and with the mutex: nodes under the other paths are the master's,   *)
(* but in an inode of the kind the task had made there.                    *)
UpdateAdd ==
  /\ push.del = {} /\ push # Nothing
  /\ tree' = [p \in DOMAIN tree |->
                IF p \notin DOMAIN push.add THEN tree[p]
                ELSE [tree[p] EXCEPT !.orig = {p}, !.changed = FALSE,
                                     !.dir = push.add[p].dir, !.mode = push.add[p].mode]]
  /\ lost' = (lost \/ \E p \in DOMAIN push.add \cap DOMAIN tree :
                        tree[p].orig # {p} \/ \E q \in deleted : IsPrefix(q, p))
  /\ push' = Nothing
  /\ UNCHANGED <<base, updates, deleted, openWritable, reaped, ops>>

Next ==
  \/ \E p \in Path :
       \/ Lookup(p) \/ Mkdir(p) \/ Create(p) \/ Symlink(p) \/ Open(p) \/ Release(p)
       \/ Truncate(p) \/ Chmod(p) \/ Unlink(p)
       \/ \E v \in Values : Write(p, v)
       \/ \E r \in Path : Rename(p, r)
  \/ ReleaseUnlinked \/ Reap \/ Reset
  \/ \E u \in Updates : updateFiles(u)
  \/ UpdateDelete \/ UpdateAdd

Spec == Init /\ [][Next]_vars

-----------------------------------------------------------------------------
TypeOK ==
  /\ DOMAIN tree \subseteq Path /\ Root \in DOMAIN tree
  /\ \A p \in DOMAIN tree \ {Root} : Front(p) \in DOMAIN tree /\ (lost \/ tree[Front(p)].dir)
  /\ \A p \in DOMAIN tree :
       /\ tree[p].orig \subseteq Path /\ Cardinality(tree[p].orig) <= 1
       /\ tree[p].open => tree[p].backing
  /\ deleted \subseteq Path /\ openWritable \in Nat /\ ops \in 0 .. MaxOps
  /\ reaped \in BOOLEAN /\ lost \in BOOLEAN
  /\ DOMAIN base \subseteq Path /\ updates \in 0 .. MaxUpdates

Plain == INSTANCE PlainFs

Settled == push = Nothing   \* no update is on its way

(* A step that turns the view f into g is an operation that does to a      *)
(* plain file system just that.                                            *)
Performs(f, g) ==
  \/ /\ g = f
     /\ ReleaseUnlinked \/ Reap \/ \E p \in Path : Lookup(p) \/ Open(p) \/ Release(p)
  \/ \E p \in Path :
       \/ Mkdir(p) /\ Plain!Make(f, g, p, TRUE)
       \/ (Create(p) \/ Symlink(p)) /\ Plain!Make(f, g, p, FALSE)
       \/ Truncate(p) /\ Plain!Write(f, g, p, Empty)
       \/ \E v \in Values : Write(p, v) /\ Plain!Write(f, g, p, v)
       \/ Chmod(p) /\ Plain!Chmod(f, g, p)
       \/ Unlink(p) /\ Plain!Delete(f, g, p)
       \/ \E r \in Path : Rename(p, r) /\ Plain!Rename(f, g, p, r)
  \/ Reset /\ g = base

(* A task sees a plain file system: each operation changes the view as the *)
(* same operation changes files on a disk, a lookup, an open and a release *)
(* change nothing, and after reap the view is the master's again.  Except  *)
(* while an update is on its way, that renaming a directory of the master  *)
(* loses what the task had changed in it, that nobody refuses to rename    *)
(* onto a directory that is not empty, and that after an update of what a  *)
(* task had made as something else the inode keeps the old kind.           *)
ViewIsPlain ==
  /\ View = base
  /\ [][lost' \/ ~Settled \/ ~Settled' \/ \E f \in {View}, g \in {View'} : Performs(f, g)]_vars

(* The results say what the task saw: replayed over the master's files     *)
(* they give the view, whatever was deleted, moved and made again, and     *)
(* whatever other tasks' results have come in by Update, unless they meet  *)
(* what this task made or moved.  After a reap, the nodes that stay        *)
(* changed give results that change nothing.                               *)
ReapFaithful ==
  LET applied == [p \in (DOMAIN base \ Gone) \cup Changed |->
                    IF p \in Changed THEN Entry(tree[p]) ELSE base[p]] IN
  ~lost /\ openWritable = 0 /\ Settled => applied = View

(* A task that is given a used file system starts from the master's files  *)
(* as they are by then, whatever earlier tasks have left in its nodes      *)
(* (Reset) and whenever updates came: before, during or between tasks.     *)
StartsFresh == ops = 0 /\ Settled => View = base
=============================================================================
