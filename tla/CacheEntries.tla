---------------------------- MODULE CacheEntries ----------------------------
(***************************************************************************)
(* An attribute cache (attr/attrcache.go: AttributeCache), on the master   *)
(* or on a worker: its entries, lookups that fetch what is missing with    *)
(* the mutex released, and updates.  Where the entries are fetched from,   *)
(* the disk or the master, is said by the modules that use this one.       *)
(*                                                                         *)
(* An entry has val, which stands for what stat reports (fuse.Attr), the   *)
(* hash of a file's contents, and the names in a directory.                *)
(***************************************************************************)
EXTENDS Integers, Sequences, Functions

CONSTANTS
  Dirs, Files, Root,  \* the paths
  ParentOf,           \* SplitPath's directory, for all but Root
  PathOrder,          \* all paths in ascending order
  NoHash,             \* FileAttr.Hash is empty: not a file
  Reader              \* calls of get

Path == Dirs \cup Files

Children(p) == {c \in Path \ {Root} : ParentOf[c] = p}
NoNames == {Root}     \* FileAttr.NameModeMap is nil

ASSUME TreeAssumption ==
  /\ Root \in Dirs /\ Dirs \cap Files = {}
  /\ ParentOf \in [Path \ {Root} -> Dirs]

(* A directory's name is the beginning of the names of what is in it. *)
ASSUME OrderAssumption ==
  /\ PathOrder \in Seq(Path) /\ Path \subseteq Range(PathOrder)
  /\ \A i, k \in 1 .. Len(PathOrder) : PathOrder[i] = PathOrder[k] => i = k
  /\ \A i \in 1 .. Len(PathOrder) : PathOrder[i] # Root =>
       \E k \in 1 .. i - 1 : PathOrder[k] = ParentOf[PathOrder[i]]

VARIABLES
  cache,      \* AttributeCache.attributes
  busy,       \* AttributeCache.busy
  pc,         \* where each get is
  target,     \* its name
  level,      \* the path unsafeGet is at
  got         \* what its getter returned, then its result

getVars == <<pc, target, level, got>>
entryVars == <<cache, busy, getVars>>

(* A deletion, and no entry. *)
None == [val |-> 0, hash |-> NoHash, names |-> {}]

(* NewAttributeCache *)
Empty ==
  /\ cache = [p \in Path |-> None] /\ busy = {}
  /\ pc = [r \in Reader |-> "idle"]
  /\ target = [r \in Reader |-> Root] /\ level = [r \in Reader |-> Root]
  /\ got = [r \in Reader |-> None]

(* No entry of p's directory. *)
Orphan(C, p) == p # Root /\ C[ParentOf[p]] = None

-----------------------------------------------------------------------------
(* Where unsafeGet for t stops, if it begins at p, with C as attributes:   *)
(* where its call for t's directory does, unless that one lists t.         *)
StopAt(C, t, p) ==
  LET listed(q) == C[ParentOf[q]] # None /\ q \in C[ParentOf[q]].names
      stop[q \in Path] ==
        IF q \in {p, Root} THEN q
        ELSE IF stop[ParentOf[q]] = ParentOf[q] /\ listed(q) THEN q ELSE stop[ParentOf[q]] IN
  stop[t]

(* Mutant: no broadcast. *)
NoneWoken == pc

(* cond.Broadcast *)
Woken == [r \in Reader |-> IF pc[r] = "wait" THEN "woken" ELSE pc[r]]

(* unsafeGet from p on, under the mutex, with attributes C, busy B and the *)
(* others' pcs W: a result, negative if a directory does not list the next *)
(* path, a wait, or a fetch with the mutex released.                       *)
Walk(r, p, C, B, W) ==
  LET q == StopAt(C, target[r], p)
      finds == C[q] # None IN
  /\ level' = [level EXCEPT ![r] = IF finds THEN Root ELSE q]
  /\ pc' = [W EXCEPT ![r] =
              IF finds THEN "done" ELSE IF q \in B THEN "wait" ELSE "getter"]
  /\ busy' = IF finds THEN B ELSE B \cup {q}
  /\ got' = [got EXCEPT ![r] = IF q = target[r] THEN C[q] ELSE None]

(* localGet: an answer, also a negative one, or on to unsafeGet. *)
localGet(r, t) ==
  LET negative == t # Root /\ cache[ParentOf[t]] # None /\ t \notin cache[ParentOf[t]].names IN
  /\ pc[r] = "idle"
  /\ target' = [target EXCEPT ![r] = t]
  /\ pc' = [pc EXCEPT ![r] = IF cache[t] # None \/ negative THEN "done" ELSE "lock"]
  /\ got' = [got EXCEPT ![r] = cache[t]]
  /\ UNCHANGED <<level, cache, busy>>

(* The mutex is taken, or regained after cond.Wait at the same level. *)
unsafeGet(r) ==
  /\ pc[r] \in {"lock", "woken"}
  /\ Walk(r, IF pc[r] = "lock" THEN Root ELSE level[r], cache, busy, pc)
  /\ UNCHANGED <<target, cache>>

(* The attributes once a fetched value of q is stored. *)
Stored(q, v) == IF v = None THEN cache ELSE [cache EXCEPT ![q] = v]

(* Its value replaces the entry, whatever the entry is by now. *)
store(r) ==
  LET q == level[r]
      v == got[r] IN
  /\ pc[r] = "fill"
  /\ cache' = Stored(q, v)
  /\ \/ v # None /\ Walk(r, q, cache', busy \ {q}, Woken)
     \/ v = None /\ busy' = busy \ {q} /\ pc' = [Woken EXCEPT ![r] = "done"]
                 /\ level' = [level EXCEPT ![r] = Root]
                 /\ got' = [got EXCEPT ![r] = None]
  /\ UNCHANGED target

-----------------------------------------------------------------------------
(* Mutant: a deleted file stays in its directory. *)
ListedKept(C, f) ==
  IF f.path = Root THEN C
  ELSE [C EXCEPT ![ParentOf[f.path]].names = @ \cup {f.path}]

(* The directory of a file [path, val, hash, names] lists it, or not. *)
Listed(C, f) ==
  IF f.path = Root THEN C
  ELSE [C EXCEPT ![ParentOf[f.path]].names =
          IF f.val = 0 THEN @ \ {f.path} ELSE @ \cup {f.path}]

(* Mutant: Merge takes over a missing NameModeMap. *)
MergeNil(e, f) == [val |-> f.val, hash |-> f.hash, names |-> f.names]

(* FileAttr.Merge: a directory without its names keeps those of its entry. *)
Merge(e, f) ==
  [val |-> f.val, hash |-> f.hash, names |-> IF f.names = NoNames THEN e.names ELSE f.names]

(* Mutant: busy stays set. *)
FetchKept(B, p) == B

(* What is stored need not be fetched. *)
FetchDone(B, p) == B \ {p}

(* update, for one file f and S = [cache, busy]: nothing without the       *)
(* parent's entry; else the parent lists the file or not, and a deletion   *)
(* removes the entry, a directory without its names is merged or skipped,  *)
(* and anything else is stored.                                            *)
update(S, f) ==
  LET p == f.path
      C == Listed(S.cache, f) IN
  IF Orphan(S.cache, p) THEN S
  ELSE IF f.val = 0 THEN [S EXCEPT !.cache = [C EXCEPT ![p] = None]]
  ELSE IF C[p] = None /\ f.names = NoNames THEN [S EXCEPT !.cache = C]
  ELSE [cache |-> [C EXCEPT ![p] = Merge(C[p], f)], busy |-> FetchDone(S.busy, p)]

(* The states that update goes through with the files. *)
Updated(S, files) ==
  LET after[i \in 0 .. Len(files)] ==
        IF i = 0 THEN S ELSE update(after[i - 1], files[i]) IN
  after

Here == [cache |-> cache, busy |-> busy]

Update(files) ==
  LET S == Updated(Here, files)[Len(files)] IN
  /\ cache' = S.cache
  /\ busy' = S.busy
  /\ pc' = Woken

(* FileSet.Sort, for paths. *)
Ascending(T) ==
  LET s[i \in 0 .. Len(PathOrder)] ==
        IF i = 0 THEN <<>>
        ELSE IF PathOrder[i] \in T THEN Append(s[i - 1], PathOrder[i]) ELSE s[i - 1] IN
  s[Len(PathOrder)]
=============================================================================
