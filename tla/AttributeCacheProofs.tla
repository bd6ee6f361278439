------------------------ MODULE AttributeCacheProofs ------------------------
(***************************************************************************)
(* AttributeCache, for any tree of paths, lookups, replays and file sets:  *)
(* no path is both cached and being fetched, no lookup waits for nobody,   *)
(* and between replays the cache is what is on disk.                       *)
(*                                                                         *)
(* The argument for the last: while a replay is on its way, an entry that  *)
(* others have not touched differs from the disk at most where the replay  *)
(* has been already.  The last word of the replay on a path is what the    *)
(* disk says, unless others changed the path since, and Update goes over   *)
(* the same files in the same order.                                       *)
(*                                                                         *)
(* Update and Refresh go through a sequence of files; what holds after     *)
(* each file is shown by looking at the first one where it would not.      *)
(***************************************************************************)
EXTENDS AttributeCache, FiniteSetTheorems, WellFoundedInduction, TLAPS

(* An entry of p, and a file of an update; a deletion is no entry. *)
EntryOf(p) ==
  {e \in [val : Nat, hash : Hashes, names : SUBSET Children(p)] : e.val = 0 => e = None}

FileOf ==
  {f \in [path : Path, val : Nat, hash : Hashes, names : SUBSET Path] :
     f.names \subseteq Children(f.path) \/ (f.names = NoNames /\ f.path \in Dirs)}

States == {"idle", "lock", "wait", "woken", "getter", "fill", "done"}
JobStates == {"idle", "prepare", "queued", "disk", "reread", "done"}

CacheOf(C) == C \in [Path -> Entry] /\ \A p \in Path : C[p] \in EntryOf(p)

DiskTypes == disk \in [Path -> [val : Nat, hash : Hashes]] /\ clock \in [Path -> Nat]
CacheTypes ==
  CacheOf(cache) /\ busy \in SUBSET Path /\ stale \in SUBSET Path /\ disturbed \in SUBSET Path
GetTypes ==
  /\ pc \in [Reader -> States]
  /\ target \in [Reader -> Path] /\ level \in [Reader -> Path] /\ got \in [Reader -> Entry]
  /\ \A r \in Reader : pc[r] = "fill" => got[r] \in EntryOf(level[r])
ReplayTypes ==
  /\ job \in [Replay -> JobStates]
  /\ fset \in [Replay -> FileSets \cup {<<>>}] /\ at \in [Replay -> Nat]
  /\ haveHashes \in [Replay -> [Contents -> Nat]]
  /\ newFiles \in [Replay -> [Contents -> Seq(Hashes)]]
  /\ done \in [Replay -> Seq(FileOf)]
  /\ \A j \in Replay : job[j] = "prepare" => at[j] + 1 \in 1 .. Len(fset[j])
  /\ \A j \in Replay : job[j] = "reread" =>
                        done[j] # <<>> /\ done[j][Len(done[j])].val # 0
Types == DiskTypes /\ CacheTypes /\ GetTypes /\ ReplayTypes

(* Who fetches a path has marked it, until it is stored. *)
Fetched(q) == \E s \in Reader : pc[s] \in {"getter", "fill"} /\ level[s] = q
Lookups ==
  /\ \A q \in busy : cache[q] = None /\ Fetched(q)
  /\ \A r \in Reader : pc[r] = "wait" => level[r] \in busy

-----------------------------------------------------------------------------
(* p is on disk K; directories are there with what is in them. *)
There(K, p) == K[p].val # 0
Tree(K) == \A p \in Path \ {Root} : There(K, p) => There(K, ParentOf[p])

Active(s) == s \in {"disk", "reread"}
OneReplay ==
  /\ \A j, k \in Replay : Active(job[j]) /\ Active(job[k]) => j = k
  /\ \A j \in Replay : ~Active(job[j]) => done[j] = <<>>

(* The paths of the files F after the first i. *)
Coming(F, i) == {p \in Path : \E k \in i + 1 .. Len(F) : F[k].path = p}

(* What a replay says of a path is so on disk K, but where others, in X,   *)
(* have been: that it is there or not, its stat and contents, ...          *)
ExistsRight(f, K, X) ==
  f.path # Root => (f.val # 0 <=> There(K, f.path)) \/ ParentOf[f.path] \in X
ValueRight(e, p, K) ==
  IF p \in Files THEN e.val = K[p].val /\ e.hash = K[p].hash ELSE There(K, p)
InfoRight(f, K, X) ==
  /\ ExistsRight(f, K, X)
  /\ f.val # 0 => ValueRight(f, f.path, K) \/ f.path \in X

(* ... and its names, but for those that the replay comes to later. *)
NamesRight(f, P, K, X) ==
  f.val # 0 /\ f.names # NoNames /\ f.path \notin X =>
    \A c \in Children(f.path) : c \in P \/ (c \in f.names <=> There(K, c))

(* Its last word on each path is right. *)
AllRight(F, K, X) ==
  \A i \in 1 .. Len(F) :
    /\ F[i].path \in Coming(F, i) \/ InfoRight(F[i], K, X)
    /\ NamesRight(F[i], Coming(F, i), K, X)

(* An entry of cache C is what is on disk K, except for the paths P.       *)
Follows(C, K, P, p) ==
  C[p] # None =>
    /\ p \in P \/ ValueRight(C[p], p, K)
    /\ \A c \in Children(p) : c \in P \/ (c \in C[p].names <=> There(K, c))

(* Where the replay has been. *)
Pending == {p \in Path : \E j \in Replay : p \in Coming(done[j], 0)}

Followed ==
  \A p \in Path \ stale :
    Follows(cache, disk, Pending, p) /\ (cache[p] # None => ~Orphan(cache, p))

DoneRight == \A j \in Replay : AllRight(done[j], disk, disturbed)

Following == Tree(disk) /\ OneReplay /\ DoneRight /\ Followed

Inv == Types /\ Lookups /\ Following

-----------------------------------------------------------------------------
(* A set of numbers with zero and the successor of each member has them    *)
(* all: otherwise look at the first that is missing.                       *)
LEMMA Induction ==
  ASSUME NEW P, 0 \in P, \A n \in Nat : n \in P => n + 1 \in P
  PROVE  \A n \in Nat : n \in P
<1> DEFINE R == OpToRel(<, Nat)
           T == Nat \ P
<1> SUFFICES ASSUME T # {} PROVE FALSE
  BY Zenon
<1>1. IsWellFoundedOn(R, Nat)
  BY NatLessThanWellFounded, Zenon
<1>2. \A x, y \in Nat : x < y => <<x, y>> \in R
  BY Zenon DEF OpToRel
<1>3. T \in SUBSET Nat
  BY Zenon
<1> HIDE DEF R
<1>4. PICK x \in T : \A y \in T : ~(<<y, x>> \in R)
  <2> HIDE DEF T
  <2> QED BY <1>1, <1>3, WFMin, Zenon
<1>5. x \in Nat /\ x # 0
  BY Zenon
<1>6. x - 1 \in Nat /\ x - 1 < x /\ (x - 1) + 1 = x
  BY <1>5
<1>7. x - 1 \notin T
  BY <1>2, <1>4, <1>5, <1>6, Zenon
<1>8. (x - 1) + 1 \in P
  BY <1>6, <1>7, Zenon
<1> QED
  BY <1>6, <1>8, Zenon

-----------------------------------------------------------------------------
(* Updated(S, files), as far as file n. *)
IsUpdated(S, files, g, n) ==
  g = [i \in 0 .. n |-> IF i = 0 THEN S ELSE update(g[i - 1], files[i])]

(* For every number of files there is such a function: each file adds a    *)
(* step.                                                                   *)
LEMMA UpdatedExists ==
  ASSUME NEW S, NEW files
  PROVE  \A n \in Nat : \E g : IsUpdated(S, files, g, n)
<1> DEFINE P == {n \in Nat : \E g : IsUpdated(S, files, g, n)}
<1>1. 0 \in P
  <2> DEFINE g == [i \in 0 .. 0 |-> S]
  <2>1. IsUpdated(S, files, g, 0)
    BY DEF IsUpdated
  <2> QED BY <2>1, Zenon
<1>2. ASSUME NEW n \in Nat, n \in P PROVE n + 1 \in P
  <2>1. PICK g : IsUpdated(S, files, g, n)
    BY <1>2, Zenon
  <2> DEFINE h == [i \in 0 .. n + 1 |-> IF i = n + 1 THEN update(g[n], files[n + 1]) ELSE g[i]]
  <2>2. \A i \in 0 .. n + 1 : h[i] = IF i = 0 THEN S ELSE update(h[i - 1], files[i])
    BY <2>1 DEF IsUpdated
  <2>3. IsUpdated(S, files, h, n + 1)
    BY <2>2, Zenon DEF IsUpdated
  <2>4. n + 1 \in Nat
    OBVIOUS
  <2> QED BY <2>3, <2>4, Zenon
<1> HIDE DEF P
<1>3. \A n \in Nat : n \in P
  BY <1>1, <1>2, Induction, Zenon
<1> QED
  BY <1>3, Zenon DEF P

(* Update starts from what there is, and goes from file to file. *)
GoesThrough(g, S, files) ==
  g[0] = S /\ \A i \in 1 .. Len(files) : g[i] = update(g[i - 1], files[i])

(* So Updated is one, though it is defined by a choice. *)
LEMMA UpdatedSteps ==
  ASSUME NEW S, NEW files, Len(files) \in Nat
  PROVE  GoesThrough(Updated(S, files), S, files)
<1>1. \E g : IsUpdated(S, files, g, Len(files))
  BY UpdatedExists, Zenon
<1>2. IsUpdated(S, files, Updated(S, files), Len(files))
  BY <1>1, Zenon DEF Updated, IsUpdated
<1> DEFINE g == Updated(S, files)
<1> HIDE DEF g
<1>3. IsUpdated(S, files, g, Len(files))
  BY <1>2, Zenon DEF g
<1>4. GoesThrough(g, S, files)
  BY <1>3 DEF IsUpdated, GoesThrough
<1> QED
  BY <1>4, Zenon DEF g

-----------------------------------------------------------------------------
(* StopAt's function, for the first n paths. *)
Early(n) == {PathOrder[i] : i \in 1 .. n}
StopStep(C, p, g, q) ==
  IF q \in {p, Root} THEN q
  ELSE IF g[ParentOf[q]] = ParentOf[q] /\ (C[ParentOf[q]] # None /\ q \in C[ParentOf[q]].names)
       THEN q ELSE g[ParentOf[q]]
IsStop(C, p, g, n) == g = [q \in Early(n) |-> StopStep(C, p, g, q)]

(* The paths are those in PathOrder, each has its place, and a directory   *)
(* comes before what is in it.                                             *)
LEMMA Order ==
  /\ Len(PathOrder) \in Nat /\ Path = Early(Len(PathOrder))
  /\ \A i \in 1 .. Len(PathOrder) : PathOrder[i] \in Path
  /\ \A n \in Nat : n < Len(PathOrder) =>
       /\ Early(n + 1) = Early(n) \cup {PathOrder[n + 1]}
       /\ PathOrder[n + 1] \notin Early(n)
       /\ PathOrder[n + 1] # Root => ParentOf[PathOrder[n + 1]] \in Early(n)
<1>1. PathOrder \in Seq(Path) /\ Path \subseteq Range(PathOrder)
  BY OrderAssumption, Zenon
<1>2. Len(PathOrder) \in Nat /\ \A i \in 1 .. Len(PathOrder) : PathOrder[i] \in Path
  BY <1>1
<1>3. Path = Early(Len(PathOrder))
  BY <1>1, <1>2 DEF Early, Range
<1>4. ASSUME NEW n \in Nat, n < Len(PathOrder)
      PROVE  /\ Early(n + 1) = Early(n) \cup {PathOrder[n + 1]}
             /\ PathOrder[n + 1] \notin Early(n)
             /\ PathOrder[n + 1] # Root => ParentOf[PathOrder[n + 1]] \in Early(n)
  <2>0. n + 1 \in 1 .. Len(PathOrder) /\ \A i \in 1 .. n : i \in 1 .. Len(PathOrder) /\ i # n + 1
    BY <1>2, <1>4
  <2>1. Early(n + 1) = Early(n) \cup {PathOrder[n + 1]}
    BY <1>2, <1>4 DEF Early
  <2>2. PathOrder[n + 1] \notin Early(n)
    BY <2>0, OrderAssumption, Zenon DEF Early
  <2>3. (n + 1) - 1 = n
    OBVIOUS
  <2>4. PathOrder[n + 1] # Root => ParentOf[PathOrder[n + 1]] \in Early(n)
    BY <2>0, <2>3, OrderAssumption, Zenon DEF Early
  <2> QED BY <2>1, <2>2, <2>4, Zenon
<1> QED
  BY <1>2, <1>3, <1>4, Zenon

(* There is one for every cache: paths come after their directories. *)
LEMMA StopExists ==
  ASSUME NEW C, NEW p
  PROVE  \E g : IsStop(C, p, g, Len(PathOrder))
<1> DEFINE P == {n \in Nat : n <= Len(PathOrder) => \E g : IsStop(C, p, g, n)}
<1>1. 0 \in P
  <2> DEFINE g == [q \in Early(0) |-> q]
  <2>1. Early(0) = {}
    BY DEF Early
  <2>2. IsStop(C, p, g, 0)
    BY <2>1, Zenon DEF IsStop
  <2> QED BY <2>2, Zenon
<1>2. ASSUME NEW n \in Nat, n \in P PROVE n + 1 \in P
  <2> SUFFICES ASSUME n + 1 <= Len(PathOrder) PROVE \E h : IsStop(C, p, h, n + 1)
    OBVIOUS
  <2>1. n < Len(PathOrder) /\ n <= Len(PathOrder)
    BY Order
  <2>2. PICK g : IsStop(C, p, g, n)
    BY <1>2, <2>1, Zenon
  <2> DEFINE x == PathOrder[n + 1]
  <2> DEFINE h == [q \in Early(n + 1) |-> IF q = x THEN StopStep(C, p, g, x) ELSE g[q]]
  <2>3. /\ Early(n + 1) = Early(n) \cup {x} /\ x \notin Early(n)
        /\ x # Root => ParentOf[x] \in Early(n)
    BY <2>1, Order, Zenon
  <2>4. \A q \in Early(n) : q # Root => ParentOf[q] \in Early(n)
    <3> SUFFICES ASSUME NEW q \in Early(n), q # Root PROVE ParentOf[q] \in Early(n)
      BY Zenon
    <3>1. PICK i \in 1 .. n : q = PathOrder[i]
      BY Zenon DEF Early
    <3>2. i - 1 \in Nat /\ i - 1 < Len(PathOrder) /\ (i - 1) + 1 = i /\ 1 .. i - 1 \subseteq 1 .. n
      BY <2>1, Order
    <3>3. ParentOf[q] \in Early(i - 1)
      BY <3>1, <3>2, Order, Zenon
    <3> QED BY <3>2, <3>3, Zenon DEF Early
  <2> HIDE DEF x
  <2>5. \A q \in Early(n) : h[q] = g[q]
    BY <2>3, Zenon
  <2>6. h[x] = StopStep(C, p, g, x)
    BY <2>3, Zenon
  <2>7. StopStep(C, p, h, x) = StopStep(C, p, g, x)
    BY <2>3, <2>5, Zenon DEF StopStep
  <2>8. \A q \in Early(n) : g[q] = StopStep(C, p, g, q)
    BY <2>2, Zenon DEF IsStop
  <2>9. \A q \in Early(n) : StopStep(C, p, h, q) = StopStep(C, p, g, q)
    <3> HIDE DEF h
    <3> SUFFICES ASSUME NEW q \in Early(n) PROVE StopStep(C, p, h, q) = StopStep(C, p, g, q)
      BY Zenon
    <3>1. q # Root => h[ParentOf[q]] = g[ParentOf[q]]
      BY <2>4, <2>5, Zenon
    <3> QED BY <3>1, Zenon DEF StopStep
  <2>10. \A q \in Early(n + 1) : h[q] = StopStep(C, p, h, q)
    <3> HIDE DEF h
    <3> QED BY <2>3, <2>5, <2>6, <2>7, <2>8, <2>9, Zenon
  <2>11. IsStop(C, p, h, n + 1)
    BY <2>10, Zenon DEF IsStop
  <2> QED BY <2>11, Zenon
<1> HIDE DEF P
<1>3. \A n \in Nat : n \in P
  BY <1>1, <1>2, Induction, Zenon
<1>4. Len(PathOrder) \in Nat /\ Len(PathOrder) <= Len(PathOrder)
  BY Order
<1> QED
  BY <1>3, <1>4, Zenon DEF P

(* A lookup stops at a path. *)
LEMMA StopIsPath ==
  ASSUME NEW C, NEW p \in Path, NEW t \in Path
  PROVE  StopAt(C, t, p) \in Path
<1>1. PICK g0 : g0 = [q \in Path |-> StopStep(C, p, g0, q)]
  <2>1. PICK g0 : IsStop(C, p, g0, Len(PathOrder))
    BY StopExists, Zenon
  <2>2. Path = Early(Len(PathOrder))
    BY Order, Zenon
  <2> QED BY <2>1, <2>2, Zenon DEF IsStop
<1>2. \E g : /\ g = [q \in Path |-> StopStep(C, p, g, q)]
             /\ StopAt(C, t, p) = g[t]
  BY <1>1, Zenon DEF StopAt, StopStep
<1>3. PICK g : /\ g = [q \in Path |-> StopStep(C, p, g, q)]
               /\ StopAt(C, t, p) = g[t]
  BY <1>2, Zenon
<1> DEFINE P == {n \in Nat : n <= Len(PathOrder) => \A q \in Early(n) : g[q] \in Path}
<1>4. 0 \in P
  BY DEF Early
<1>5. ASSUME NEW n \in Nat, n \in P PROVE n + 1 \in P
  <2> SUFFICES ASSUME n + 1 <= Len(PathOrder), NEW q \in Early(n + 1) PROVE g[q] \in Path
    OBVIOUS
  <2>1. n < Len(PathOrder) /\ n <= Len(PathOrder) /\ n + 1 \in 1 .. Len(PathOrder)
    BY Order
  <2>2. \A r \in Early(n) : g[r] \in Path
    BY <1>5, <2>1, Zenon
  <2>3. CASE q \in Early(n)
    BY <2>2, <2>3, Zenon
  <2>4. CASE q = PathOrder[n + 1]
    <3>1. q \in Path /\ (q # Root => g[ParentOf[q]] \in Path)
      BY <2>1, <2>2, <2>4, Order, Zenon
    <3>2. g[q] = StopStep(C, p, g, q)
      BY <1>3, <3>1, Zenon
    <3> QED BY <3>1, <3>2, Zenon DEF StopStep
  <2> QED BY <2>1, <2>3, <2>4, Order, Zenon
<1> HIDE DEF P
<1>6. \A n \in Nat : n \in P
  BY <1>4, <1>5, Induction, Zenon
<1>7. Len(PathOrder) \in Nat /\ Len(PathOrder) <= Len(PathOrder)
  BY Order
<1>8. \A q \in Path : g[q] \in Path
  BY <1>6, <1>7, Order, Zenon DEF P
<1> QED
  BY <1>3, <1>8, Zenon

-----------------------------------------------------------------------------
AscendStep(T, s, i) == IF PathOrder[i] \in T THEN Append(s, PathOrder[i]) ELSE s
IsAscending(T, g, n) ==
  g = [i \in 0 .. n |-> IF i = 0 THEN <<>> ELSE AscendStep(T, g[i - 1], i)]

(* For every number of paths looked at there is one. *)
LEMMA AscendingExists ==
  ASSUME NEW T
  PROVE  \A n \in Nat : \E g : IsAscending(T, g, n)
<1> DEFINE P == {n \in Nat : \E g : IsAscending(T, g, n)}
<1>1. 0 \in P
  <2> DEFINE g == [i \in 0 .. 0 |-> <<>>]
  <2>1. IsAscending(T, g, 0)
    BY DEF IsAscending
  <2> QED BY <2>1, Zenon
<1>2. ASSUME NEW n \in Nat, n \in P PROVE n + 1 \in P
  <2>1. PICK g : IsAscending(T, g, n)
    BY <1>2, Zenon
  <2> DEFINE h == [i \in 0 .. n + 1 |-> IF i = n + 1 THEN AscendStep(T, g[n], n + 1) ELSE g[i]]
  <2>2. \A i \in 0 .. n + 1 : h[i] = IF i = 0 THEN <<>> ELSE AscendStep(T, h[i - 1], i)
    BY <2>1 DEF IsAscending
  <2>3. IsAscending(T, h, n + 1)
    BY <2>2, Zenon DEF IsAscending
  <2>4. n + 1 \in Nat
    OBVIOUS
  <2> QED BY <2>3, <2>4, Zenon
<1> HIDE DEF P
<1>3. \A n \in Nat : n \in P
  BY <1>1, <1>2, Induction, Zenon
<1> QED
  BY <1>3, Zenon DEF P

(* s has the members of T. *)
Lists(s, T) == s \in Seq(T) /\ \A p \in T : \E i \in 1 .. Len(s) : s[i] = p

(* One more member at the end. *)
LEMMA ListsAppend ==
  ASSUME NEW T, NEW s, Lists(s, T), NEW x
  PROVE  Lists(Append(s, x), T \cup {x})
<1> DEFINE r == Append(s, x)
<1>1. /\ s \in Seq(T) /\ Len(s) \in Nat
      /\ \A i \in 1 .. Len(s) : s[i] \in T
  BY DEF Lists
<1>2. /\ r \in Seq(T \cup {x})
      /\ Len(r) = Len(s) + 1 /\ r[Len(s) + 1] = x
      /\ \A i \in 1 .. Len(s) : r[i] = s[i]
  <2>1. s \in Seq(T \cup {x})
    BY <1>1
  <2> QED BY <1>1, <2>1
<1>3. /\ Len(s) + 1 \in 1 .. Len(s) + 1
      /\ \A i \in 1 .. Len(s) : i \in 1 .. Len(s) + 1
      /\ \A i \in 1 .. Len(s) + 1 : i \in 1 .. Len(s) \/ i = Len(s) + 1
  BY <1>1
<1> HIDE DEF r
<1>4. \A p \in T \cup {x} : \E i \in 1 .. Len(r) : r[i] = p
  BY <1>2, <1>3, Zenon DEF Lists
<1> QED
  BY <1>2, <1>4, Zenon DEF Lists, r

(* Ascending has the members of T. *)
LEMMA AscendingLists ==
  ASSUME NEW T \in SUBSET Path
  PROVE  Lists(Ascending(T), T)
<1>0. Len(PathOrder) \in Nat /\ Len(PathOrder) <= Len(PathOrder)
  BY Order
<1>1. \E g : IsAscending(T, g, Len(PathOrder))
  BY <1>0, AscendingExists, Zenon
<1>2. \E g : IsAscending(T, g, Len(PathOrder)) /\ Ascending(T) = g[Len(PathOrder)]
  BY <1>1, Zenon DEF Ascending, IsAscending, AscendStep
<1>3. PICK g : IsAscending(T, g, Len(PathOrder)) /\ Ascending(T) = g[Len(PathOrder)]
  BY <1>2, Zenon
<1> DEFINE P == {n \in Nat : n <= Len(PathOrder) => Lists(g[n], T \cap Early(n))}
<1>4. 0 \in P
  <2>1. g[0] = <<>> /\ T \cap Early(0) = {}
    BY <1>0, <1>3 DEF IsAscending, Early
  <2>2. Lists(<<>>, {})
    BY DEF Lists
  <2>3. 0 \in Nat
    BY Zenon
  <2> QED BY <2>1, <2>2, <2>3, Zenon
<1>5. ASSUME NEW n \in Nat, n \in P PROVE n + 1 \in P
  <2> SUFFICES ASSUME n + 1 <= Len(PathOrder) PROVE Lists(g[n + 1], T \cap Early(n + 1))
    OBVIOUS
  <2>1. n < Len(PathOrder) /\ n <= Len(PathOrder)
    BY <1>0
  <2>2. g[n + 1] = AscendStep(T, g[n], n + 1)
    BY <1>0, <1>3, <2>1 DEF IsAscending
  <2>3. Lists(g[n], T \cap Early(n))
    BY <1>5, <2>1, Zenon
  <2>4. Early(n + 1) = Early(n) \cup {PathOrder[n + 1]}
    BY <2>1, Order, Zenon
  <2>5. CASE PathOrder[n + 1] \in T
    <3>1. T \cap Early(n + 1) = (T \cap Early(n)) \cup {PathOrder[n + 1]}
      BY <2>4, <2>5, Zenon
    <3>2. g[n + 1] = Append(g[n], PathOrder[n + 1])
      BY <2>2, <2>5, Zenon DEF AscendStep
    <3>3. Lists(Append(g[n], PathOrder[n + 1]), (T \cap Early(n)) \cup {PathOrder[n + 1]})
      BY <2>3, ListsAppend, Zenon
    <3> QED BY <3>1, <3>2, <3>3, Zenon
  <2>6. CASE PathOrder[n + 1] \notin T
    <3>1. T \cap Early(n + 1) = T \cap Early(n)
      BY <2>4, <2>6, Zenon
    <3> QED BY <2>2, <2>3, <2>6, <3>1, Zenon DEF AscendStep
  <2> QED BY <2>5, <2>6, Zenon
<1> HIDE DEF P
<1>6. \A n \in Nat : n \in P
  BY <1>4, <1>5, Induction, Zenon
<1>7. Lists(g[Len(PathOrder)], T \cap Early(Len(PathOrder)))
  BY <1>0, <1>6, Zenon DEF P
<1>8. T \cap Early(Len(PathOrder)) = T
  BY Order, Zenon
<1> QED
  BY <1>3, <1>7, <1>8, Zenon

-----------------------------------------------------------------------------
(* No path is its own directory: directories come first in PathOrder. *)
LEMMA ParentDiffers ==
  ASSUME NEW p \in Path, p # Root
  PROVE  ParentOf[p] \in Dirs /\ ParentOf[p] \in Path /\ ParentOf[p] # p
<1>1. PICK i \in 1 .. Len(PathOrder) : p = PathOrder[i]
  BY Order, Zenon DEF Early
<1>2. i - 1 \in Nat /\ i - 1 < Len(PathOrder) /\ (i - 1) + 1 = i
  BY Order
<1>3. ParentOf[p] \in Early(i - 1) /\ p \notin Early(i - 1)
  BY <1>1, <1>2, Order, Zenon
<1>4. ParentOf[p] \in Dirs
  BY TreeAssumption, Zenon
<1> QED
  BY <1>3, <1>4, Zenon DEF Path

(* The file is not for this cache: its directory has no entry. *)
Discards(C, f) == Orphan(C, f.path)

(* What update makes of each entry. *)
EntryAfter(C, f, p) ==
  IF Discards(C, f) THEN C[p]
  ELSE IF p = f.path
       THEN IF f.val = 0 \/ (C[p] = None /\ f.names = NoNames) THEN None
            ELSE Merge(C[p], f)
  ELSE IF f.path # Root /\ p = ParentOf[f.path]
       THEN [val |-> C[p].val, hash |-> C[p].hash,
             names |-> IF f.val = 0 THEN C[p].names \ {f.path} ELSE C[p].names \cup {f.path}]
  ELSE C[p]

UpdatedBy(T, C, B, f) ==
  \E D \in {{}, {f.path}} :
    /\ T = [cache |-> [p \in Path |-> EntryAfter(C, f, p)], busy |-> B \ D]
    /\ ~Discards(C, f) /\ EntryAfter(C, f, f.path) # None => D = {f.path}

(* What update does to each entry and to busy, path by path. *)
LEMMA UpdateEntries ==
  ASSUME NEW C, CacheOf(C), NEW B \in SUBSET Path, NEW f \in FileOf
  PROVE  UpdatedBy(update([cache |-> C, busy |-> B], f), C, B, f)
<1> DEFINE S == [cache |-> C, busy |-> B]
           p == f.path
           listed == [C EXCEPT ![ParentOf[p]].names = IF f.val = 0 THEN @ \ {p} ELSE @ \cup {p}]
           L == Listed(C, f)
           new == Merge(L[p], f)
           after == [q \in Path |-> EntryAfter(C, f, q)]
<1>0. /\ S.cache = C /\ S.busy = B
      /\ \A X : [S EXCEPT !.cache = X] = [cache |-> X, busy |-> B]
  OBVIOUS
<1> HIDE DEF S
<1>1. p \in Path /\ (p # Root => ParentOf[p] \in Path /\ ParentOf[p] # p)
  BY TreeAssumption, ParentDiffers, Zenon DEF FileOf
<1>2. C \in [Path -> Entry]
  BY Zenon DEF CacheOf
<1>3. /\ DOMAIN L = Path
      /\ \A q \in Path :
           L[q] = IF p # Root /\ q = ParentOf[p]
                  THEN [val |-> C[q].val, hash |-> C[q].hash,
                        names |-> IF f.val = 0 THEN C[q].names \ {p} ELSE C[q].names \cup {p}]
                  ELSE C[q]
  <2>1. CASE p = Root
    BY <1>2, <2>1, Zenon DEF Listed
  <2>2. CASE p # Root
    <3> DEFINE names == IF f.val = 0 THEN C[ParentOf[p]].names \ {p} ELSE C[ParentOf[p]].names \cup {p}
    <3>1. C[ParentOf[p]] \in Entry
      BY <1>1, <1>2, <2>2, Zenon
    <3>2. listed = [C EXCEPT ![ParentOf[p]] = [@ EXCEPT !.names = names]]
      BY <1>1, <1>2, <2>2, Zenon
    <3>3. [C[ParentOf[p]] EXCEPT !.names = names] =
           [val |-> C[ParentOf[p]].val, hash |-> C[ParentOf[p]].hash, names |-> names]
      <4> HIDE DEF names
      <4> QED BY <3>1 DEF Entry
    <3>4. L = [C EXCEPT ![ParentOf[p]] =
                 [val |-> C[ParentOf[p]].val, hash |-> C[ParentOf[p]].hash, names |-> names]]
      BY <2>2, <3>2, <3>3, Zenon DEF Listed
    <3> HIDE DEF L
    <3> QED BY <1>1, <1>2, <2>2, <3>4, Zenon
  <2> QED BY <2>1, <2>2, Zenon
<1>4. L[p] = C[p]
  BY <1>1, <1>3, Zenon
<1> HIDE DEF L
<1> HIDE DEF new, after
<1> SUFFICES \E D \in {{}, {p}} :
               /\ update(S, f) = [cache |-> after, busy |-> B \ D]
               /\ ~Discards(C, f) /\ EntryAfter(C, f, p) # None => D = {p}
  BY Zenon DEF S, after, UpdatedBy
<1>5. B \ {} = B
  BY Zenon
<1>6. update(S, f) =
         IF Discards(C, f) THEN S
         ELSE IF f.val = 0 THEN [cache |-> [L EXCEPT ![p] = None], busy |-> B]
         ELSE IF L[p] = None /\ f.names = NoNames THEN [cache |-> L, busy |-> B]
         ELSE [cache |-> [L EXCEPT ![p] = new], busy |-> B \ {p}]
  BY <1>0, Zenon DEF update, Discards, FetchDone, L, new
<1>7. CASE Discards(C, f)
  <2>1. update(S, f) = S
    BY <1>7, <1>6, Zenon
  <2>2. after = C
    BY <1>2, <1>7, Zenon DEF EntryAfter, after
  <2>3. update(S, f) = [cache |-> after, busy |-> B \ {}]
    BY <1>5, <2>1, <2>2, Zenon DEF S
  <2> QED BY <1>7, <2>3, Zenon
<1>8. CASE ~Discards(C, f) /\ f.val = 0
  <2>1. update(S, f) = [cache |-> [L EXCEPT ![p] = None], busy |-> B]
    BY <1>8, <1>6, Zenon
  <2>2. after = [L EXCEPT ![p] = None]
    <3>1. \A q \in Path : EntryAfter(C, f, q) = IF q = p THEN None ELSE L[q]
      BY <1>3, <1>8, Zenon DEF EntryAfter
    <3> QED BY <1>3, <3>1, Zenon DEF after
  <2>3. EntryAfter(C, f, p) = None
    BY <1>8, Zenon DEF EntryAfter
  <2> QED BY <1>5, <2>1, <2>2, <2>3, Zenon
<1>9. CASE ~Discards(C, f) /\ f.val # 0 /\ C[p] = None /\ f.names = NoNames
  <2>1. update(S, f) = [cache |-> L, busy |-> B]
    BY <1>4, <1>9, <1>6, Zenon
  <2>2. after = L
    <3>1. \A q \in Path : EntryAfter(C, f, q) = L[q]
      BY <1>1, <1>3, <1>4, <1>9, Zenon DEF EntryAfter
    <3>2. L = [q \in Path |-> L[q]]
      BY <1>1, <1>2, Zenon DEF L, Listed
    <3> QED BY <3>1, <3>2, Zenon DEF after
  <2>3. EntryAfter(C, f, p) = None
    BY <1>9, Zenon DEF EntryAfter
  <2> QED BY <1>5, <2>1, <2>2, <2>3, Zenon
<1>10. CASE ~Discards(C, f) /\ f.val # 0 /\ ~(C[p] = None /\ f.names = NoNames)
  <2>1. update(S, f) = [cache |-> [L EXCEPT ![p] = new], busy |-> B \ {p}]
    BY <1>4, <1>10, <1>6, Zenon
  <2>2. after = [L EXCEPT ![p] = new]
    <3>1. EntryAfter(C, f, p) = new
      BY <1>4, <1>10, Zenon DEF EntryAfter, new
    <3>2. \A q \in Path : EntryAfter(C, f, q) = IF q = p THEN new ELSE L[q]
      BY <1>3, <1>10, <3>1, Zenon DEF EntryAfter
    <3> QED BY <1>3, <3>2, Zenon DEF after
  <2> QED BY <2>1, <2>2, Zenon
<1> QED
  BY <1>7, <1>8, <1>9, <1>10, Zenon

(* An update of one file leaves entries entries, with names of their own   *)
(* children.                                                               *)
LEMMA EntriesStay ==
  ASSUME NEW C, CacheOf(C), NEW f \in FileOf
  PROVE  CacheOf([p \in Path |-> EntryAfter(C, f, p)])
<1>1. /\ f.path \in Path /\ f.val \in Nat /\ f.hash \in Hashes
      /\ f.names # NoNames => f.names \subseteq Children(f.path)
  BY Zenon DEF FileOf
<1>2. ASSUME NEW p \in Path PROVE EntryAfter(C, f, p) \in EntryOf(p)
  <2>1. C[p] \in EntryOf(p) /\ None \in EntryOf(p)
    BY DEF CacheOf, EntryOf, None, Hashes
  <2>2. CASE Discards(C, f) \/ (p # f.path /\ ~(f.path # Root /\ p = ParentOf[f.path]))
    BY <2>1, <2>2, Zenon DEF EntryAfter
  <2>3. CASE ~Discards(C, f) /\ p = f.path
    <3> DEFINE names == IF f.names = NoNames THEN C[p].names ELSE f.names
    <3>1. names \subseteq Children(p)
      <4>1. C[p].names \subseteq Children(p)
        BY <2>1, Zenon DEF EntryOf
      <4> QED BY <1>1, <2>3, <4>1, Zenon
    <3> HIDE DEF names
    <3>2. f.val # 0 => [val |-> f.val, hash |-> f.hash, names |-> names] \in EntryOf(p)
      BY <1>1, <3>1, Zenon DEF EntryOf
    <3> QED BY <2>1, <2>3, <3>2, Zenon DEF EntryAfter, Merge, names
  <2>4. CASE ~Discards(C, f) /\ p # f.path /\ f.path # Root /\ p = ParentOf[f.path]
    <3> DEFINE names == IF f.val = 0 THEN C[p].names \ {f.path} ELSE C[p].names \cup {f.path}
    <3>1. C[p] # None /\ f.path \in Children(p)
      BY <1>1, <2>4, Zenon DEF Discards, Orphan, Children
    <3>2. /\ C[p].names \subseteq Children(p) /\ C[p].val \in Nat /\ C[p].hash \in Hashes
          /\ C[p].val # 0
      BY <2>1, <3>1, Zenon DEF EntryOf
    <3>3. names \subseteq Children(p)
      BY <3>1, <3>2, Zenon
    <3> HIDE DEF names
    <3>4. [val |-> C[p].val, hash |-> C[p].hash, names |-> names] \in EntryOf(p)
      BY <3>2, <3>3, Zenon DEF EntryOf
    <3> QED BY <2>4, <3>4, Zenon DEF EntryAfter, names
  <2> QED BY <2>2, <2>3, <2>4, Zenon
<1>3. \A p \in Path : EntryOf(p) \subseteq Entry
  BY Zenon DEF EntryOf, Children, Entry
<1> QED
  BY <1>2, <1>3, Zenon DEF CacheOf

(* A state of cache and busy, coming from busy B. *)
StateOf(S, B) ==
  /\ S = [cache |-> S.cache, busy |-> S.busy]
  /\ CacheOf(S.cache)
  /\ S.busy \subseteq B
  /\ \A p \in S.busy : S.cache[p] = None

CacheAfter(T, S, f) == T.cache = [p \in Path |-> EntryAfter(S.cache, f, p)]

(* One file: the state keeps its type, and no busy path gets an entry. *)
LEMMA UpdateState ==
  ASSUME NEW B \in SUBSET Path, NEW S, StateOf(S, B), NEW f \in FileOf
  PROVE  StateOf(update(S, f), B) /\ CacheAfter(update(S, f), S, f)
<1> DEFINE C == S.cache
           after == [p \in Path |-> EntryAfter(C, f, p)]
<1>1. S = [cache |-> C, busy |-> S.busy] /\ CacheOf(C) /\ S.busy \in SUBSET Path
  BY Zenon DEF StateOf
<1>2. PICK D \in {{}, {f.path}} :
        /\ update([cache |-> C, busy |-> S.busy], f) = [cache |-> after, busy |-> S.busy \ D]
        /\ ~Discards(C, f) /\ EntryAfter(C, f, f.path) # None => D = {f.path}
  <2>1. UpdatedBy(update([cache |-> C, busy |-> S.busy], f), C, S.busy, f)
    BY <1>1, UpdateEntries, Zenon
  <2> QED BY <2>1, Zenon DEF UpdatedBy
<1>3. update(S, f) = [cache |-> after, busy |-> S.busy \ D]
  BY <1>1, <1>2, Zenon
<1>4. CacheOf(after)
  BY <1>1, EntriesStay, Zenon
<1>5. ASSUME NEW p \in S.busy \ D PROVE after[p] = None
  <2>1. C[p] = None /\ p \in Path
    BY Zenon DEF StateOf
  <2>2. CASE p = f.path
    BY <1>2, <2>1, <2>2, Zenon DEF EntryAfter
  <2>3. CASE p # f.path
    <3>1. ~Discards(C, f) => ~(f.path # Root /\ p = ParentOf[f.path])
      BY <2>1, Zenon DEF Discards, Orphan
    <3> QED BY <2>1, <2>3, <3>1, Zenon DEF EntryAfter
  <2> QED BY <2>2, <2>3, Zenon
<1> HIDE DEF after
<1>6. update(S, f).cache = after /\ update(S, f).busy = S.busy \ D
  BY <1>3
<1>7. S.busy \subseteq B
  BY Zenon DEF StateOf
<1>8. StateOf(update(S, f), B)
  BY <1>3, <1>4, <1>5, <1>6, <1>7, Zenon DEF StateOf
<1> QED
  BY <1>6, <1>8, Zenon DEF after, CacheAfter

(* All files of an update, by induction over them. *)
LEMMA UpdatedStates ==
  ASSUME NEW B \in SUBSET Path, NEW S, StateOf(S, B),
         NEW files \in Seq(FileOf)
  PROVE  /\ \A i \in 0 .. Len(files) : StateOf(Updated(S, files)[i], B)
         /\ \A i \in 1 .. Len(files) :
              CacheAfter(Updated(S, files)[i], Updated(S, files)[i - 1], files[i])
<1> DEFINE U == Updated(S, files)
<1>0. Len(files) \in Nat /\ \A i \in 1 .. Len(files) : files[i] \in FileOf
  OBVIOUS
<1>1. U[0] = S /\ \A i \in 1 .. Len(files) : U[i] = update(U[i - 1], files[i])
  <2>1. GoesThrough(U, S, files)
    BY <1>0, UpdatedSteps, Zenon
  <2> HIDE DEF U
  <2> QED BY <2>1, Zenon DEF GoesThrough
<1> HIDE DEF U
<1> DEFINE P == {i \in Nat : i <= Len(files) => StateOf(U[i], B)}
<1>2. 0 \in P
  BY <1>1, Zenon
<1>3. ASSUME NEW i \in Nat, i \in P PROVE i + 1 \in P
  <2> SUFFICES ASSUME i + 1 <= Len(files) PROVE StateOf(U[i + 1], B)
    OBVIOUS
  <2>1. i <= Len(files) /\ i + 1 \in 1 .. Len(files) /\ (i + 1) - 1 = i
    BY <1>0
  <2>2. StateOf(U[i], B) /\ U[i + 1] = update(U[i], files[i + 1])
    BY <1>1, <1>3, <2>1, Zenon
  <2> QED BY <1>0, <2>1, <2>2, UpdateState, Zenon
<1> HIDE DEF P
<1>4. \A i \in Nat : i \in P
  BY <1>2, <1>3, Induction, Zenon
<1>5. \A i \in 0 .. Len(files) : i \in Nat /\ i <= Len(files)
  BY <1>0
<1>6. \A i \in 0 .. Len(files) : StateOf(U[i], B)
  BY <1>4, <1>5, Zenon DEF P
<1>7. ASSUME NEW i \in 1 .. Len(files) PROVE CacheAfter(U[i], U[i - 1], files[i])
  <2>1. i - 1 \in 0 .. Len(files)
    BY <1>0
  <2> QED BY <1>0, <1>1, <1>6, <2>1, UpdateState, Zenon
<1> QED
  BY <1>6, <1>7, Zenon DEF U

-----------------------------------------------------------------------------
(* A path that is still to come is that of the next file or comes later. *)
LEMMA ComingNext ==
  ASSUME NEW F, Len(F) \in Nat, NEW i \in Nat, i + 1 <= Len(F), NEW p \in Coming(F, i)
  PROVE  p = F[i + 1].path \/ p \in Coming(F, i + 1)
<1>1. PICK k \in i + 1 .. Len(F) : F[k].path = p
  BY Zenon DEF Coming
<1>2. k = i + 1 \/ k \in (i + 1) + 1 .. Len(F)
  OBVIOUS
<1>3. p \in Path
  BY Zenon DEF Coming
<1> QED
  BY <1>1, <1>2, <1>3, Zenon DEF Coming

(* Nothing comes after the last. *)
LEMMA ComingEnds ==
  ASSUME NEW F, Len(F) \in Nat
  PROVE  Coming(F, Len(F)) = {}
  BY DEF Coming

(* An entry has a version, and no entry has none. *)
LEMMA NonNoneValue ==
  ASSUME NEW C, CacheOf(C), NEW p \in Path
  PROVE  C[p] # None <=> C[p].val # 0
<1>1. C[p] \in EntryOf(p)
  BY Zenon DEF CacheOf
<1>2. None.val = 0
  BY Zenon DEF None
<1> QED
  BY <1>1, <1>2, Zenon DEF EntryOf

(* What is listed of a directory. *)
LEMMA DiskNames ==
  ASSUME Tree(disk), NEW p \in Path, NEW c \in Children(p)
  PROVE  c \in Disk(p).names <=> There(disk, c)
<1>1. CASE ~Exists(p)
  <2>1. Disk(p).names = {}
    BY <1>1, Zenon DEF Disk, None
  <2>2. ~There(disk, c)
    BY <1>1, Zenon DEF Tree, Children, There, Exists
  <2> QED BY <2>1, <2>2, Zenon
<1>2. CASE Exists(p)
  <2>1. Disk(p).names = {b \in Children(p) : Exists(b)}
    BY <1>2, Zenon DEF Disk
  <2> QED BY <2>1, Zenon DEF There, Exists
<1> QED
  BY <1>1, <1>2, Zenon

(* Entries of other paths stay, but for listing the file. *)
Keeps(new, old, f, q) ==
  /\ new # None <=> old # None
  /\ new.val = old.val /\ new.hash = old.hash
  /\ \A c \in Children(q) : c # f.path => (c \in new.names <=> c \in old.names)
  /\ f.path \in Children(q) /\ old # None => (f.path \in new.names <=> f.val # 0)

(* An update of another path changes no more of an entry than one name. *)
LEMMA OthersStay ==
  ASSUME NEW C, CacheOf(C), NEW f, NEW q \in Path, q # f.path
  PROVE  Keeps(EntryAfter(C, f, q), C[q], f, q)
<1> DEFINE names == IF f.val = 0 THEN C[q].names \ {f.path} ELSE C[q].names \cup {f.path}
<1>1. CASE ~Discards(C, f) /\ f.path # Root /\ q = ParentOf[f.path]
  <2>1. EntryAfter(C, f, q) = [val |-> C[q].val, hash |-> C[q].hash, names |-> names]
    BY <1>1, Zenon DEF EntryAfter
  <2>2. C[q] # None
    BY <1>1, Zenon DEF Discards, Orphan
  <2>3. C[q].val # 0 /\ None.val = 0
    BY <2>2, NonNoneValue, Zenon DEF None
  <2> HIDE DEF names
  <2>4. /\ EntryAfter(C, f, q).val = C[q].val /\ EntryAfter(C, f, q).hash = C[q].hash
        /\ EntryAfter(C, f, q).names = names
    BY <2>1
  <2>5. EntryAfter(C, f, q) # None
    BY <2>3, <2>4, Zenon
  <2> QED BY <2>2, <2>4, <2>5, Zenon DEF names, Keeps
<1>2. CASE Discards(C, f) \/ f.path = Root \/ q # ParentOf[f.path]
  <2>1. EntryAfter(C, f, q) = C[q]
    BY <1>2, Zenon DEF EntryAfter
  <2>2. ~(f.path \in Children(q) /\ C[q] # None)
    BY <1>2, Zenon DEF Discards, Orphan, Children
  <2> QED BY <2>1, <2>2, Zenon DEF Keeps
<1> QED
  BY <1>1, <1>2, Zenon

(* One file of a replay brings the entry of any path closer to the disk,   *)
(* unless others have changed it or its directory has no entry.            *)
LEMMA UpdateFollows ==
  ASSUME NEW C, CacheOf(C), NEW F \in Seq(FileOf), NEW K, NEW X, AllRight(F, K, X),
         NEW i \in Nat, i + 1 <= Len(F), NEW p \in Path, p \notin X, ~Orphan(C, p),
         Follows(C, K, Coming(F, i), p),
         NEW D, D = [q \in Path |-> EntryAfter(C, F[i + 1], q)]
  PROVE  Follows(D, K, Coming(F, i + 1), p)
<1> DEFINE f == F[i + 1]
           P == Coming(F, i)
           R == Coming(F, i + 1)
<1> SUFFICES ASSUME D[p] # None
             PROVE  /\ p \in R \/ ValueRight(D[p], p, K)
                    /\ \A c \in Children(p) : c \in R \/ (c \in D[p].names <=> There(K, c))
  BY Zenon DEF Follows
<1>0. Len(F) \in Nat /\ i + 1 \in 1 .. Len(F) /\ f \in FileOf
  OBVIOUS
<1>1. /\ f.path \in Path
      /\ f.path \in R \/ InfoRight(f, K, X)
      /\ NamesRight(f, R, K, X)
  BY <1>0, Zenon DEF FileOf, AllRight
<1>2. D[p] = EntryAfter(C, f, p)
  BY Zenon
<1>3. \A c \in P : c = f.path \/ c \in R
  BY <1>0, ComingNext, Zenon
<1> HIDE DEF f, P, R
<1>4. CASE p = f.path
  <2>1. ~Discards(C, f)
    BY <1>4, Zenon DEF Discards
  <2>2. /\ f.val # 0 /\ ~(C[p] = None /\ f.names = NoNames)
        /\ D[p] = Merge(C[p], f)
    BY <1>2, <1>4, <2>1, Zenon DEF EntryAfter
  <2>3. /\ D[p].val = f.val /\ D[p].hash = f.hash
        /\ D[p].names = IF f.names = NoNames THEN C[p].names ELSE f.names
    <3>1. D[p] = [val |-> f.val, hash |-> f.hash,
                  names |-> IF f.names = NoNames THEN C[p].names ELSE f.names]
      BY <2>2, Zenon DEF Merge
    <3> QED BY <3>1
  <2>4. p \in R \/ ValueRight(D[p], p, K)
    BY <1>1, <1>4, <2>2, <2>3, Zenon DEF InfoRight, ValueRight
  <2>5. ASSUME NEW c \in Children(p) PROVE c \in R \/ (c \in D[p].names <=> There(K, c))
    <3>1. CASE f.names = NoNames
      <4>1. c \in P \/ (c \in C[p].names <=> There(K, c))
        BY <2>2, <3>1, Zenon DEF Follows, P
      <4>2. c # p
        BY ParentDiffers, Zenon DEF Children
      <4> QED BY <1>3, <1>4, <2>3, <3>1, <4>1, <4>2, Zenon
    <3>2. CASE f.names # NoNames
      BY <1>1, <1>4, <2>2, <2>3, <3>2, Zenon DEF NamesRight
    <3> QED BY <3>1, <3>2, Zenon
  <2> QED BY <2>4, <2>5, Zenon
<1>5. CASE p # f.path
  <2>1. Keeps(D[p], C[p], f, p)
    BY <1>2, <1>5, OthersStay, Zenon
  <2>2. /\ C[p] # None
        /\ p \in P \/ ValueRight(C[p], p, K)
        /\ \A c \in Children(p) : c \in P \/ (c \in C[p].names <=> There(K, c))
    BY <2>1, Zenon DEF Keeps, Follows, P
  <2>3. p \in R \/ ValueRight(D[p], p, K)
    BY <1>3, <1>5, <2>1, <2>2, Zenon DEF Keeps, ValueRight
  <2>4. ASSUME NEW c \in Children(p) PROVE c \in R \/ (c \in D[p].names <=> There(K, c))
    <3>1. CASE c = f.path
      <4>1. c # Root /\ ParentOf[c] = p /\ C[p] # None
        BY <2>1, Zenon DEF Children, Keeps
      <4>2. c \in R \/ (f.val # 0 <=> There(K, c))
        BY <1>1, <3>1, <4>1, Zenon DEF InfoRight, ExistsRight
      <4> QED BY <2>1, <3>1, <4>1, <4>2, Zenon DEF Keeps
    <3>2. CASE c # f.path
      BY <1>3, <2>1, <2>2, <3>2, Zenon DEF Keeps
    <3> QED BY <3>1, <3>2, Zenon
  <2> QED BY <2>3, <2>4, Zenon
<1> QED
  BY <1>4, <1>5, Zenon

(* Update has gone over all of a replay's files. *)
LEMMA UpdatedFollows ==
  ASSUME NEW B \in SUBSET Path, NEW S, StateOf(S, B), NEW F \in Seq(FileOf),
         NEW K, NEW X, AllRight(F, K, X),
         NEW p \in Path, p \notin X, \A i \in 0 .. Len(F) : ~Orphan(Updated(S, F)[i].cache, p),
         Follows(S.cache, K, Coming(F, 0), p)
  PROVE  Follows(Updated(S, F)[Len(F)].cache, K, {}, p)
<1> DEFINE U == Updated(S, F)
<1>0. Len(F) \in Nat /\ Len(F) <= Len(F)
  OBVIOUS
<1>1. U[0] = S
  <2>1. GoesThrough(U, S, F)
    BY <1>0, UpdatedSteps, Zenon
  <2> HIDE DEF U
  <2> QED BY <2>1, Zenon DEF GoesThrough
<1>2. /\ \A i \in 0 .. Len(F) : StateOf(U[i], B) /\ ~Orphan(U[i].cache, p)
      /\ \A i \in 1 .. Len(F) : CacheAfter(U[i], U[i - 1], F[i])
  BY UpdatedStates, Zenon
<1> HIDE DEF U
<1> DEFINE P == {i \in Nat : i <= Len(F) => Follows(U[i].cache, K, Coming(F, i), p)}
<1>3. 0 \in P
  BY <1>1, Zenon
<1>4. ASSUME NEW i \in Nat, i \in P PROVE i + 1 \in P
  <2> SUFFICES ASSUME i + 1 <= Len(F) PROVE Follows(U[i + 1].cache, K, Coming(F, i + 1), p)
    OBVIOUS
  <2>1. i <= Len(F) /\ i \in 0 .. Len(F) /\ i + 1 \in 1 .. Len(F) /\ (i + 1) - 1 = i
    BY <1>0
  <2>2. CacheOf(U[i].cache) /\ ~Orphan(U[i].cache, p)
    BY <1>2, <2>1, Zenon DEF StateOf
  <2>3. U[i + 1].cache = [q \in Path |-> EntryAfter(U[i].cache, F[i + 1], q)]
    BY <1>2, <2>1, Zenon DEF CacheAfter
  <2>4. Follows(U[i].cache, K, Coming(F, i), p)
    BY <1>4, <2>1, Zenon
  <2> QED BY <2>2, <2>3, <2>4, UpdateFollows, Zenon
<1> HIDE DEF P
<1>5. \A i \in Nat : i \in P
  BY <1>3, <1>4, Induction, Zenon
<1>6. Follows(U[Len(F)].cache, K, Coming(F, Len(F)), p)
  BY <1>0, <1>5, Zenon DEF P
<1> QED
  BY <1>0, <1>6, ComingEnds, Zenon DEF U

-----------------------------------------------------------------------------
(* Refresh's files are what is on disk; it has been at the first i. *)
FromDisk(f) == f.val = Disk(f.path).val /\ f.hash = Disk(f.path).hash /\ f.names = Disk(f.path).names
Passed(G, i) == {p \in Path : \E k \in 1 .. i : G[k].path = p}

(* Then, in cache C that was B before Refresh, an entry of these paths is  *)
(* what is on disk, and any other as it was but for names it lists rightly. *)
Refreshed(C, B, G, i, p) ==
  C[p] # None =>
    /\ p \in Passed(G, i) => Follows(C, disk, {}, p)
    /\ p \notin Passed(G, i) =>
         /\ B[p] # None /\ C[p].val = B[p].val /\ C[p].hash = B[p].hash
         /\ \A c \in Children(p) : \/ c \in C[p].names <=> c \in B[p].names
                                   \/ c \in C[p].names <=> There(disk, c)

(* One file of Refresh. *)
LEMMA RefreshStep ==
  ASSUME Tree(disk), NEW C, CacheOf(C), NEW B, NEW G \in Seq(FileOf),
         NEW i \in Nat, i + 1 <= Len(G), FromDisk(G[i + 1]),
         NEW p \in Path, ~Orphan(C, p), Refreshed(C, B, G, i, p),
         NEW D, D = [q \in Path |-> EntryAfter(C, G[i + 1], q)]
  PROVE  Refreshed(D, B, G, i + 1, p)
<1> DEFINE f == G[i + 1]
<1> SUFFICES ASSUME D[p] # None
             PROVE  /\ p \in Passed(G, i + 1) => Follows(D, disk, {}, p)
                    /\ p \notin Passed(G, i + 1) =>
                         /\ B[p] # None /\ D[p].val = B[p].val /\ D[p].hash = B[p].hash
                         /\ \A c \in Children(p) : \/ c \in D[p].names <=> c \in B[p].names
                                                   \/ c \in D[p].names <=> There(disk, c)
  BY Zenon DEF Refreshed
<1>0. Len(G) \in Nat /\ i + 1 \in 1 .. Len(G) /\ f \in FileOf
  OBVIOUS
<1>1. f.path \in Path
  BY <1>0, Zenon DEF FileOf
<1>2. D[p] = EntryAfter(C, f, p)
  BY Zenon
<1>3. Passed(G, i + 1) = Passed(G, i) \cup {f.path}
  <2>1. 1 .. i + 1 = (1 .. i) \cup {i + 1}
    OBVIOUS
  <2> QED BY <1>1, <2>1, Zenon DEF Passed
<1>4. /\ f.val = Disk(f.path).val /\ f.hash = Disk(f.path).hash
      /\ f.names = Disk(f.path).names
  BY Zenon DEF FromDisk
<1> HIDE DEF f
<1>5. f.val # 0 <=> There(disk, f.path)
  BY <1>4 DEF Disk, None, There, Exists
<1>6. CASE p = f.path
  <2>1. ~Discards(C, f)
    BY <1>6, Zenon DEF Discards
  <2>2. f.names # NoNames
    BY <1>4, Zenon DEF Disk, None, NoNames, Children
  <2>3. f.val # 0 /\ D[p] = [val |-> f.val, hash |-> f.hash, names |-> f.names]
    BY <1>2, <1>6, <2>1, <2>2, Zenon DEF EntryAfter, Merge
  <2>4. D[p].val = f.val /\ D[p].hash = f.hash /\ D[p].names = f.names
    BY <2>3
  <2>5. Disk(p) = [val |-> disk[p].val, hash |-> disk[p].hash,
                   names |-> {c \in Children(p) : Exists(c)}]
    BY <1>5, <1>6, <2>3, Zenon DEF Disk, There, Exists
  <2>6. Disk(p).val = disk[p].val /\ Disk(p).hash = disk[p].hash
    BY <2>5
  <2>7. ValueRight(D[p], p, disk)
    BY <1>4, <1>5, <1>6, <2>3, <2>4, <2>6, Zenon DEF ValueRight
  <2>8. \A c \in Children(p) : c \in D[p].names <=> There(disk, c)
    BY <1>4, <1>6, <2>4, DiskNames, Zenon
  <2> QED BY <1>3, <1>6, <2>7, <2>8, Zenon DEF Follows
<1>7. CASE p # f.path
  <2>1. Keeps(D[p], C[p], f, p)
    BY <1>2, <1>7, OthersStay, Zenon
  <2>2. C[p] # None /\ (p \in Passed(G, i + 1) <=> p \in Passed(G, i))
    BY <1>3, <1>7, <2>1, Zenon DEF Keeps
  <2>3. ASSUME p \in Passed(G, i) PROVE Follows(D, disk, {}, p)
    <3>1. /\ ValueRight(C[p], p, disk)
          /\ \A c \in Children(p) : c \in C[p].names <=> There(disk, c)
      BY <2>2, <2>3, Zenon DEF Refreshed, Follows
    <3>2. ValueRight(D[p], p, disk)
      BY <2>1, <3>1, Zenon DEF Keeps, ValueRight
    <3>3. \A c \in Children(p) : c \in D[p].names <=> There(disk, c)
      BY <1>5, <2>1, <2>2, <3>1, Zenon DEF Keeps
    <3> QED BY <3>2, <3>3, Zenon DEF Follows
  <2>4. ASSUME p \notin Passed(G, i)
        PROVE  /\ B[p] # None /\ D[p].val = B[p].val /\ D[p].hash = B[p].hash
               /\ \A c \in Children(p) : \/ c \in D[p].names <=> c \in B[p].names
                                         \/ c \in D[p].names <=> There(disk, c)
    <3>1. /\ B[p] # None /\ C[p].val = B[p].val /\ C[p].hash = B[p].hash
          /\ \A c \in Children(p) : \/ c \in C[p].names <=> c \in B[p].names
                                    \/ c \in C[p].names <=> There(disk, c)
      BY <2>2, <2>4, Zenon DEF Refreshed
    <3>2. ASSUME NEW c \in Children(p)
          PROVE  \/ c \in D[p].names <=> c \in B[p].names
                 \/ c \in D[p].names <=> There(disk, c)
      <4>1. CASE c = f.path
        BY <1>5, <2>1, <2>2, <4>1, Zenon DEF Keeps
      <4>2. CASE c # f.path
        <5>1. c \in D[p].names <=> c \in C[p].names
          BY <2>1, <4>2, Zenon DEF Keeps
        <5> QED BY <3>1, <5>1, Zenon
      <4> QED BY <4>1, <4>2, Zenon
    <3> QED BY <2>1, <3>1, <3>2, Zenon DEF Keeps
  <2> QED BY <2>2, <2>3, <2>4, Zenon
<1> QED
  BY <1>6, <1>7, Zenon

(* All files of Refresh. *)
LEMMA RefreshedAll ==
  ASSUME Tree(disk), NEW B \in SUBSET Path, NEW S, StateOf(S, B), NEW G \in Seq(FileOf),
         \A i \in 1 .. Len(G) : FromDisk(G[i]),
         NEW p \in Path, \A i \in 0 .. Len(G) : ~Orphan(Updated(S, G)[i].cache, p)
  PROVE  Refreshed(Updated(S, G)[Len(G)].cache, S.cache, G, Len(G), p)
<1> DEFINE U == Updated(S, G)
<1>0. Len(G) \in Nat /\ Len(G) <= Len(G)
  OBVIOUS
<1>1. U[0] = S
  <2>1. GoesThrough(U, S, G)
    BY <1>0, UpdatedSteps, Zenon
  <2> HIDE DEF U
  <2> QED BY <2>1, Zenon DEF GoesThrough
<1>2. /\ \A i \in 0 .. Len(G) : StateOf(U[i], B) /\ ~Orphan(U[i].cache, p)
      /\ \A i \in 1 .. Len(G) : CacheAfter(U[i], U[i - 1], G[i])
  BY UpdatedStates, Zenon
<1> HIDE DEF U
<1> DEFINE P == {i \in Nat : i <= Len(G) => Refreshed(U[i].cache, S.cache, G, i, p)}
<1>3. 0 \in P
  <2>1. Passed(G, 0) = {}
    BY DEF Passed
  <2>2. Refreshed(S.cache, S.cache, G, 0, p)
    BY <2>1, Zenon DEF Refreshed
  <2> QED BY <1>1, <2>2, Zenon
<1>4. ASSUME NEW i \in Nat, i \in P PROVE i + 1 \in P
  <2> SUFFICES ASSUME i + 1 <= Len(G) PROVE Refreshed(U[i + 1].cache, S.cache, G, i + 1, p)
    OBVIOUS
  <2>1. i <= Len(G) /\ i \in 0 .. Len(G) /\ i + 1 \in 1 .. Len(G) /\ (i + 1) - 1 = i
    BY <1>0
  <2>2. CacheOf(U[i].cache) /\ ~Orphan(U[i].cache, p) /\ FromDisk(G[i + 1])
    BY <1>2, <2>1, Zenon DEF StateOf
  <2>3. U[i + 1].cache = [q \in Path |-> EntryAfter(U[i].cache, G[i + 1], q)]
    BY <1>2, <2>1, Zenon DEF CacheAfter
  <2>4. Refreshed(U[i].cache, S.cache, G, i, p)
    BY <1>4, <2>1, Zenon
  <2> QED BY <2>2, <2>3, <2>4, RefreshStep, Zenon
<1> HIDE DEF P
<1>5. \A i \in Nat : i \in P
  BY <1>3, <1>4, Induction, Zenon
<1> QED
  BY <1>0, <1>5, Zenon DEF P, U

(* Sequences that list the members of a set, backwards and one after the   *)
(* other.                                                                  *)
LEMMA ListsReversed ==
  ASSUME NEW T, NEW s, Lists(s, T)
  PROVE  Lists([i \in 1 .. Len(s) |-> s[Len(s) - i + 1]], T)
<1> DEFINE b == [i \in 1 .. Len(s) |-> s[Len(s) - i + 1]]
<1>1. s \in Seq(T) /\ Len(s) \in Nat
  BY DEF Lists
<1>2. b \in Seq(T) /\ Len(b) = Len(s)
  BY <1>1
<1>3. ASSUME NEW p \in T PROVE \E i \in 1 .. Len(b) : b[i] = p
  <2>1. PICK k \in 1 .. Len(s) : s[k] = p
    BY Zenon DEF Lists
  <2>2. Len(s) - k + 1 \in 1 .. Len(s) /\ b[Len(s) - k + 1] = s[k]
    BY <1>1
  <2> QED BY <1>2, <2>1, <2>2, Zenon
<1> HIDE DEF b
<1>4. Lists(b, T)
  BY <1>2, <1>3, Zenon DEF Lists
<1> QED
  BY <1>4, Zenon DEF b

(* Two lists make a list of both sets. *)
LEMMA ListsJoined ==
  ASSUME NEW T, NEW s, Lists(s, T), NEW V, NEW v, Lists(v, V)
  PROVE  Lists(s \o v, T \cup V)
<1> DEFINE w == s \o v
<1>1. s \in Seq(T) /\ Len(s) \in Nat /\ v \in Seq(V) /\ Len(v) \in Nat
  BY DEF Lists
<1>2. /\ w \in Seq(T \cup V) /\ Len(w) = Len(s) + Len(v)
      /\ \A i \in 1 .. Len(w) : w[i] = IF i <= Len(s) THEN s[i] ELSE v[i - Len(s)]
  BY <1>1
<1> HIDE DEF w
<1>3. ASSUME NEW p \in T \cup V PROVE \E i \in 1 .. Len(w) : w[i] = p
  <2>1. CASE p \in T
    <3>1. PICK k \in 1 .. Len(s) : s[k] = p
      BY <2>1, Zenon DEF Lists
    <3>2. k \in 1 .. Len(w) /\ w[k] = s[k]
      BY <1>1, <1>2
    <3> QED BY <3>1, <3>2, Zenon
  <2>2. CASE p \in V
    <3>1. PICK k \in 1 .. Len(v) : v[k] = p
      BY <2>2, Zenon DEF Lists
    <3> DEFINE m == Len(s) + k
    <3>2. m \in 1 .. Len(w) /\ ~(m <= Len(s)) /\ m - Len(s) = k
      BY <1>1, <1>2
    <3> HIDE DEF m
    <3>3. w[m] = v[k]
      BY <1>2, <3>2, Zenon
    <3> QED BY <3>1, <3>2, <3>3, Zenon
  <2> QED BY <2>1, <2>2, Zenon
<1>4. Lists(w, T \cup V)
  BY <1>2, <1>3, Zenon DEF Lists
<1> QED
  BY <1>4, Zenon DEF w

(* Refresh goes over the paths that changed. *)
LEMMA RefreshLists ==
  Lists(Deletions \o Changes, {p \in Path : Changed(p)})
<1> DEFINE T == {p \in Path : Changed(p) /\ ~Exists(p)}
           V == {p \in Path : Changed(p) /\ Exists(p)}
<1>1. Lists(Ascending(T), T) /\ Lists(Ascending(V), V)
  BY AscendingLists, Zenon
<1>2. Lists(Deletions, T)
  BY <1>1, ListsReversed, Zenon DEF Deletions
<1>3. Lists(Changes, V)
  BY <1>1, Zenon DEF Changes
<1>4. T \cup V = {p \in Path : Changed(p)}
  BY Zenon
<1>5. Lists(Deletions \o Changes, T \cup V)
  BY <1>2, <1>3, ListsJoined, Zenon
<1> QED
  BY <1>4, <1>5, Zenon

-----------------------------------------------------------------------------
(* Nothing is cached, fetched or replayed to begin with. *)
LEMMA InitInv == Init => Inv
<1> SUFFICES ASSUME Init PROVE Inv
  BY Zenon
<1>1. /\ Root \in Path /\ None \in Entry /\ \A p \in Path : None \in EntryOf(p)
      /\ cache = [p \in Path |-> None] /\ busy = {}
      /\ pc = [r \in Reader |-> "idle"]
      /\ target = [r \in Reader |-> Root] /\ level = [r \in Reader |-> Root]
      /\ got = [r \in Reader |-> None]
  BY TreeAssumption, Zenon DEF Init, Empty, Path, None, Entry, EntryOf, Hashes
<1>2. DiskTypes
  <2>1. disk \in [Path -> [val : 0 .. 1, hash : Hashes]] /\ clock = [p \in Path |-> disk[p].val]
    BY Zenon DEF Init
  <2> QED BY <2>1 DEF DiskTypes
<1>3. CacheTypes
  BY <1>1, Zenon DEF Init, CacheTypes, CacheOf
<1>4. GetTypes
  BY <1>1, Zenon DEF GetTypes, States
<1>5. done = [j \in Replay |-> <<>>] /\ job = [j \in Replay |-> "idle"] /\ stale = {}
  BY Zenon DEF Init
<1>6. ReplayTypes
  BY DEF Init, ReplayTypes, JobStates
<1>7. Lookups
  BY <1>1, Zenon DEF Lookups
<1>8. Tree(disk)
  BY Zenon DEF Init, Tree, There, Exists
<1>9. OneReplay /\ DoneRight
  <2>1. \A j \in Replay : done[j] = <<>> /\ ~Active(job[j])
    BY <1>5, Zenon DEF Active
  <2>2. AllRight(<<>>, disk, disturbed)
    BY DEF AllRight
  <2> QED BY <2>1, <2>2, Zenon DEF OneReplay, DoneRight
<1>10. Followed
  BY <1>1, Zenon DEF Followed, Follows
<1> QED
  BY <1>2, <1>3, <1>4, <1>6, <1>7, <1>8, <1>9, <1>10, Zenon DEF Inv, Types, Following

(* A step that neither stores nor writes leaves what replays rely on. *)
LEMMA FollowingStays ==
  ASSUME Following, UNCHANGED <<disk, cache, stale, disturbed, done>>,
         \A j \in Replay : Active(job'[j]) <=> Active(job[j])
  PROVE  Following'
<1>1. /\ disk' = disk /\ cache' = cache /\ stale' = stale /\ disturbed' = disturbed
      /\ done' = done
  BY Zenon
<1>2. OneReplay' /\ DoneRight' /\ Tree(disk')
  BY <1>1, Zenon DEF Following, OneReplay, DoneRight
<1>3. Pending' = Pending
  BY <1>1, Zenon DEF Pending
<1>4. Followed'
  BY <1>1, <1>3, Zenon DEF Following, Followed
<1> QED
  BY <1>2, <1>4, Zenon DEF Following

(* The disk keeps its type when nothing is written. *)
LEMMA DiskTypesStay ==
  ASSUME Types, UNCHANGED diskVars
  PROVE  DiskTypes'
  BY Zenon DEF Types, DiskTypes, diskVars

(* The replays keep their types in steps of lookups. *)
LEMMA ReplayTypesStay ==
  ASSUME Types, UNCHANGED replayVars
  PROVE  ReplayTypes'
<1>1. /\ job' = job /\ fset' = fset /\ at' = at /\ haveHashes' = haveHashes
      /\ newFiles' = newFiles /\ done' = done
  BY Zenon DEF replayVars, prepareVars
<1> QED
  BY <1>1, Zenon DEF Types, ReplayTypes

(* localGet reads only. *)
LEMMA LocalGetInv ==
  ASSUME Inv, NEW r \in Reader, NEW t \in Path, localGet(r, t),
         UNCHANGED <<diskVars, replayVars, historyVars>>
  PROVE  Inv'
<1>1. PICK x \in {"done", "lock"} :
        /\ pc[r] = "idle" /\ pc' = [pc EXCEPT ![r] = x]
        /\ target' = [target EXCEPT ![r] = t] /\ got' = [got EXCEPT ![r] = cache[t]]
  BY Zenon DEF localGet
<1>2. /\ level' = level /\ cache' = cache /\ busy' = busy /\ stale' = stale
      /\ disturbed' = disturbed /\ disk' = disk /\ job' = job /\ done' = done
  BY Zenon DEF localGet, diskVars, replayVars, historyVars
<1>3. DiskTypes' /\ ReplayTypes' /\ CacheTypes'
  <2>1. Types
    BY Zenon DEF Inv
  <2>2. CacheTypes'
    BY <1>2, <2>1, Zenon DEF Types, CacheTypes
  <2> QED BY <2>1, <2>2, DiskTypesStay, ReplayTypesStay, Zenon
<1>4. GetTypes
  BY Zenon DEF Inv, Types
<1>5. GetTypes'
  <2>1. cache[t] \in Entry
    BY Zenon DEF Inv, Types, CacheTypes, CacheOf
  <2>2. pc' \in [Reader -> States] /\ target' \in [Reader -> Path] /\ got' \in [Reader -> Entry]
    BY <1>1, <1>4, <2>1, Zenon DEF GetTypes, States
  <2>3. \A s \in Reader : pc'[s] = "fill" => pc[s] = "fill" /\ got'[s] = got[s]
    BY <1>1, <1>4 DEF GetTypes
  <2> QED BY <1>2, <1>4, <2>1, <2>2, <2>3, Zenon DEF GetTypes
<1>6. Lookups'
  <2>1. \A s \in Reader : /\ pc'[s] = "wait" => pc[s] = "wait"
                          /\ pc[s] \in {"getter", "fill"} => pc'[s] = pc[s]
    BY <1>1, <1>4 DEF GetTypes
  <2>2. \A q \in busy : cache[q] = None /\ Fetched(q)'
    BY <1>2, <2>1, Zenon DEF Inv, Lookups, Fetched
  <2> QED BY <1>2, <2>1, <2>2, Zenon DEF Inv, Lookups
<1>7. Following'
  BY <1>2, FollowingStays, Zenon DEF Inv
<1> QED
  BY <1>3, <1>5, <1>6, <1>7, Zenon DEF Inv, Types

Elsewhere == UNCHANGED <<diskVars, replayVars, disturbed>>

(* unsafeGet leaves at q with cache C, paths B that others than r fetch    *)
(* and lookups W: it waits for one of those, or fetches a path itself.     *)
Others(r, C, B, W) ==
  /\ \A s \in Reader \ {r} : W[s] = "fill" => pc[s] = "fill"
  /\ \A s \in Reader \ {r} : W[s] = "wait" => level[s] \in B
  /\ \A q \in B : /\ C[q] = None
                  /\ \E s \in Reader \ {r} : W[s] \in {"getter", "fill"} /\ level[s] = q

NextFetched(q) == \E s \in Reader : pc'[s] \in {"getter", "fill"} /\ level'[s] = q

(* A lookup that goes on from p, with cache C and busy paths B, leaves all *)
(* lookups with somebody who fetches for them.                             *)
LEMMA WalkGets ==
  ASSUME NEW r \in Reader, NEW p \in Path, NEW C, CacheOf(C), NEW B \in SUBSET Path,
         NEW W \in [Reader -> States], GetTypes, Others(r, C, B, W), Walk(r, p, C, B, W),
         cache' = C, target' = target
  PROVE  GetTypes' /\ Lookups' /\ busy' \in SUBSET Path
<1> DEFINE q == StopAt(C, target[r], p)
           finds == C[q] # None
           x == IF finds THEN "done" ELSE IF q \in B THEN "wait" ELSE "getter"
           v == IF q = target[r] THEN C[q] ELSE None
           m == IF finds THEN Root ELSE q
<1>1. /\ level' = [level EXCEPT ![r] = m]
      /\ pc' = [W EXCEPT ![r] = x]
      /\ busy' = IF finds THEN B ELSE B \cup {q}
      /\ got' = [got EXCEPT ![r] = v]
  BY Zenon DEF Walk
<1>2. target[r] \in Path
  BY Zenon DEF GetTypes
<1>3. q \in Path
  BY <1>2, StopIsPath, Zenon
<1> HIDE DEF q
<1>4. v \in Entry
  <2>1. C[q] \in Entry
    BY <1>3, Zenon DEF CacheOf
  <2>2. None \in Entry
    BY Zenon DEF Entry, None, Hashes
  <2> QED BY <2>1, <2>2, Zenon
<1>5. x \in States /\ x # "fill" /\ m \in Path
  BY <1>3, TreeAssumption, Zenon DEF States, Path
<1> HIDE DEF finds
<1>6. busy' \in SUBSET Path
  BY <1>1, <1>3, Zenon
<1>7. /\ level \in [Reader -> Path] /\ got \in [Reader -> Entry] /\ target \in [Reader -> Path]
      /\ \A s \in Reader : pc[s] = "fill" => got[s] \in EntryOf(level[s])
  BY Zenon DEF GetTypes
<1>8. GetTypes'
  <2> HIDE DEF x, v, m
  <2>1. pc' \in [Reader -> States] /\ level' \in [Reader -> Path] /\ got' \in [Reader -> Entry]
    BY <1>1, <1>4, <1>5, <1>7, Zenon
  <2>2. ASSUME NEW s \in Reader, pc'[s] = "fill" PROVE got'[s] \in EntryOf(level'[s])
    <3>1. s # r
      BY <1>1, <1>5, <2>2, Zenon
    <3>2. got'[s] = got[s] /\ level'[s] = level[s] /\ W[s] = "fill"
      BY <1>1, <1>7, <2>2, <3>1, Zenon
    <3> QED BY <1>7, <3>1, <3>2, Zenon DEF Others
  <2> QED BY <1>4, <1>7, <2>1, <2>2, Zenon DEF GetTypes
<1>9. \A s \in Reader \ {r} : pc'[s] = W[s] /\ level'[s] = level[s]
  BY <1>1, <1>7, Zenon
<1>10. pc'[r] = x /\ level'[r] = m
  BY <1>1, <1>7, Zenon
<1>11. \A b \in B : C[b] = None /\ NextFetched(b)
  BY <1>9, Zenon DEF Others, NextFetched
<1>12. ASSUME ~finds PROVE C[q] = None /\ NextFetched(q)
  <2>1. C[q] = None
    BY <1>12, Zenon DEF finds
  <2>2. ASSUME q \notin B PROVE NextFetched(q)
    <3>1. pc'[r] = "getter" /\ level'[r] = q
      BY <1>10, <1>12, <2>2, Zenon
    <3> QED BY <3>1, Zenon DEF NextFetched
  <2> QED BY <1>11, <2>1, <2>2, Zenon
<1>13. (finds => busy' = B) /\ (~finds => busy' = B \cup {q})
  <2> HIDE DEF x, v, m
  <2> QED BY <1>1, Zenon
<1>14. \A b \in busy' : C[b] = None /\ NextFetched(b)
  BY <1>11, <1>12, <1>13, Zenon
<1>15. ASSUME NEW s \in Reader, pc'[s] = "wait" PROVE level'[s] \in busy'
  <2>1. CASE s = r
    <3>1. ~finds
      BY <1>10, <1>15, <2>1
    <3>2. level'[s] = q
      BY <1>10, <2>1, <3>1, Zenon
    <3> QED BY <1>13, <3>1, <3>2, Zenon
  <2>2. CASE s # r
    <3>1. level'[s] \in B
      BY <1>9, <1>15, <2>2, Zenon DEF Others
    <3> QED BY <1>13, <3>1, Zenon
  <2> QED BY <2>1, <2>2, Zenon
<1> HIDE DEF x, v, m
<1>16. Lookups'
  BY <1>14, <1>15, Zenon DEF Lookups, Fetched, NextFetched
<1> QED
  BY <1>6, <1>8, <1>16, Zenon

(* The lookup takes the mutex and goes on. *)
LEMMA UnsafeGetInv ==
  ASSUME Inv, NEW r \in Reader, unsafeGet(r), Elsewhere, stale' = stale
  PROVE  Inv'
<1> DEFINE p == IF pc[r] = "lock" THEN Root ELSE level[r]
<1>1. /\ pc[r] \in {"lock", "woken"} /\ Walk(r, p, cache, busy, pc)
      /\ target' = target /\ cache' = cache /\ disturbed' = disturbed
      /\ disk' = disk /\ job' = job /\ done' = done
      /\ UNCHANGED diskVars /\ UNCHANGED replayVars
  BY Zenon DEF unsafeGet, Elsewhere, diskVars, replayVars
<1>2. Types /\ Lookups /\ GetTypes
  BY Zenon DEF Inv, Types
<1>3. pc \in [Reader -> States] /\ p \in Path /\ CacheOf(cache) /\ busy \in SUBSET Path
  BY <1>2, TreeAssumption, Zenon DEF Types, CacheTypes, GetTypes, Path
<1>4. Others(r, cache, busy, pc)
  <2>1. \A s \in Reader : pc[s] \in {"getter", "fill"} => s # r
    BY <1>1, Zenon
  <2> QED BY <1>2, <2>1, Zenon DEF Others, Lookups, Fetched
<1> HIDE DEF p
<1>5. GetTypes' /\ Lookups' /\ busy' \in SUBSET Path
  BY <1>1, <1>2, <1>3, <1>4, WalkGets, Zenon
<1>6. DiskTypes' /\ ReplayTypes'
  BY <1>1, <1>2, DiskTypesStay, ReplayTypesStay, Zenon
<1>7. CacheTypes'
  BY <1>1, <1>2, <1>5, Zenon DEF Types, CacheTypes
<1>8. Following'
  BY <1>1, FollowingStays, Zenon DEF Inv
<1> QED
  BY <1>5, <1>6, <1>7, <1>8, Zenon DEF Inv, Types

(* What the getter reads is an entry, and right. *)
LEMMA DiskEntry ==
  ASSUME DiskTypes, NEW p \in Path
  PROVE  Disk(p) \in EntryOf(p) /\ Disk(p) \in Entry
<1>1. disk[p] \in [val : Nat, hash : Hashes]
  BY Zenon DEF DiskTypes
<1>2. {c \in Children(p) : Exists(c)} \in SUBSET Children(p) /\ Children(p) \subseteq Path
  BY Zenon DEF Children
<1>3. CASE ~Exists(p)
  <2>1. Disk(p) = None
    BY <1>3, Zenon DEF Disk
  <2> QED BY <2>1 DEF EntryOf, Entry, None, Hashes
<1>4. CASE Exists(p)
  <2> DEFINE names == {c \in Children(p) : Exists(c)}
  <2>1. Disk(p) = [val |-> disk[p].val, hash |-> disk[p].hash, names |-> names]
    BY <1>4, Zenon DEF Disk
  <2>2. names \in SUBSET Children(p) /\ names \in SUBSET Path
    BY <1>2, Zenon
  <2> HIDE DEF names
  <2> QED BY <1>1, <1>4, <2>1, <2>2 DEF EntryOf, Entry, Exists
<1> QED
  BY <1>3, <1>4, Zenon

(* The getter reads the disk, for a path nobody else fetches. *)
LEMMA GetterInv ==
  ASSUME Inv, NEW r \in Reader, getter(r), Elsewhere
  PROVE  Inv'
<1> DEFINE v == Disk(level[r])
<1>1. /\ pc[r] = "getter" /\ got' = [got EXCEPT ![r] = v] /\ pc' = [pc EXCEPT ![r] = "fill"]
      /\ target' = target /\ level' = level /\ cache' = cache /\ busy' = busy /\ stale' = stale
      /\ disturbed' = disturbed /\ disk' = disk /\ job' = job /\ done' = done
      /\ UNCHANGED diskVars /\ UNCHANGED replayVars
  BY Zenon DEF getter, Elsewhere, diskVars, replayVars
<1>2. Types /\ Lookups /\ GetTypes
  BY Zenon DEF Inv, Types
<1>3. v \in EntryOf(level[r]) /\ v \in Entry
  <2>1. level[r] \in Path /\ DiskTypes
    BY <1>2, Zenon DEF GetTypes, Types
  <2> QED BY <2>1, DiskEntry, Zenon
<1> HIDE DEF v
<1>4. GetTypes'
  <2>2. pc' \in [Reader -> States] /\ got' \in [Reader -> Entry]
    BY <1>1, <1>2, <1>3, Zenon DEF GetTypes, States
  <2>3. \A s \in Reader :
          pc'[s] = "fill" => (s = r /\ got'[s] = v) \/ (pc[s] = "fill" /\ got'[s] = got[s])
    BY <1>1, <1>2, Zenon DEF GetTypes
  <2> QED BY <1>1, <1>2, <1>3, <2>2, <2>3, Zenon DEF GetTypes
<1>5. Lookups'
  <2>1. \A s \in Reader : /\ pc'[s] = "wait" => pc[s] = "wait"
                          /\ pc[s] \in {"getter", "fill"} => pc'[s] \in {"getter", "fill"}
    BY <1>1, <1>2, Zenon DEF GetTypes
  <2>2. \A q \in busy : cache[q] = None /\ Fetched(q)'
    BY <1>1, <1>2, <2>1, Zenon DEF Lookups, Fetched
  <2> QED BY <1>1, <1>2, <2>1, <2>2, Zenon DEF Lookups
<1>6. DiskTypes' /\ ReplayTypes'
  BY <1>1, <1>2, DiskTypesStay, ReplayTypesStay, Zenon
<1>7. CacheTypes'
  BY <1>1, <1>2, Zenon DEF Types, CacheTypes
<1>8. Following'
  BY <1>1, FollowingStays, Zenon DEF Inv
<1> QED
  BY <1>4, <1>5, <1>6, <1>7, <1>8, Zenon DEF Inv, Types

(* Right, for an entry, is to follow the disk in everything. *)
LEMMA RightFollows ==
  ASSUME Tree(disk), NEW C, CacheOf(C), NEW p \in Path
  PROVE  C[p] # None => (Right(C[p], p) <=> Follows(C, disk, {}, p))
<1> SUFFICES ASSUME C[p] # None PROVE Right(C[p], p) <=> Follows(C, disk, {}, p)
  BY Zenon
<1>1. CASE p \in Files
  <2>1. Children(p) = {}
    BY <1>1, TreeAssumption, Zenon DEF Children, Path
  <2> QED BY <1>1, <2>1, Zenon DEF Right, Follows, ValueRight
<1>2. CASE p \notin Files
  <2>1. C[p].names \subseteq Children(p)
    BY Zenon DEF CacheOf, EntryOf
  <2>2. Exists(p) <=> There(disk, p)
    BY Zenon DEF Exists, There
  <2>3. ASSUME Exists(p)
        PROVE  C[p].names = Disk(p).names
                 <=> \A c \in Children(p) : c \in C[p].names <=> There(disk, c)
    <3>1. Disk(p).names \subseteq Children(p)
      BY <2>3, Zenon DEF Disk
    <3>2. \A c \in Children(p) : c \in Disk(p).names <=> There(disk, c)
      BY DiskNames, Zenon
    <3> QED BY <2>1, <3>1, <3>2, Zenon
  <2> QED BY <1>2, <2>2, <2>3, Zenon DEF Right, Follows, ValueRight
<1> QED
  BY <1>1, <1>2, Zenon

(* A value that is stored is right, or its path is in stale. *)
LEMMA StoreFollows ==
  ASSUME Inv, NEW q \in Path, NEW v, v # None, cache' = [cache EXCEPT ![q] = v], CacheOf(cache'),
         stale' = IF Right(v, q) /\ ~Orphan(cache', q) THEN stale \ {q} ELSE stale \cup {q},
         disk' = disk, disturbed' = disturbed, job' = job, done' = done
  PROVE  Following'
<1>1. Following /\ Tree(disk) /\ Followed /\ cache \in [Path -> Entry]
  BY Zenon DEF Inv, Types, CacheTypes, CacheOf, Following
<1>2. OneReplay' /\ DoneRight' /\ Tree(disk')
  BY <1>1, Zenon DEF Following, OneReplay, DoneRight
<1>3. Pending' = Pending
  BY Zenon DEF Pending
<1>4. cache'[q] = v /\ \A p \in Path : p # q => cache'[p] = cache[p]
  BY <1>1, Zenon
<1> DEFINE C == cache'
<1>5. CacheOf(C) /\ C[q] = v /\ C[q] # None /\ \A p \in Path : p # q => C[p] = cache[p]
  BY <1>4, Zenon
<1> HIDE DEF C
<1>6. ASSUME NEW p \in Path \ stale'
      PROVE  Follows(C, disk, Pending, p) /\ (C[p] # None => ~Orphan(C, p))
  <2>1. CASE p = q
    <3>1. Right(C[q], q) /\ ~Orphan(C, q)
      BY <1>5, <2>1, Zenon DEF C
    <3>2. Follows(C, disk, {}, q)
      BY <1>1, <1>5, <3>1, RightFollows, Zenon
    <3> QED BY <2>1, <3>1, <3>2, Zenon DEF Follows
  <2>2. CASE p # q
    <3>1. p \notin stale /\ C[p] = cache[p]
      BY <1>5, <1>6, <2>2, Zenon
    <3>2. Follows(cache, disk, Pending, p) /\ (cache[p] # None => ~Orphan(cache, p))
      BY <1>1, <3>1, Zenon DEF Followed
    <3>3. cache[p] # None => ~Orphan(C, p)
      BY <1>5, <3>2, ParentDiffers, Zenon DEF Orphan
    <3> QED BY <3>1, <3>2, <3>3, Zenon DEF Follows
  <2> QED BY <2>1, <2>2, Zenon
<1>7. Followed'
  BY <1>3, <1>6, Zenon DEF Followed, C
<1> QED
  BY <1>2, <1>7, Zenon DEF Following

(* Once r has stored q, the lookups that waited are awake and the paths    *)
(* still marked have others to fetch them.                                 *)
LEMMA StoreOthers ==
  ASSUME Inv, NEW r \in Reader, NEW C, \A q \in Path : q # level[r] => C[q] = cache[q]
  PROVE  Others(r, C, busy \ {level[r]}, Woken)
<1>1. pc \in [Reader -> States] /\ Lookups /\ busy \in SUBSET Path
  BY Zenon DEF Inv, Types, GetTypes, CacheTypes
<1>2. \A s \in Reader : /\ Woken[s] # "wait" /\ (Woken[s] = "fill" => pc[s] = "fill")
                        /\ pc[s] \in {"getter", "fill"} => Woken[s] = pc[s]
  BY <1>1, Zenon DEF Woken
<1>3. ASSUME NEW q \in busy \ {level[r]}
      PROVE  /\ C[q] = None
             /\ \E s \in Reader \ {r} : Woken[s] \in {"getter", "fill"} /\ level[s] = q
  <2>1. cache[q] = None /\ Fetched(q)
    BY <1>1, Zenon DEF Lookups
  <2>2. PICK s \in Reader : pc[s] \in {"getter", "fill"} /\ level[s] = q
    BY <2>1, Zenon DEF Fetched
  <2>3. s # r /\ Woken[s] \in {"getter", "fill"}
    BY <1>2, <2>2, Zenon
  <2> QED BY <1>1, <2>1, <2>2, <2>3, Zenon
<1> QED
  BY <1>2, <1>3, Zenon DEF Others

(* The fetched value is stored and the lookup goes on; the entry follows   *)
(* the disk unless it is marked as stale.                                  *)
LEMMA FillInv ==
  ASSUME Inv, NEW r \in Reader, Fill(r), Elsewhere
  PROVE  Inv'
<1> DEFINE q == level[r]
           v == got[r]
<1>1. /\ pc[r] = "fill" /\ cache' = Stored(q, v)
      /\ target' = target /\ disk' = disk /\ job' = job /\ done' = done
      /\ disturbed' = disturbed /\ UNCHANGED diskVars /\ UNCHANGED replayVars
  BY Zenon DEF Fill, store, Elsewhere, diskVars, replayVars
<1>2. Types /\ GetTypes /\ CacheOf(cache) /\ disturbed \in SUBSET Path
  BY Zenon DEF Inv, Types, DiskTypes, CacheTypes
<1>3. q \in Path /\ v \in EntryOf(q) /\ v \in Entry
  BY <1>1, <1>2, Zenon DEF GetTypes
<1>4. Woken \in [Reader -> States]
  BY <1>2, Zenon DEF Woken, GetTypes, States
<1>5. DiskTypes' /\ ReplayTypes'
  BY <1>1, <1>2, DiskTypesStay, ReplayTypesStay, Zenon
<1>6. busy \in SUBSET Path /\ stale \in SUBSET Path /\ busy \ {q} \in SUBSET Path
  BY <1>2, Zenon DEF Types, CacheTypes
<1>7. CASE v = None
  <2>1. /\ cache' = cache /\ stale' = stale /\ busy' = busy \ {q}
        /\ pc' = [Woken EXCEPT ![r] = "done"]
        /\ level' = [level EXCEPT ![r] = Root]
        /\ got' = [got EXCEPT ![r] = None]
    BY <1>1, <1>7, Zenon DEF Fill, store, Stored
  <2>2. CacheTypes'
    BY <1>1, <1>2, <1>6, <2>1, Zenon DEF CacheTypes
  <2>3. Root \in Path
    BY TreeAssumption, Zenon DEF Path
  <2>4. Others(r, cache, busy \ {q}, Woken)
    BY StoreOthers, Zenon
  <2>5. \A s \in Reader \ {r} : pc'[s] = Woken[s] /\ level'[s] = level[s] /\ got'[s] = got[s]
    BY <1>2, <1>4, <2>1, Zenon DEF GetTypes
  <2>6. pc'[r] = "done"
    BY <1>4, <2>1, Zenon
  <2>7. GetTypes'
    <3>1. pc' \in [Reader -> States]
      BY <1>4, <2>1, Zenon DEF States
    <3>2. level' \in [Reader -> Path] /\ got' \in [Reader -> Entry]
      BY <1>2, <1>3, <1>7, <2>1, <2>3, Zenon DEF GetTypes
    <3>3. \A s \in Reader : pc'[s] = "fill" => s # r /\ pc[s] = "fill"
      BY <2>4, <2>5, <2>6 DEF Others
    <3> QED BY <1>1, <1>2, <2>3, <2>5, <3>1, <3>2, <3>3, Zenon DEF GetTypes
  <2>8. Lookups'
    <3> DEFINE B == busy \ {q}
    <3>1. Others(r, cache, B, Woken) /\ busy' = B
      BY <2>1, <2>4, Zenon
    <3> HIDE DEF B
    <3>2. \A s \in Reader : pc'[s] = "wait" => s # r
      BY <2>6, Zenon
    <3>3. \A b \in B : cache[b] = None /\ NextFetched(b)
      BY <2>5, <3>1, Zenon DEF Others, NextFetched
    <3>4. \A s \in Reader : pc'[s] = "wait" => level'[s] \in B
      BY <2>5, <3>1, <3>2, Zenon DEF Others
    <3> QED BY <2>1, <3>1, <3>3, <3>4, Zenon DEF Lookups, Fetched, NextFetched
  <2>9. Following'
    BY <1>1, <2>1, FollowingStays, Zenon DEF Inv
  <2> QED BY <1>5, <2>2, <2>7, <2>8, <2>9, Zenon DEF Inv, Types
<1>8. CASE v # None
  <2> DEFINE C == [cache EXCEPT ![q] = v]
  <2>1. cache' = C
    BY <1>1, <1>8, Zenon DEF Stored
  <2>2. Walk(r, q, cache', busy \ {q}, Woken)
    BY <1>8, Zenon DEF Fill, store
  <2>3. stale' = IF Right(v, q) /\ ~Orphan(cache', q) THEN stale \ {q} ELSE stale \cup {q}
    BY <1>8, Zenon DEF Fill
  <2>4. CacheOf(C) /\ \A p \in Path : p # q => C[p] = cache[p]
    <3>1. C \in [Path -> Entry]
      BY <1>2, <1>3, Zenon DEF CacheOf, Entry
    <3>2. \A p \in Path : C[p] = IF p = q THEN v ELSE cache[p]
      BY <1>2, Zenon DEF CacheOf
    <3> HIDE DEF C
    <3> QED BY <1>2, <1>3, <3>1, <3>2, Zenon DEF CacheOf
  <2> HIDE DEF C
  <2>5. Others(r, C, busy \ {q}, Woken)
    BY <2>4, StoreOthers, Zenon
  <2>6. GetTypes' /\ Lookups' /\ busy' \in SUBSET Path
    BY <1>1, <1>2, <1>3, <1>4, <1>6, <2>1, <2>2, <2>4, <2>5, WalkGets, Zenon
  <2>7. CacheTypes'
    BY <1>1, <1>2, <1>3, <1>6, <2>1, <2>3, <2>4, <2>6, Zenon DEF CacheTypes
  <2>8. Following'
    <3>1. cache' = [cache EXCEPT ![q] = v] /\ CacheOf(cache')
      BY <2>1, <2>4, Zenon DEF C
    <3> HIDE DEF q, v
    <3> QED BY <1>1, <1>3, <1>8, <2>3, <3>1, StoreFollows, Zenon
  <2> QED BY <1>5, <2>6, <2>7, <2>8, Zenon DEF Inv, Types
<1> QED
  BY <1>7, <1>8, Zenon

-----------------------------------------------------------------------------
(* The state that an update begins with. *)
LEMMA HereState ==
  ASSUME Inv
  PROVE  StateOf(Here, busy) /\ Here.cache = cache /\ busy \in SUBSET Path
<1>1. Here.cache = cache /\ Here.busy = busy
  BY Zenon DEF Here
<1>2. Here = [cache |-> Here.cache, busy |-> Here.busy]
  BY <1>1, Zenon DEF Here
<1>3. CacheOf(cache) /\ busy \in SUBSET Path
  BY Zenon DEF Inv, Types, CacheTypes
<1> QED
  BY <1>1, <1>2, <1>3, Zenon DEF StateOf, Inv, Lookups

(* Update wakes the lookups that wait and takes marks away; it never stores*)
(* what is marked and leaves it so.                                        *)
LEMMA UpdateGets ==
  ASSUME Inv, NEW files \in Seq(FileOf), Update(files),
         target' = target, level' = level, got' = got
  PROVE  /\ CacheOf(cache') /\ busy' \in SUBSET Path /\ GetTypes' /\ Lookups'
         /\ cache' = Updated(Here, files)[Len(files)].cache
<1> DEFINE S == Updated(Here, files)[Len(files)]
<1>1. cache' = S.cache /\ busy' = S.busy /\ pc' = Woken
  BY Zenon DEF Update
<1>2. StateOf(Here, busy) /\ busy \in SUBSET Path
  BY HereState, Zenon
<1>3. Len(files) \in 0 .. Len(files)
  OBVIOUS
<1>4. StateOf(S, busy)
  BY <1>2, <1>3, UpdatedStates, Zenon
<1> HIDE DEF S
<1>5. CacheOf(cache') /\ busy' \subseteq busy /\ \A q \in busy' : cache'[q] = None
  BY <1>1, <1>4, Zenon DEF StateOf
<1>6. GetTypes
  BY Zenon DEF Inv, Types
<1>7. \A s \in Reader : /\ pc'[s] \in States
                        /\ pc'[s] # "wait" /\ (pc'[s] = "fill" => pc[s] = "fill")
                        /\ pc[s] \in {"getter", "fill"} => pc'[s] = pc[s]
  BY <1>1, <1>6, Zenon DEF Woken, GetTypes, States
<1>8. GetTypes'
  <2>1. pc' \in [Reader -> States]
    BY <1>1, <1>7, Zenon DEF Woken
  <2> QED BY <1>6, <1>7, <2>1, Zenon DEF GetTypes
<1>9. Lookups'
  <2>1. \A q \in busy : Fetched(q)
    BY Zenon DEF Inv, Lookups
  <2>2. \A q \in busy : Fetched(q)'
    BY <1>7, <2>1, Zenon DEF Fetched
  <2> QED BY <1>5, <1>7, <2>2, Zenon DEF Lookups
<1> QED
  BY <1>1, <1>2, <1>5, <1>8, <1>9, Zenon DEF S

(* What is not lost has its directory's entry all the time. *)
LEMMA NotLost ==
  ASSUME NEW files, Len(files) \in Nat, NEW p \in Path, p \notin Lost(files)
  PROVE  /\ \A i \in 0 .. Len(files) : ~Orphan(Updated(Here, files)[i].cache, p)
         /\ ~Orphan(Updated(Here, files)[Len(files)].cache, p)
<1>1. Len(files) \in 0 .. Len(files)
  OBVIOUS
<1> QED
  BY <1>1, Zenon DEF Lost

(* Refresh leaves differences only where it has seen none, or where a      *)
(* directory has no entry.                                                 *)
LEMMA RefreshInv ==
  ASSUME Inv, Refresh
  PROVE  Inv'
<1> DEFINE paths == Deletions \o Changes
           file(p) == [path |-> p, val |-> Disk(p).val, hash |-> Disk(p).hash,
                       names |-> Disk(p).names]
           G == [i \in 1 .. Len(paths) |-> file(paths[i])]
<1>1. /\ Update(G)
      /\ stale' = {p \in Lost(G) \cup {q \in stale : ~Changed(q)} : cache'[p] # None}
      /\ target' = target /\ level' = level /\ got' = got /\ disk' = disk /\ disturbed' = disturbed
      /\ job' = job /\ done' = done /\ UNCHANGED diskVars /\ UNCHANGED replayVars
  BY Zenon DEF Refresh, diskVars, replayVars
<1>2. Lists(paths, {p \in Path : Changed(p)})
  BY RefreshLists, Zenon
<1> HIDE DEF paths
<1>3. Len(paths) \in Nat /\ \A i \in 1 .. Len(paths) : paths[i] \in Path /\ Changed(paths[i])
  <2>1. paths \in Seq({p \in Path : Changed(p)})
    BY <1>2, Zenon DEF Lists
  <2>2. Len(paths) \in Nat /\ \A i \in 1 .. Len(paths) : paths[i] \in {p \in Path : Changed(p)}
    BY <2>1
  <2> QED BY <2>2, Zenon
<1>4. Types /\ Tree(disk) /\ DiskTypes /\ Followed
  BY Zenon DEF Inv, Types, Following
<1>5. ASSUME NEW p \in Path
      PROVE  /\ file(p) \in FileOf /\ FromDisk(file(p)) /\ file(p).path = p
  <2>1. Disk(p) \in EntryOf(p)
    BY <1>4, DiskEntry, Zenon
  <2>2. /\ Disk(p).names \in SUBSET Children(p) /\ Children(p) \subseteq Path
        /\ Disk(p).val \in Nat /\ Disk(p).hash \in Hashes
    BY <2>1, Zenon DEF EntryOf, Children
  <2>3. file(p) \in FileOf
    BY <2>2 DEF FileOf
  <2> QED BY <2>3 DEF FromDisk
<1> HIDE DEF file
<1>6. /\ G \in Seq(FileOf) /\ Len(G) = Len(paths)
      /\ \A i \in 1 .. Len(G) : FromDisk(G[i]) /\ G[i].path = paths[i]
  <2>1. \A i \in 1 .. Len(paths) : G[i] = file(paths[i])
    BY Zenon
  <2>2. \A i \in 1 .. Len(paths) : G[i] \in FileOf /\ FromDisk(G[i]) /\ G[i].path = paths[i]
    BY <1>3, <1>5, <2>1, Zenon
  <2>3. G = [i \in 1 .. Len(paths) |-> G[i]]
    BY Zenon
  <2> HIDE DEF G
  <2>4. G \in Seq(FileOf) /\ Len(G) = Len(paths)
    BY <1>3, <2>2, <2>3
  <2> QED BY <2>2, <2>4, Zenon
<1> HIDE DEF G
<1>7. /\ CacheOf(cache') /\ busy' \in SUBSET Path /\ GetTypes' /\ Lookups'
      /\ cache' = Updated(Here, G)[Len(G)].cache
  BY <1>1, <1>6, UpdateGets, Zenon
<1>8. DiskTypes' /\ ReplayTypes'
  BY <1>1, <1>4, DiskTypesStay, ReplayTypesStay, Zenon
<1>9. CacheTypes'
  <2>1. stale' \subseteq Path
    BY <1>1, <1>4, Zenon DEF Types, CacheTypes, Lost
  <2> QED BY <1>1, <1>4, <1>7, <2>1, Zenon DEF Types, CacheTypes
<1>10. OneReplay' /\ DoneRight' /\ Tree(disk') /\ Pending' = Pending
  BY <1>1, Zenon DEF Inv, Following, OneReplay, DoneRight, Pending
<1> DEFINE C == cache'
<1>11. C = Updated(Here, G)[Len(G)].cache
  BY <1>7, Zenon
<1> HIDE DEF C
<1>12. ASSUME NEW p \in Path \ stale', C[p] # None
       PROVE  Follows(C, disk, Pending, p) /\ ~Orphan(C, p)
  <2>1. p \notin Lost(G) /\ (p \in stale => Changed(p))
    BY <1>1, <1>12, Zenon DEF C
  <2>2. Len(G) \in Nat
    BY <1>3, <1>6, Zenon
  <2>3. ~Orphan(C, p) /\ Refreshed(C, cache, G, Len(G), p)
    BY <1>4, <1>6, <1>11, <2>1, <2>2, NotLost, HereState, RefreshedAll, Zenon
  <2>4. CASE Changed(p)
    <3>1. \E i \in 1 .. Len(paths) : paths[i] = p
      BY <1>2, <2>4, Zenon DEF Lists
    <3>2. p \in Passed(G, Len(G))
      BY <1>6, <3>1, Zenon DEF Passed
    <3>3. Follows(C, disk, {}, p)
      BY <1>12, <2>3, <3>2, Zenon DEF Refreshed
    <3> QED BY <2>3, <3>3, Zenon DEF Follows
  <2>5. CASE ~Changed(p)
    <3>1. p \notin Passed(G, Len(G))
      BY <1>3, <1>6, <2>5, Zenon DEF Passed
    <3>2. /\ cache[p] # None /\ C[p].val = cache[p].val /\ C[p].hash = cache[p].hash
          /\ \A c \in Children(p) : \/ c \in C[p].names <=> c \in cache[p].names
                                    \/ c \in C[p].names <=> There(disk, c)
      BY <1>12, <2>3, <3>1, Zenon DEF Refreshed
    <3>3. Follows(cache, disk, Pending, p)
      BY <1>4, <2>1, <2>5, Zenon DEF Followed
    <3>4. p \in Pending \/ ValueRight(C[p], p, disk)
      BY <3>2, <3>3, Zenon DEF Follows, ValueRight
    <3>5. \A c \in Children(p) : c \in Pending \/ (c \in C[p].names <=> There(disk, c))
      BY <3>2, <3>3, Zenon DEF Follows
    <3> QED BY <2>3, <3>4, <3>5, Zenon DEF Follows
  <2> QED BY <2>4, <2>5, Zenon
<1>13. Followed'
  <2>1. \A p \in Path \ stale' : Follows(C, disk, Pending, p) /\ (C[p] # None => ~Orphan(C, p))
    BY <1>12, Zenon DEF Follows
  <2> QED BY <1>1, <1>10, <2>1, Zenon DEF Followed, C
<1> QED
  BY <1>7, <1>8, <1>9, <1>10, <1>13, Zenon DEF Inv, Types, Following

-----------------------------------------------------------------------------
(* The disk K2 is K but for p, and for the stats of directories. *)
ChangedAt(K2, K, p) ==
  \A q \in Path \ {p} : (There(K2, q) <=> There(K, q)) /\ (q \in Files => K2[q] = K[q])

(* A file has nothing in it, and everything but Root is in a directory. *)
LEMMA ChildrenOfDirs ==
  /\ \A p \in Files : Children(p) = {}
  /\ \A p \in Path \ {Root} : ParentOf[p] \in Dirs /\ ParentOf[p] \in Path /\ ParentOf[p] \notin Files
<1>1. \A p \in Path \ {Root} : ParentOf[p] \in Dirs /\ ParentOf[p] \notin Files
  BY TreeAssumption, Zenon
<1> QED
  BY <1>1, Zenon DEF Children, Path

(* One path changes, and directories that are there. *)
LEMMA ChangeDiskAt ==
  ASSUME DiskTypes, NEW p \in Path, NEW e \in [val : Nat, hash : Hashes],
         NEW S \in SUBSET Dirs, \A q \in S : Exists(q), ChangeDisk(p, e, S)
  PROVE  DiskTypes' /\ disk'[p] = e /\ ChangedAt(disk', disk, p)
<1> DEFINE new(q) == [disk[q] EXCEPT !.val = clock[q] + 1]
<1>1. /\ disk' = [q \in Path |-> IF q = p THEN e ELSE IF q \in S THEN new(q) ELSE disk[q]]
      /\ clock' = [q \in Path |-> IF disk'[q].val = 0 THEN clock[q] ELSE disk'[q].val]
  BY Zenon DEF ChangeDisk
<1>2. \A q \in Path : disk[q] \in [val : Nat, hash : Hashes] /\ clock[q] \in Nat
  BY Zenon DEF DiskTypes
<1>3. \A q \in Path : new(q) \in [val : Nat, hash : Hashes] /\ new(q).val # 0
  BY <1>2
<1> HIDE DEF new
<1>4. \A q \in Path : disk'[q] \in [val : Nat, hash : Hashes]
  BY <1>1, <1>2, <1>3, Zenon
<1>5. DiskTypes'
  <2>1. \A q \in Path : clock'[q] \in Nat
    BY <1>1, <1>2, <1>4
  <2> QED BY <1>1, <1>4, <2>1, Zenon DEF DiskTypes
<1>6. ASSUME NEW q \in Path \ {p}
      PROVE  (There(disk', q) <=> There(disk, q)) /\ (q \in Files => disk'[q] = disk[q])
  <2>1. CASE q \in S
    <3>1. disk'[q] = new(q) /\ q \notin Files
      BY <1>1, <2>1, TreeAssumption, Zenon
    <3> QED BY <1>3, <2>1, <3>1, Zenon DEF There, Exists
  <2>2. CASE q \notin S
    <3>1. disk'[q] = disk[q]
      BY <1>1, <2>2, Zenon
    <3> QED BY <3>1, Zenon DEF There
  <2> QED BY <2>1, <2>2, Zenon
<1> QED
  BY <1>1, <1>5, <1>6, Zenon DEF ChangedAt

(* What is made has its directory, what is deleted is empty. *)
LEMMA TreeChanges ==
  ASSUME NEW K, NEW K2, NEW p \in Path, Tree(K), ChangedAt(K2, K, p),
         There(K2, p) /\ p # Root => There(K, ParentOf[p]),
         ~There(K2, p) => \A c \in Children(p) : ~There(K, c)
  PROVE  Tree(K2)
<1> SUFFICES ASSUME NEW q \in Path \ {Root}, There(K2, q) PROVE There(K2, ParentOf[q])
  BY Zenon DEF Tree
<1>1. ParentOf[q] \in Path /\ ParentOf[q] # q
  BY ChildrenOfDirs, ParentDiffers, Zenon
<1>2. CASE q = p
  BY <1>1, <1>2, Zenon DEF ChangedAt
<1>3. CASE q # p
  <2>1. There(K, q) /\ There(K, ParentOf[q])
    BY <1>3, Zenon DEF ChangedAt, Tree
  <2>2. ParentOf[q] = p => q \in Children(p)
    BY Zenon DEF Children
  <2> QED BY <1>1, <2>1, <2>2, Zenon DEF ChangedAt
<1> QED
  BY <1>2, <1>3, Zenon

(* A replay goes on: it says of one more path what the disk says then. *)
LEMMA AppendRight ==
  ASSUME NEW F \in Seq(FileOf), NEW f \in FileOf, NEW K, NEW K2, NEW X, NEW X2,
         AllRight(F, K, X), ChangedAt(K2, K, f.path),
         \A q \in X : q \in X2 \/ (q = f.path /\ q \in Files),
         InfoRight(f, K2, X2), NamesRight(f, {}, K2, X2)
  PROVE  AllRight(Append(F, f), K2, X2)
<1> DEFINE G == Append(F, f)
           n == Len(F)
<1>1. /\ n \in Nat /\ Len(G) = n + 1 /\ G[n + 1] = f
      /\ \A i \in 1 .. n : G[i] = F[i] /\ F[i] \in FileOf
  OBVIOUS
<1>2. f.path \in Path
  BY Zenon DEF FileOf
<1> SUFFICES ASSUME NEW i \in 1 .. Len(G)
             PROVE  /\ G[i].path \in Coming(G, i) \/ InfoRight(G[i], K2, X2)
                    /\ NamesRight(G[i], Coming(G, i), K2, X2)
  BY Zenon DEF AllRight
<1> HIDE DEF G, n
<1>3. CASE i = n + 1
  <2>1. NamesRight(f, Coming(G, i), K2, X2)
    BY Zenon DEF NamesRight
  <2> QED BY <1>1, <1>3, <2>1, Zenon
<1>4. CASE i \in 1 .. n
  <2>1. /\ G[i] = F[i] /\ F[i].path \in Path
        /\ F[i].path \in Coming(F, i) \/ InfoRight(F[i], K, X)
        /\ NamesRight(F[i], Coming(F, i), K, X)
    BY <1>1, <1>4, Zenon DEF AllRight, FileOf, n
  <2>2. /\ n + 1 \in i + 1 .. Len(G)
        /\ \A k \in i + 1 .. n : k \in i + 1 .. Len(G) /\ k \in 1 .. n
    BY <1>1, <1>4
  <2>3. f.path \in Coming(G, i)
    BY <1>1, <1>2, <2>2, Zenon DEF Coming
  <2>4. \A q \in Coming(F, i) : q \in Coming(G, i)
    BY <1>1, <2>2, Zenon DEF Coming, n
  <2> DEFINE g == F[i]
             P == Coming(G, i)
             Q == Coming(F, i)
  <2> HIDE DEF g, P, Q
  <2>5. g.path \in P \/ InfoRight(g, K2, X2)
    <3> SUFFICES ASSUME g.path \notin P PROVE InfoRight(g, K2, X2)
      BY Zenon
    <3>1. g.path # f.path /\ g.path \in Path /\ InfoRight(g, K, X)
      BY <2>1, <2>3, <2>4, Zenon DEF g, P
    <3>2. (There(K2, g.path) <=> There(K, g.path)) /\ (g.path \in Files => K2[g.path] = K[g.path])
      BY <3>1, Zenon DEF ChangedAt
    <3>3. g.path # Root /\ ParentOf[g.path] \in X => ParentOf[g.path] \in X2
      BY <3>1, ChildrenOfDirs, Zenon
    <3>4. ExistsRight(g, K2, X2)
      BY <3>1, <3>2, <3>3, Zenon DEF InfoRight, ExistsRight
    <3>5. ValueRight(g, g.path, K) => ValueRight(g, g.path, K2)
      BY <3>2, Zenon DEF ValueRight
    <3> QED BY <3>1, <3>4, <3>5, Zenon DEF InfoRight
  <2>6. NamesRight(g, P, K2, X2)
    <3> SUFFICES ASSUME g.val # 0, g.names # NoNames, g.path \notin X2, NEW c \in Children(g.path)
                 PROVE  c \in P \/ (c \in g.names <=> There(K2, c))
      BY Zenon DEF NamesRight
    <3>1. c \in Path /\ g.path \notin Files
      BY ChildrenOfDirs, Zenon DEF Children
    <3>2. c \in Q \/ (c \in g.names <=> There(K, c))
      BY <2>1, <3>1, Zenon DEF NamesRight, g, Q
    <3>3. c = f.path \/ (There(K2, c) <=> There(K, c))
      BY <3>1, Zenon DEF ChangedAt
    <3> QED BY <2>3, <2>4, <3>2, <3>3, Zenon DEF P, Q
  <2> QED BY <2>1, <2>5, <2>6, Zenon DEF g, P
<1>5. i = n + 1 \/ i \in 1 .. n
  BY <1>1
<1> QED
  BY <1>3, <1>4, <1>5, Zenon

(* Others change p under a replay. *)
LEMMA OthersRight ==
  ASSUME NEW F \in Seq(FileOf), NEW K, NEW K2, NEW X, NEW X2, NEW p \in Path,
         AllRight(F, K, X), ChangedAt(K2, K, p), X \subseteq X2, p \in X2,
         (There(K2, p) <=> There(K, p)) \/ (p # Root => ParentOf[p] \in X2)
  PROVE  AllRight(F, K2, X2)
<1> SUFFICES ASSUME NEW i \in 1 .. Len(F)
             PROVE  /\ F[i].path \in Coming(F, i) \/ InfoRight(F[i], K2, X2)
                    /\ NamesRight(F[i], Coming(F, i), K2, X2)
  BY Zenon DEF AllRight
<1> DEFINE g == F[i]
           P == Coming(F, i)
<1>1. g \in FileOf
  OBVIOUS
<1>2. g.path \in Path
  BY <1>1, Zenon DEF FileOf
<1>3. (g.path \in P \/ InfoRight(g, K, X)) /\ NamesRight(g, P, K, X)
  BY Zenon DEF AllRight
<1> HIDE DEF g, P
<1>4. InfoRight(g, K, X) => InfoRight(g, K2, X2)
  <2>1. ExistsRight(g, K, X) => ExistsRight(g, K2, X2)
    <3>1. CASE There(K2, g.path) <=> There(K, g.path)
      BY <3>1, Zenon DEF ExistsRight
    <3>2. CASE ~(There(K2, g.path) <=> There(K, g.path))
      <4>1. g.path = p
        BY <1>2, <3>2, Zenon DEF ChangedAt
      <4> QED BY <3>2, <4>1, Zenon DEF ExistsRight
    <3> QED BY <3>1, <3>2, Zenon
  <2>2. g.path = p \/ (ValueRight(g, g.path, K) => ValueRight(g, g.path, K2))
    BY <1>2, Zenon DEF ValueRight, ChangedAt
  <2> QED BY <2>1, <2>2, Zenon DEF InfoRight
<1>5. NamesRight(g, P, K2, X2)
  <2> SUFFICES ASSUME g.val # 0, g.names # NoNames, g.path \notin X2, NEW c \in Children(g.path)
               PROVE  c \in P \/ (c \in g.names <=> There(K2, c))
    BY Zenon DEF NamesRight
  <2>1. c \in Path /\ c # Root /\ ParentOf[c] = g.path
    BY Zenon DEF Children
  <2>2. c \in P \/ (c \in g.names <=> There(K, c))
    BY <1>3, Zenon DEF NamesRight
  <2>3. There(K2, c) <=> There(K, c)
    BY <2>1, Zenon DEF ChangedAt
  <2> QED BY <2>2, <2>3, Zenon
<1> QED
  BY <1>3, <1>4, <1>5, Zenon DEF g, P

(* A replay's file makes its path one of those that may differ. *)
LEMMA FollowsReplay ==
  ASSUME NEW C, NEW K, NEW K2, NEW P, NEW P2, NEW x \in Path, NEW p \in Path,
         Follows(C, K, P, p), ChangedAt(K2, K, x), P \subseteq P2, x \in P2
  PROVE  Follows(C, K2, P2, p)
<1>1. p = x \/ (ValueRight(C[p], p, K) => ValueRight(C[p], p, K2))
  BY Zenon DEF ChangedAt, ValueRight
<1>2. \A c \in Children(p) : c = x \/ (There(K2, c) <=> There(K, c))
  BY Zenon DEF ChangedAt, Children
<1> QED
  BY <1>1, <1>2, Zenon DEF Follows

(* A change by others leaves what it does not touch. *)
LEMMA FollowsOthers ==
  ASSUME NEW C, NEW K, NEW K2, NEW P, NEW x \in Path, NEW p \in Path,
         Follows(C, K, P, p), ChangedAt(K2, K, x), p # x,
         (There(K2, x) <=> There(K, x)) \/ x \notin Children(p)
  PROVE  Follows(C, K2, P, p)
<1>1. ValueRight(C[p], p, K) => ValueRight(C[p], p, K2)
  BY Zenon DEF ChangedAt, ValueRight
<1>2. \A c \in Children(p) : There(K2, c) <=> There(K, c)
  BY Zenon DEF ChangedAt, Children
<1> QED
  BY <1>1, <1>2, Zenon DEF Follows

-----------------------------------------------------------------------------
(* Steps of others leave the lookups. *)
LEMMA EntriesUnchanged ==
  ASSUME Inv, UNCHANGED entryVars
  PROVE  /\ GetTypes' /\ Lookups' /\ cache' = cache /\ busy' = busy
         /\ CacheOf(cache') /\ busy' \in SUBSET Path
<1>1. /\ cache' = cache /\ busy' = busy /\ pc' = pc /\ target' = target
      /\ level' = level /\ got' = got
  BY Zenon DEF entryVars, getVars
<1>2. GetTypes' /\ Lookups'
  BY <1>1, Zenon DEF Inv, Types, GetTypes, Lookups, Fetched
<1>3. CacheOf(cache) /\ busy \in SUBSET Path
  BY Zenon DEF Inv, Types, CacheTypes
<1> QED
  BY <1>1, <1>2, <1>3, Zenon

(* What is on disk has its directory there, a new stat is one. *)
LEMMA DiskFacts ==
  ASSUME Inv, NEW p \in Path
  PROVE  /\ DirOf(p) \in SUBSET Dirs
         /\ Exists(p) => \A q \in DirOf(p) : Exists(q)
         /\ Gone \in [val : Nat, hash : Hashes] /\ Gone.val = 0
         /\ \A h \in Hashes : New(p, h) \in [val : Nat, hash : Hashes] /\ New(p, h).val # 0
                              /\ New(p, h).hash = h
         /\ Disk(p).names = {} => \A c \in Children(p) : ~There(disk, c)
<1>1. DiskTypes /\ Tree(disk)
  BY Zenon DEF Inv, Types, Following
<1>2. DirOf(p) \in SUBSET Dirs /\ (Exists(p) => \A q \in DirOf(p) : Exists(q))
  BY <1>1, ChildrenOfDirs, Zenon DEF DirOf, Tree, There, Exists
<1>3. Gone \in [val : Nat, hash : Hashes] /\ Gone.val = 0
  BY DEF Gone, Hashes
<1>4. clock[p] \in Nat
  BY <1>1, Zenon DEF DiskTypes
<1>5. \A h \in Hashes : New(p, h) \in [val : Nat, hash : Hashes] /\ New(p, h).val # 0
                        /\ New(p, h).hash = h
  BY <1>4 DEF New
<1>6. Disk(p).names = {} => \A c \in Children(p) : ~There(disk, c)
  BY <1>1, DiskNames, Zenon
<1> QED
  BY <1>2, <1>3, <1>5, <1>6, Zenon

(* Who changes a path behind the master's back makes it, and the directory *)
(* if the name comes or goes, one that may differ.                         *)
LEMMA EditInv ==
  ASSUME Inv, NEW p \in Path, Edit(p)
  PROVE  Inv'
<1> DEFINE S == IF Exists(p) <=> disk'[p].val # 0 THEN {} ELSE DirOf(p)
           working == \E j \in Replay : job[j] \in {"disk", "reread"}
<1>1. /\ p # Root /\ Exists(ParentOf[p])
      /\ stale' = stale \cup {p} \cup S
      /\ disturbed' = IF working THEN disturbed \cup {p} \cup S ELSE disturbed
      /\ UNCHANGED entryVars /\ UNCHANGED replayVars /\ job' = job /\ done' = done
  BY Zenon DEF Edit, replayVars
<1>2. DiskTypes' /\ ChangedAt(disk', disk, p) /\ Tree(disk')
  <2>0. DirOf(p) = {ParentOf[p]} /\ {} \in SUBSET Dirs /\ Contents \subseteq Hashes /\ NoHash \in Hashes
    BY <1>1, Zenon DEF DirOf, Hashes
  <2>1. PICK e \in [val : Nat, hash : Hashes], D \in SUBSET Dirs :
          /\ ChangeDisk(p, e, D) /\ \A q \in D : Exists(q)
          /\ e.val = 0 => Disk(p).names = {}
    <3>1. CASE Exists(p) /\ Disk(p).names = {} /\ ChangeDisk(p, Gone, DirOf(p))
      BY <3>1, DiskFacts, Zenon
    <3>2. CASE ~Exists(p) /\ \E h \in HashOf(p) : ChangeDisk(p, New(p, h), DirOf(p))
      <4>1. PICK h \in HashOf(p) : ChangeDisk(p, New(p, h), DirOf(p))
        BY <3>2, Zenon
      <4>2. h \in Hashes /\ \A q \in DirOf(p) : Exists(q)
        BY <1>1, <2>0, Zenon DEF HashOf
      <4>3. /\ New(p, h) \in [val : Nat, hash : Hashes] /\ New(p, h).val # 0
            /\ DirOf(p) \in SUBSET Dirs
        BY <4>2, DiskFacts, Zenon
      <4> QED BY <4>1, <4>2, <4>3, Zenon
    <3>3. CASE Exists(p) /\ p \in Files /\ \E h \in Contents : ChangeDisk(p, New(p, h), {})
      <4>1. PICK h \in Contents : ChangeDisk(p, New(p, h), {})
        BY <3>3, Zenon
      <4>2. New(p, h) \in [val : Nat, hash : Hashes] /\ New(p, h).val # 0
        BY <2>0, DiskFacts, Zenon
      <4>3. \A q \in {} : Exists(q)
        BY Zenon
      <4> QED BY <2>0, <4>1, <4>2, <4>3, Zenon
    <3> QED BY <3>1, <3>2, <3>3, Zenon DEF Edit
  <2>2. Tree(disk) /\ DiskTypes
    BY Zenon DEF Inv, Types, Following
  <2>3. DiskTypes' /\ disk'[p] = e /\ ChangedAt(disk', disk, p)
    BY <2>1, <2>2, ChangeDiskAt, Zenon
  <2>4. /\ There(disk', p) /\ p # Root => There(disk, ParentOf[p])
        /\ ~There(disk', p) => \A c \in Children(p) : ~There(disk, c)
    BY <1>1, <2>1, <2>3, DiskFacts, Zenon DEF There, Exists
  <2> DEFINE K2 == disk'
  <2> HIDE DEF K2
  <2>5. ChangedAt(K2, disk, p) /\ (There(K2, p) /\ p # Root => There(disk, ParentOf[p]))
        /\ (~There(K2, p) => \A c \in Children(p) : ~There(disk, c))
    BY <2>3, <2>4, Zenon DEF K2
  <2>6. Tree(K2)
    BY <2>2, <2>5, TreeChanges, Zenon
  <2> QED BY <2>3, <2>6, Zenon DEF K2
<1>3. (There(disk', p) <=> There(disk, p)) \/ ParentOf[p] \in S
  BY <1>1, Zenon DEF There, Exists, DirOf
<1>4. S \subseteq Path
  BY ChildrenOfDirs, Zenon DEF DirOf
<1> HIDE DEF S
<1>5. /\ GetTypes' /\ Lookups' /\ cache' = cache /\ CacheOf(cache') /\ busy' \in SUBSET Path
      /\ ReplayTypes'
  BY <1>1, EntriesUnchanged, ReplayTypesStay, Zenon DEF Inv
<1>6. CacheTypes'
  <2>1. stale' \in SUBSET Path /\ disturbed' \in SUBSET Path
    BY <1>1, <1>4, Zenon DEF Inv, Types, CacheTypes
  <2> QED BY <1>5, <2>1, Zenon DEF CacheTypes
<1>7. OneReplay' /\ Pending' = Pending
  BY <1>1, Zenon DEF Inv, Following, OneReplay, Pending
<1> DEFINE K2 == disk'
           X2 == disturbed'
<1>8. ChangedAt(K2, disk, p) /\ ((There(K2, p) <=> There(disk, p)) \/ ParentOf[p] \in S)
  BY <1>2, <1>3, Zenon
<1>9. X2 = IF working THEN disturbed \cup {p} \cup S ELSE disturbed
  BY <1>1, Zenon
<1> HIDE DEF K2, X2
<1>10. ASSUME NEW j \in Replay PROVE AllRight(done[j], K2, X2)
  <2>1. CASE working
    <3>1. done[j] \in Seq(FileOf) /\ AllRight(done[j], disk, disturbed)
      BY Zenon DEF Inv, Types, ReplayTypes, Following, DoneRight
    <3>2. disturbed \subseteq X2 /\ p \in X2 /\ S \subseteq X2
      BY <1>9, <2>1, Zenon
    <3>3. (There(K2, p) <=> There(disk, p)) \/ (p # Root => ParentOf[p] \in X2)
      BY <1>8, <3>2, Zenon
    <3> QED BY <1>8, <3>1, <3>2, <3>3, OthersRight, Zenon
  <2>2. CASE ~working
    <3>1. done[j] = <<>>
      BY <2>2, Zenon DEF Inv, Following, OneReplay, Active
    <3> QED BY <3>1 DEF AllRight
  <2> QED BY <2>1, <2>2, Zenon
<1>11. ASSUME NEW q \in Path \ stale'
       PROVE  Follows(cache, K2, Pending, q) /\ (cache[q] # None => ~Orphan(cache, q))
  <2>1. q \notin stale /\ q # p /\ q \notin S
    BY <1>1, <1>11, Zenon
  <2>2. (There(K2, p) <=> There(disk, p)) \/ p \notin Children(q)
    BY <1>8, <2>1, Zenon DEF Children
  <2>3. Follows(cache, disk, Pending, q) /\ (cache[q] # None => ~Orphan(cache, q))
    BY <2>1, Zenon DEF Inv, Following, Followed
  <2> QED BY <1>8, <2>1, <2>2, <2>3, FollowsOthers, Zenon
<1>12. DoneRight' /\ Followed'
  BY <1>1, <1>5, <1>7, <1>10, <1>11, Zenon DEF DoneRight, Followed, K2, X2
<1> QED
  BY <1>2, <1>5, <1>6, <1>7, <1>12, Zenon DEF Inv, Types, Following

-----------------------------------------------------------------------------
(* What a replay has on disk after one file f. *)
Wrote(f) ==
  /\ DiskTypes' /\ ChangedAt(disk', disk, f.path) /\ Tree(disk')
  /\ newFiles' \in [Replay -> [Contents -> Seq(Hashes)]]
  /\ disturbed' \in SUBSET Path
  /\ \A q \in disturbed : q \in disturbed' \/ (q = f.path /\ q \in Files)
  /\ f.del \/ disk'[f.path].val # 0
  /\ f.path \in Files /\ disk'[f.path].val # 0 =>
       disk'[f.path].hash = f.hash \/ f.path \in disturbed'
  /\ f.path \in Dirs /\ disk'[f.path].val # 0 /\ f.names # NoNames =>
       f.names = Disk(f.path).names \/ f.path \in disturbed'

FileTypes(f) ==
  /\ f.path \in Path /\ f.hash \in Hashes /\ f.names \in SUBSET Path
  /\ f.hash \in Contents <=> f.path \in Files /\ ~f.del
  /\ f.names \subseteq Children(f.path) \/ (f.names = NoNames /\ f.path \in Dirs)

(* A path is changed, with directories that are there. *)
LEMMA DiskWritten ==
  ASSUME Inv, NEW p \in Path, NEW e \in [val : Nat, hash : Hashes],
         NEW S \in SUBSET Dirs, \A q \in S : Exists(q), ChangeDisk(p, e, S),
         e.val # 0 /\ p # Root => Exists(ParentOf[p]),
         e.val = 0 => Disk(p).names = {}
  PROVE  DiskTypes' /\ ChangedAt(disk', disk, p) /\ Tree(disk') /\ disk'[p] = e
<1>1. Tree(disk) /\ DiskTypes
  BY Zenon DEF Inv, Types, Following
<1>2. DiskTypes' /\ disk'[p] = e /\ ChangedAt(disk', disk, p)
  BY <1>1, ChangeDiskAt, Zenon
<1> DEFINE K2 == disk'
<1>3. /\ There(K2, p) /\ p # Root => There(disk, ParentOf[p])
      /\ ~There(K2, p) => \A c \in Children(p) : ~There(disk, c)
  BY <1>2, DiskFacts, Zenon DEF There, Exists
<1>4. ChangedAt(K2, disk, p)
  BY <1>2, Zenon
<1> HIDE DEF K2
<1>5. Tree(K2)
  BY <1>1, <1>3, <1>4, TreeChanges, Zenon
<1> QED
  BY <1>2, <1>5, Zenon DEF K2

(* A deletion. *)
LEMMA RemoveWrote ==
  ASSUME Inv, NEW j \in Replay, NEW f, FileTypes(f), f.del, Possible(j, f), Remove(j, f.path)
  PROVE  Wrote(f) /\ disk'[f.path].val = 0
<1> DEFINE p == f.path
           h == delFileHashes[j][p]
<1>1. /\ ChangeDisk(p, Gone, DirOf(p)) /\ p \in Path
      /\ newFiles' = IF h = NoHash THEN newFiles
                     ELSE [newFiles EXCEPT ![j][h] = Append(@, disk[p].hash)]
      /\ disturbed' = disturbed \ ({p} \cap Files)
      /\ Exists(p) /\ Disk(p).names = {}
  BY Zenon DEF Remove, Possible, FileTypes
<1> HIDE DEF p, h
<1>2. DiskTypes' /\ ChangedAt(disk', disk, p) /\ Tree(disk') /\ disk'[p].val = 0
  <2>1. /\ DirOf(p) \in SUBSET Dirs /\ \A q \in DirOf(p) : Exists(q)
        /\ Gone \in [val : Nat, hash : Hashes] /\ Gone.val = 0
    BY <1>1, DiskFacts, Zenon
  <2> QED BY <1>1, <2>1, DiskWritten, Zenon
<1>3. newFiles' \in [Replay -> [Contents -> Seq(Hashes)]]
  <2>1. newFiles \in [Replay -> [Contents -> Seq(Hashes)]] /\ disk[p].hash \in Hashes
    BY <1>1 DEF Inv, Types, ReplayTypes, DiskTypes
  <2>2. \A g \in Contents : newFiles[j][g] \in Seq(Hashes)
    BY <2>1, Zenon
  <2> DEFINE long == Append(newFiles[j][h], disk[p].hash)
             new == [newFiles[j] EXCEPT ![h] = long]
  <2>3. CASE h \in Contents
    <3>1. long \in Seq(Hashes)
      BY <2>1, <2>2, <2>3
    <3> HIDE DEF long
    <3>2. new \in [Contents -> Seq(Hashes)]
      BY <2>1, <3>1, Zenon
    <3>3. newFiles' \in {newFiles, [newFiles EXCEPT ![j] = new]}
      BY <1>1, Zenon DEF long
    <3> HIDE DEF new
    <3> QED BY <2>1, <3>2, <3>3, Zenon
  <2>4. CASE h \notin Contents
    <3>1. new \in [Contents -> Seq(Hashes)]
      BY <2>1, <2>4, Zenon
    <3>2. newFiles' \in {newFiles, [newFiles EXCEPT ![j] = new]}
      BY <1>1, Zenon
    <3> HIDE DEF new
    <3> QED BY <2>1, <3>1, <3>2, Zenon
  <2> QED BY <2>3, <2>4, Zenon
<1>4. disturbed' \in SUBSET Path /\ \A q \in disturbed : q \in disturbed' \/ (q = p /\ q \in Files)
  BY <1>1, Zenon DEF Inv, Types, CacheTypes
<1> QED
  BY <1>2, <1>3, <1>4, Zenon DEF Wrote, p

(* A directory is made, or is there already. *)
LEMMA MkdirWrote ==
  ASSUME Inv, NEW j \in Replay, NEW f, FileTypes(f), ~f.del, f.path \in Dirs,
         Possible(j, f), Mkdir(f)
  PROVE  Wrote(f)
<1> DEFINE p == f.path
           S == IF Exists(p) THEN {} ELSE DirOf(p)
<1>1. /\ ChangeDisk(p, New(p, NoHash), S) /\ p \in Path
      /\ disturbed' = IF f.names \in {NoNames, Disk(p).names} THEN disturbed
                      ELSE disturbed \cup {p}
      /\ newFiles' = newFiles /\ NoHash \in Hashes /\ p \notin Files
      /\ p # Root => Exists(ParentOf[p])
  BY TreeAssumption, Zenon DEF Mkdir, Possible, FileTypes, Hashes
<1>2. S \in SUBSET Dirs /\ \A q \in S : Exists(q)
  BY <1>1, DiskFacts, Zenon DEF DirOf
<1> HIDE DEF p, S
<1>3. DiskTypes' /\ ChangedAt(disk', disk, p) /\ Tree(disk') /\ disk'[p].val # 0
  <2>1. New(p, NoHash) \in [val : Nat, hash : Hashes] /\ New(p, NoHash).val # 0
    BY <1>1, DiskFacts, Zenon
  <2> QED BY <1>1, <1>2, <2>1, DiskWritten, Zenon
<1>4. newFiles' \in [Replay -> [Contents -> Seq(Hashes)]]
  BY <1>1, Zenon DEF Inv, Types, ReplayTypes
<1>5. /\ disturbed' \in SUBSET Path /\ disturbed \subseteq disturbed'
      /\ f.names # NoNames => f.names = Disk(p).names \/ p \in disturbed'
  BY <1>1, Zenon DEF Inv, Types, CacheTypes
<1> QED
  BY <1>1, <1>3, <1>4, <1>5, Zenon DEF Wrote, p

(* A file with the contents, or what is taken for them, gets its name. *)
LEMMA RenameWrote ==
  ASSUME Inv, NEW j \in Replay, NEW f, FileTypes(f), ~f.del, f.path \in Files,
         Possible(j, f), Rename(j, f)
  PROVE  Wrote(f)
<1> DEFINE p == f.path
           files == newFiles[j][f.hash]
           contents == files[Len(files)]
<1>1. /\ ChangeDisk(p, New(p, contents), DirOf(p)) /\ p \in Path
      /\ newFiles' = [newFiles EXCEPT ![j][f.hash] = SubSeq(@, 1, Len(@) - 1)]
      /\ disturbed' = (disturbed \ {p}) \cup (IF contents = f.hash THEN {} ELSE {p})
  BY Zenon DEF Rename, FileTypes
<1>2. /\ f.hash \in Contents /\ f.hash # NoHash /\ p \notin Dirs
      /\ p # Root => Exists(ParentOf[p])
      /\ files # <<>>
  BY CacheAssumption, TreeAssumption, Zenon DEF FileTypes, Possible
<1>3. newFiles \in [Replay -> [Contents -> Seq(Hashes)]]
  BY Zenon DEF Inv, Types, ReplayTypes
<1>4. files \in Seq(Hashes)
  BY <1>2, <1>3, Zenon
<1>5. contents \in Hashes /\ SubSeq(files, 1, Len(files) - 1) \in Seq(Hashes)
  BY <1>2, <1>4
<1>6. newFiles' \in [Replay -> [Contents -> Seq(Hashes)]]
  <2> HIDE DEF contents, p
  <2> DEFINE short == SubSeq(files, 1, Len(files) - 1)
  <2>1. newFiles' = [newFiles EXCEPT ![j] = [newFiles[j] EXCEPT ![f.hash] = short]]
    BY <1>1, <1>2, <1>3
  <2>2. short \in Seq(Hashes)
    BY <1>5, Zenon
  <2> HIDE DEF short
  <2> QED BY <1>2, <1>3, <2>1, <2>2
<1> HIDE DEF p, contents
<1>7. /\ DiskTypes' /\ ChangedAt(disk', disk, p) /\ Tree(disk')
      /\ disk'[p].hash = contents /\ disk'[p].val # 0
  <2>1. /\ New(p, contents) \in [val : Nat, hash : Hashes] /\ New(p, contents).val # 0
        /\ New(p, contents).hash = contents /\ DirOf(p) \in SUBSET Dirs
    BY <1>1, <1>5, DiskFacts, Zenon
  <2>2. \A q \in DirOf(p) : Exists(q)
    BY <1>2, Zenon DEF DirOf
  <2> QED BY <1>1, <1>2, <2>1, <2>2, DiskWritten, Zenon
<1>8. /\ disturbed' \in SUBSET Path
      /\ \A q \in disturbed : q \in disturbed' \/ q = p
      /\ contents = f.hash \/ p \in disturbed'
  BY <1>1, Zenon DEF Inv, Types, CacheTypes
<1> QED
  BY <1>2, <1>6, <1>7, <1>8, Zenon DEF Wrote, p

-----------------------------------------------------------------------------
(* The next file of a replay. *)
LEMMA NextFile ==
  ASSUME Inv, NEW j \in Replay, NEW i \in 1 .. Len(fset[j])
  PROVE  FileTypes(fset[j][i]) /\ fset[j] \in FileSets
<1>1. fset[j] \in FileSets \cup {<<>>}
  BY Zenon DEF Inv, Types, ReplayTypes
<1>2. fset[j] # <<>>
  OBVIOUS
<1>3. fset[j] \in FileSets
  BY <1>1, <1>2, Zenon
<1> DEFINE fs == fset[j]
<1>4. /\ fs \in Seq([path : Path, del : BOOLEAN, hash : Hashes, names : SUBSET Path])
      /\ fs[i].hash \in Contents <=> fs[i].path \in Files /\ ~fs[i].del
      /\ \/ fs[i].names \subseteq Children(fs[i].path)
         \/ fs[i].names = NoNames /\ fs[i].path \in Dirs
  BY <1>3, FileSetsAssumption, Zenon
<1> DEFINE T == [path : Path, del : BOOLEAN, hash : Hashes, names : SUBSET Path]
<1>5. fs \in Seq(T) /\ i \in 1 .. Len(fs)
  BY <1>4, Zenon
<1> HIDE DEF fs, T
<1>6. fs[i] \in T
  BY <1>5
<1> QED
  BY <1>3, <1>4, <1>6, Zenon DEF FileTypes, fs, T

(* What a replay says of a path is so once it is on disk. *)
LEMMA WroteRight ==
  ASSUME Inv, NEW f, FileTypes(f), Wrote(f),
         NEW info, info = [path |-> f.path, val |-> disk'[f.path].val, hash |-> f.hash,
                           names |-> f.names]
  PROVE  info \in FileOf /\ InfoRight(info, disk', disturbed')
         /\ NamesRight(info, {}, disk', disturbed')
<1> DEFINE K2 == disk'
           X2 == disturbed'
           p == f.path
<1>0. K2 \in [Path -> [val : Nat, hash : Hashes]]
  BY Zenon DEF Wrote, DiskTypes
<1>1. /\ ChangedAt(K2, disk, p) /\ p \in Path
      /\ p \in Files /\ K2[p].val # 0 => K2[p].hash = f.hash \/ p \in X2
      /\ p \in Dirs /\ K2[p].val # 0 /\ f.names # NoNames => f.names = Disk(p).names \/ p \in X2
  BY Zenon DEF Wrote, FileTypes
<1>2. info = [path |-> p, val |-> K2[p].val, hash |-> f.hash, names |-> f.names]
  BY Zenon
<1> HIDE DEF K2, X2, p
<1>3. info.path = p /\ info.val = K2[p].val /\ info.hash = f.hash /\ info.names = f.names
  BY <1>2
<1>4. info \in FileOf
  <2>1. /\ K2[p].val \in Nat /\ f.hash \in Hashes /\ f.names \in SUBSET Path
        /\ f.names \subseteq Children(p) \/ (f.names = NoNames /\ p \in Dirs)
    BY <1>0, <1>1 DEF FileTypes, p
  <2>2. info \in [path : Path, val : Nat, hash : Hashes, names : SUBSET Path]
    BY <1>1, <1>2, <2>1
  <2> QED BY <1>3, <2>1, <2>2, Zenon DEF FileOf
<1>5. InfoRight(info, K2, X2)
  BY <1>1, <1>3, Zenon DEF InfoRight, ExistsRight, ValueRight, There
<1>6. NamesRight(info, {}, K2, X2)
  <2> SUFFICES ASSUME info.val # 0, info.names # NoNames, p \notin X2, NEW c \in Children(p)
               PROVE  c \in info.names <=> There(K2, c)
    BY <1>3, Zenon DEF NamesRight
  <2>1. p \in Dirs /\ f.names = Disk(p).names
    BY <1>1, <1>3, ChildrenOfDirs, Zenon DEF Path
  <2>2. c \in Disk(p).names <=> There(disk, c)
    BY <1>1, DiskNames, Zenon DEF Inv, Following
  <2>3. c \in Path /\ c # p
    BY ParentDiffers, Zenon DEF Children
  <2> QED BY <1>1, <1>3, <2>1, <2>2, <2>3, Zenon DEF ChangedAt
<1> QED
  BY <1>4, <1>5, <1>6, Zenon DEF K2, X2

(* One more file of a replay is on disk, or the master exits. *)
LEMMA ReplayFileInv ==
  ASSUME Inv, NEW j \in Replay, replayFile(j)
  PROVE  Inv'
<1> DEFINE F == done[j]
           f == fset[j][Len(F) + 1]
           info == [path |-> f.path, val |-> disk'[f.path].val, hash |-> f.hash, names |-> f.names]
<1>1. /\ \/ job[j] = "disk"
         \/ job[j] = "queued" /\ \A k \in Replay : job[k] \notin {"disk", "reread"}
      /\ Len(F) < Len(fset[j])
      /\ UNCHANGED entryVars /\ UNCHANGED prepareVars /\ stale' = stale
  BY Zenon DEF replayFile
<1>2. /\ GetTypes' /\ Lookups' /\ cache' = cache /\ CacheOf(cache') /\ busy' \in SUBSET Path
  BY <1>1, EntriesUnchanged, Zenon
<1>3. Types /\ ReplayTypes /\ OneReplay /\ DoneRight /\ Followed
  BY Zenon DEF Inv, Types, Following
<1>4. F \in Seq(FileOf)
  BY <1>3, Zenon DEF ReplayTypes
<1>5. FileTypes(f)
  <2>1. fset[j] \in FileSets \cup {<<>>}
    BY <1>3, Zenon DEF ReplayTypes
  <2>2. Len(fset[j]) \in Nat
    <3>1. CASE fset[j] \in FileSets
      <4>1. fset[j] \in Seq([path : Path, del : BOOLEAN, hash : Hashes, names : SUBSET Path])
        BY <3>1, FileSetsAssumption, Zenon
      <4> QED BY <4>1
    <3>2. CASE fset[j] = <<>>
      BY <3>2
    <3> QED BY <2>1, <3>1, <3>2, Zenon
  <2>3. Len(F) + 1 \in 1 .. Len(fset[j])
    BY <1>1, <1>4, <2>2
  <2> QED BY <2>3, NextFile, Zenon
<1>6. CASE UNCHANGED <<diskVars, job, newFiles, done, disturbed>>
  <2>1. /\ UNCHANGED diskVars /\ UNCHANGED replayVars /\ disk' = disk /\ job' = job /\ done' = done
        /\ disturbed' = disturbed
    BY <1>1, <1>6, Zenon DEF diskVars, replayVars
  <2>2. DiskTypes' /\ ReplayTypes'
    BY <1>3, <2>1, DiskTypesStay, ReplayTypesStay, Zenon
  <2>3. CacheTypes'
    BY <1>1, <1>2, <1>3, <2>1, Zenon DEF Types, CacheTypes
  <2>4. Following'
    BY <1>1, <1>2, <2>1, FollowingStays, Zenon DEF Inv
  <2> QED BY <1>2, <2>2, <2>3, <2>4, Zenon DEF Inv, Types
<1>7. CASE /\ Possible(j, f)
           /\ \/ f.del /\ Remove(j, f.path)
              \/ ~f.del /\ f.path \in Dirs /\ Mkdir(f)
              \/ ~f.del /\ f.path \in Files /\ Rename(j, f)
           /\ job' = [job EXCEPT ![j] = IF f.del THEN "disk" ELSE "reread"]
           /\ done' = [done EXCEPT ![j] = Append(@, info)]
  <2> DEFINE K2 == disk'
             X2 == disturbed'
             G == Append(F, info)
  <2>1. Wrote(f)
    <3> HIDE DEF f, info
    <3> QED BY <1>5, <1>7, RemoveWrote, MkdirWrote, RenameWrote, Zenon
  <2>2. info \in FileOf /\ InfoRight(info, K2, X2) /\ NamesRight(info, {}, K2, X2)
    <3> HIDE DEF f
    <3>1. info = [path |-> f.path, val |-> disk'[f.path].val, hash |-> f.hash,
                  names |-> f.names]
      BY Zenon
    <3> HIDE DEF info
    <3> QED BY <1>5, <2>1, <3>1, WroteRight, Zenon
  <2>3. info.path = f.path /\ f.path \in Path
    BY <1>5, Zenon DEF FileTypes
  <2>4. /\ ChangedAt(K2, disk, info.path) /\ DiskTypes' /\ Tree(K2)
        /\ newFiles' \in [Replay -> [Contents -> Seq(Hashes)]] /\ X2 \in SUBSET Path
        /\ \A q \in disturbed : q \in X2 \/ (q = info.path /\ q \in Files)
    <3>1. \A p : p = f.path => ChangedAt(K2, disk, p)
      BY <2>1, Zenon DEF Wrote
    <3> HIDE DEF f
    <3> QED BY <2>1, <2>3, <3>1, Zenon DEF Wrote
  <2>5. PICK s \in {"disk", "reread"} :
          job' = [job EXCEPT ![j] = s] /\ (s = "reread" => info.val # 0)
    <3>1. info.val = disk'[f.path].val
      BY Zenon
    <3>2. f.del \/ disk'[f.path].val # 0
      BY <2>1, Zenon DEF Wrote
    <3>3. CASE f.del
      BY <1>7, <3>3, Zenon
    <3>4. CASE ~f.del
      <4>1. job' = [job EXCEPT ![j] = "reread"]
        BY <1>7, <3>4, Zenon
      <4> HIDE DEF f, info
      <4> QED BY <3>1, <3>2, <3>4, <4>1, Zenon
    <3> QED BY <3>3, <3>4, Zenon
  <2>6. done' = [done EXCEPT ![j] = G]
    BY <1>7, Zenon
  <2> HIDE DEF K2, X2, info, f
  <2>7. \A k \in Replay \ {j} : ~Active(job[k]) /\ done[k] = <<>>
    BY <1>1, <1>3, Zenon DEF OneReplay, Active
  <2>8. AllRight(F, disk, disturbed)
    BY <1>3, Zenon DEF DoneRight
  <2>9. AllRight(G, K2, X2) /\ AllRight(<<>>, K2, X2)
    <3>1. AllRight(<<>>, K2, X2)
      BY DEF AllRight
    <3> QED BY <1>4, <2>2, <2>4, <2>8, <3>1, AppendRight, Zenon
  <2>10. /\ G \in Seq(FileOf) /\ G # <<>>
         /\ Len(G) = Len(F) + 1 /\ Len(F) \in Nat /\ G[Len(F) + 1] = info
         /\ \A i \in 1 .. Len(F) : G[i] = F[i]
    BY <1>4, <2>2
  <2> HIDE DEF F, G
  <2>11. /\ job \in [Replay -> JobStates] /\ done \in [Replay -> Seq(FileOf)]
         /\ fset' = fset /\ at' = at /\ haveHashes' = haveHashes
    BY <1>1, <1>3, Zenon DEF ReplayTypes, prepareVars
  <2>12. /\ job'[j] = s /\ done'[j] = G
         /\ \A k \in Replay \ {j} : job'[k] = job[k] /\ done'[k] = done[k]
    BY <2>5, <2>6, <2>11, Zenon
  <2>13. ReplayTypes'
    <3>1. job' \in [Replay -> JobStates] /\ done' \in [Replay -> Seq(FileOf)]
      BY <2>5, <2>6, <2>10, <2>11, Zenon DEF JobStates
    <3>2. \A k \in Replay : (job'[k] = "prepare" => job[k] = "prepare")
                            /\ (job'[k] = "reread" =>
                                  done'[k] # <<>> /\ done'[k][Len(done'[k])].val # 0)
      <4>1. s = "reread" => G # <<>> /\ G[Len(G)].val # 0
        BY <2>5, <2>10, Zenon
      <4>2. ASSUME NEW k \in Replay, k = j
            PROVE  /\ job'[k] # "prepare"
                   /\ (job'[k] = "reread" => done'[k] # <<>> /\ done'[k][Len(done'[k])].val # 0)
        BY <2>12, <4>1, <4>2, Zenon
      <4>3. ASSUME NEW k \in Replay, k # j
            PROVE  job'[k] = job[k] /\ done'[k] = done[k]
        BY <2>12, <4>3, Zenon
      <4> QED BY <1>3, <4>2, <4>3, Zenon DEF ReplayTypes
    <3> QED BY <1>3, <2>4, <2>11, <3>1, <3>2, Zenon DEF ReplayTypes
  <2>14. CacheTypes'
    BY <1>1, <1>2, <1>3, <2>4, Zenon DEF Types, CacheTypes, X2
  <2>15. OneReplay' /\ DoneRight'
    <3>1. \A k \in Replay : k = j \/ (done'[k] = <<>> /\ ~Active(job'[k]))
      BY <2>7, <2>12, Zenon
    <3>2. \A k \in Replay : AllRight(done'[k], K2, X2)
      BY <2>9, <2>12, <3>1, Zenon
    <3>3. Active(job'[j])
      BY <2>12, Zenon DEF Active
    <3> QED BY <3>1, <3>2, <3>3, Zenon DEF OneReplay, DoneRight, K2, X2
  <2>16. Pending \subseteq Pending' /\ info.path \in Pending'
    <3>1. \A i \in 0 + 1 .. Len(F) : i \in 0 + 1 .. Len(G) /\ G[i] = F[i]
      BY <2>10
    <3>2. Len(F) + 1 \in 0 + 1 .. Len(G)
      BY <2>10
    <3>3. Coming(F, 0) \subseteq Coming(G, 0) /\ info.path \in Coming(G, 0)
      BY <2>3, <2>10, <3>1, <3>2, Zenon DEF Coming
    <3>4. Coming(<<>>, 0) = {}
      BY DEF Coming
    <3>5. Pending \subseteq Coming(F, 0)
      BY <2>7, <3>4, Zenon DEF Pending, F
    <3>6. \A p \in Coming(G, 0) : p \in Path
      BY Zenon DEF Coming
    <3>7. Pending' = {p \in Path : \E k \in Replay : p \in Coming(done'[k], 0)}
      BY Zenon DEF Pending
    <3> QED BY <2>12, <3>3, <3>5, <3>6, <3>7, Zenon
  <2>17. Followed'
    <3> DEFINE P2 == Pending'
    <3>1. Pending \subseteq P2 /\ info.path \in P2 /\ info.path \in Path
      BY <2>3, <2>16, Zenon
    <3> HIDE DEF P2
    <3>2. ASSUME NEW p \in Path \ stale PROVE Follows(cache, K2, P2, p)
      <4>1. Follows(cache, disk, Pending, p)
        BY <1>3, Zenon DEF Followed
      <4> QED BY <2>4, <3>1, <4>1, FollowsReplay, Zenon
    <3> QED BY <1>1, <1>2, <1>3, <3>2, Zenon DEF Followed, K2, P2
  <2> QED
    BY <1>2, <2>4, <2>13, <2>14, <2>15, <2>17, Zenon DEF Inv, Types, Following, K2
<1> QED
  BY <1>6, <1>7, Zenon DEF replayFile

-----------------------------------------------------------------------------
(* The last file's stat is read again: it is the one on disk. *)
LEMMA RereadRight ==
  ASSUME NEW F \in Seq(FileOf), F # <<>>, NEW K, NEW X, AllRight(F, K, X),
         F[Len(F)].val # 0, K[F[Len(F)].path].val \in Nat,
         NEW G, G = [F EXCEPT ![Len(F)].val = K[F[Len(F)].path].val]
  PROVE  /\ G \in Seq(FileOf) /\ AllRight(G, K, X)
         /\ Coming(G, 0) = Coming(F, 0)
<1> DEFINE n == Len(F)
           f == F[n]
           v == K[f.path].val
           g == [path |-> f.path, val |-> v, hash |-> f.hash, names |-> f.names]
<1>1. n \in 1 .. Len(F) /\ n \in Nat /\ f \in FileOf
  OBVIOUS
<1>2. f \in [path : Path, val : Nat, hash : Hashes, names : SUBSET Path]
  BY <1>1, Zenon DEF FileOf
<1>3. v \in Nat /\ f.val # 0
  BY Zenon
<1>4. G = [F EXCEPT ![n] = [f EXCEPT !.val = v]]
  OBVIOUS
<1> HIDE DEF f, v
<1>5. [f EXCEPT !.val = v] = g
  BY <1>2
<1>6. g \in FileOf /\ g.path = f.path /\ g.val = v /\ g.hash = f.hash /\ g.names = f.names
  <2>1. g \in [path : Path, val : Nat, hash : Hashes, names : SUBSET Path]
    BY <1>2, <1>3
  <2>2. g.path = f.path /\ g.val = v /\ g.hash = f.hash /\ g.names = f.names
    OBVIOUS
  <2>3. f.names \subseteq Children(f.path) \/ (f.names = NoNames /\ f.path \in Dirs)
    BY <1>1, Zenon DEF FileOf
  <2> HIDE DEF g
  <2> QED BY <2>1, <2>2, <2>3, Zenon DEF FileOf
<1> HIDE DEF g
<1>7. G = [F EXCEPT ![n] = g]
  BY <1>4, <1>5, Zenon
<1>8. /\ G \in Seq(FileOf) /\ Len(G) = n /\ G[n] = g
      /\ \A i \in 1 .. n : i # n => G[i] = F[i]
  BY <1>1, <1>6, <1>7
<1>9. \A i \in 1 .. n : G[i].path = F[i].path
  <2>1. ASSUME NEW i \in 1 .. n PROVE G[i].path = F[i].path
    <3>1. CASE i = n
      BY <1>6, <1>8, <3>1, Zenon DEF f
    <3>2. CASE i # n
      BY <1>8, <3>2, Zenon
    <3> QED BY <3>1, <3>2, Zenon
  <2> QED BY <2>1, Zenon
<1>10. ASSUME NEW i \in 0 .. n PROVE Coming(G, i) = Coming(F, i)
  <2>1. \A k \in i + 1 .. n : k \in 1 .. n
    BY <1>1
  <2>2. \A k \in i + 1 .. n : G[k].path = F[k].path
    BY <1>9, <2>1, Zenon
  <2> QED BY <1>8, <2>2, Zenon DEF Coming, n
<1>11. ASSUME NEW i \in 1 .. n
       PROVE  /\ G[i].path \in Coming(G, i) \/ InfoRight(G[i], K, X)
              /\ NamesRight(G[i], Coming(G, i), K, X)
  <2>0. i \in 0 .. n /\ n \in 0 .. n
    BY <1>1
  <2>1. /\ F[i].path \in Coming(F, i) \/ InfoRight(F[i], K, X)
        /\ NamesRight(F[i], Coming(F, i), K, X) /\ Coming(G, i) = Coming(F, i)
    BY <1>10, <2>0, Zenon DEF AllRight, n
  <2>2. CASE i # n
    BY <1>8, <2>1, <2>2, Zenon
  <2>3. CASE i = n
    <3>1. Coming(F, n) = {}
      BY <1>1, ComingEnds, Zenon DEF n
    <3>2. InfoRight(f, K, X) /\ NamesRight(f, {}, K, X)
      BY <2>1, <2>3, <3>1, Zenon DEF f
    <3>3. ExistsRight(g, K, X)
      BY <1>6, Zenon DEF ExistsRight, There, v
    <3>4. v # 0 => ValueRight(g, f.path, K) \/ f.path \in X
      BY <1>3, <1>6, <3>2, Zenon DEF InfoRight, ValueRight, There, v
    <3>5. InfoRight(g, K, X)
      BY <1>6, <3>3, <3>4, Zenon DEF InfoRight
    <3>6. NamesRight(g, {}, K, X)
      BY <1>3, <1>6, <3>2, Zenon DEF NamesRight
    <3> QED BY <1>8, <2>1, <2>3, <3>1, <3>5, <3>6, Zenon
  <2> QED BY <2>2, <2>3, Zenon
<1>12. AllRight(G, K, X)
  BY <1>8, <1>11, Zenon DEF AllRight
<1>13. 0 \in 0 .. n
  BY <1>1
<1> QED
  BY <1>8, <1>10, <1>12, <1>13, Zenon

(* The stat of what was written is read again. *)
LEMMA RereadInv ==
  ASSUME Inv, NEW j \in Replay, reread(j)
  PROVE  Inv'
<1> DEFINE F == done[j]
           n == Len(F)
           G == [F EXCEPT ![n].val = disk[F[n].path].val]
<1>1. /\ job[j] = "reread" /\ job' = [job EXCEPT ![j] = "disk"]
      /\ done' = [done EXCEPT ![j][n].val = disk[F[n].path].val]
      /\ fset' = fset /\ at' = at /\ haveHashes' = haveHashes /\ newFiles' = newFiles
      /\ UNCHANGED entryVars /\ UNCHANGED diskVars /\ disk' = disk
      /\ stale' = stale /\ disturbed' = disturbed
  BY Zenon DEF reread, prepareVars, diskVars, historyVars
<1>2. Types /\ ReplayTypes /\ OneReplay /\ DoneRight /\ Followed /\ DiskTypes
  BY Zenon DEF Inv, Types, Following
<1>3. /\ GetTypes' /\ Lookups' /\ cache' = cache /\ CacheOf(cache') /\ busy' \in SUBSET Path
      /\ DiskTypes'
  BY <1>1, <1>2, EntriesUnchanged, DiskTypesStay, Zenon
<1>4. /\ F \in Seq(FileOf) /\ F # <<>> /\ AllRight(F, disk, disturbed)
      /\ F[n].val # 0
  BY <1>1, <1>2, Zenon DEF ReplayTypes, DoneRight
<1>5. disk[F[n].path].val \in Nat
  <2>1. F[n] \in FileOf
    BY <1>4
  <2>2. F[n].path \in Path
    BY <2>1, Zenon DEF FileOf
  <2>3. disk[F[n].path] \in [val : Nat, hash : Hashes]
    BY <1>2, <2>2, Zenon DEF DiskTypes
  <2> QED BY <2>3
<1>6. done \in [Replay -> Seq(FileOf)] /\ job \in [Replay -> JobStates]
  BY <1>2, Zenon DEF ReplayTypes
<1>7. done' = [done EXCEPT ![j] = G]
  BY <1>1, <1>6, Zenon
<1>8. /\ G \in Seq(FileOf) /\ AllRight(G, disk, disturbed) /\ Coming(G, 0) = Coming(F, 0)
  <2>1. G = [F EXCEPT ![Len(F)].val = disk[F[Len(F)].path].val]
    BY Zenon
  <2> HIDE DEF G
  <2> QED BY <1>4, <1>5, <2>1, RereadRight, Zenon
<1> HIDE DEF G
<1>9. /\ job'[j] = "disk" /\ done'[j] = G
      /\ \A k \in Replay \ {j} : job'[k] = job[k] /\ done'[k] = done[k]
  BY <1>1, <1>6, <1>7, Zenon
<1>10. ReplayTypes'
  <2>1. job' \in [Replay -> JobStates] /\ done' \in [Replay -> Seq(FileOf)]
    BY <1>1, <1>6, <1>7, <1>8, Zenon DEF JobStates
  <2>2. \A k \in Replay : job'[k] \in {"prepare", "reread"} => job'[k] = job[k] /\ done'[k] = done[k]
    BY <1>9, Zenon
  <2> QED BY <1>1, <1>2, <2>1, <2>2, Zenon DEF ReplayTypes
<1>11. CacheTypes'
  BY <1>1, <1>2, <1>3, Zenon DEF Types, CacheTypes
<1>12. \A k \in Replay : /\ Active(job'[k]) <=> Active(job[k])
                         /\ k = j \/ done'[k] = done[k]
  BY <1>1, <1>9, Zenon DEF Active
<1>13. OneReplay'
  BY <1>1, <1>2, <1>12, Zenon DEF OneReplay, Active
<1>14. DoneRight'
  BY <1>1, <1>2, <1>8, <1>9, <1>12, Zenon DEF DoneRight
<1>15. Pending' = Pending
  <2>1. \A k \in Replay : Coming(done'[k], 0) = Coming(done[k], 0)
    BY <1>8, <1>9, <1>12, Zenon
  <2>2. Pending' = {p \in Path : \E k \in Replay : p \in Coming(done'[k], 0)}
    BY Zenon DEF Pending
  <2> QED BY <2>1, <2>2, Zenon DEF Pending
<1>16. Followed' /\ Tree(disk')
  BY <1>1, <1>2, <1>3, <1>15, Zenon DEF Followed, Inv, Following
<1> QED
  BY <1>3, <1>10, <1>11, <1>13, <1>14, <1>16, Zenon DEF Inv, Types, Following

(* The cache goes over the replay's files. *)
LEMMA ReplayUpdateInv ==
  ASSUME Inv, NEW j \in Replay, replayUpdate(j)
  PROVE  Inv'
<1> DEFINE F == done[j]
<1>1. /\ job[j] = "disk" /\ Update(F)
      /\ job' = [job EXCEPT ![j] = "done"]
      /\ fset' = [fset EXCEPT ![j] = <<>>] /\ done' = [done EXCEPT ![j] = <<>>]
      /\ haveHashes' = [haveHashes EXCEPT ![j] = [h \in Contents |-> 0]]
      /\ newFiles' = [newFiles EXCEPT ![j] = [h \in Contents |-> <<>>]]
      /\ stale' = {p \in stale \cup disturbed \cup Lost(F) : Wrong(cache', p)}
      /\ disturbed' = {} /\ at' = at /\ target' = target /\ level' = level /\ got' = got
      /\ UNCHANGED diskVars /\ disk' = disk
  BY Zenon DEF replayUpdate, diskVars
<1>2. Types /\ ReplayTypes /\ OneReplay /\ DoneRight /\ Followed /\ Tree(disk)
  BY Zenon DEF Inv, Types, Following
<1>3. F \in Seq(FileOf) /\ AllRight(F, disk, disturbed)
  BY <1>2, Zenon DEF ReplayTypes, DoneRight
<1>4. /\ CacheOf(cache') /\ busy' \in SUBSET Path /\ GetTypes' /\ Lookups'
      /\ cache' = Updated(Here, F)[Len(F)].cache
  BY <1>1, <1>3, UpdateGets, Zenon
<1>5. DiskTypes'
  BY <1>1, <1>2, DiskTypesStay, Zenon
<1>6. CacheTypes'
  <2>1. stale' \in SUBSET Path /\ disturbed' \in SUBSET Path
    BY <1>1, <1>2, Zenon DEF Types, CacheTypes, Lost
  <2> QED BY <1>4, <2>1, Zenon DEF CacheTypes
<1>7. /\ job \in [Replay -> JobStates] /\ done \in [Replay -> Seq(FileOf)]
      /\ fset \in [Replay -> FileSets \cup {<<>>}] /\ at \in [Replay -> Nat]
      /\ haveHashes \in [Replay -> [Contents -> Nat]]
      /\ newFiles \in [Replay -> [Contents -> Seq(Hashes)]]
  BY <1>2, Zenon DEF ReplayTypes
<1>8. /\ job'[j] = "done" /\ done'[j] = <<>>
      /\ \A k \in Replay \ {j} : job'[k] = job[k] /\ done'[k] = done[k] /\ fset'[k] = fset[k]
  BY <1>1, <1>7, Zenon
<1>9. ReplayTypes'
  <2>1. job' \in [Replay -> JobStates] /\ fset' \in [Replay -> FileSets \cup {<<>>}]
    BY <1>1, <1>7, Zenon DEF JobStates
  <2>2. done' \in [Replay -> Seq(FileOf)]
    BY <1>1, <1>7
  <2>3. haveHashes' \in [Replay -> [Contents -> Nat]]
    BY <1>1, <1>7
  <2>4. newFiles' \in [Replay -> [Contents -> Seq(Hashes)]]
    <3> DEFINE none == [h \in Contents |-> <<>>]
    <3>1. none \in [Contents -> Seq(Hashes)]
      OBVIOUS
    <3>2. newFiles' = [newFiles EXCEPT ![j] = none]
      BY <1>1, Zenon
    <3> HIDE DEF none
    <3> QED BY <1>7, <3>1, <3>2, Zenon
  <2>5. \A k \in Replay : job'[k] \in {"prepare", "reread"} =>
                             job'[k] = job[k] /\ done'[k] = done[k] /\ fset'[k] = fset[k]
    BY <1>8, Zenon
  <2> QED BY <1>1, <1>2, <1>7, <2>1, <2>2, <2>3, <2>4, <2>5, Zenon DEF ReplayTypes
<1>10. \A k \in Replay : done'[k] = <<>> /\ ~Active(job'[k]) /\ (k # j => done[k] = <<>>)
  BY <1>1, <1>2, <1>8, Zenon DEF OneReplay, Active
<1>11. Coming(<<>>, 0) = {}
  BY DEF Coming
<1>12. OneReplay' /\ DoneRight'
  <2>1. AllRight(<<>>, disk, {})
    BY DEF AllRight
  <2> QED BY <1>1, <1>10, <2>1, Zenon DEF OneReplay, DoneRight
<1>13. Pending' = {}
  <2>1. Pending' = {p \in Path : \E k \in Replay : p \in Coming(done'[k], 0)}
    BY Zenon DEF Pending
  <2> QED BY <1>10, <1>11, <2>1, Zenon
<1>14. Pending = Coming(F, 0)
  <2>1. \A p \in Coming(F, 0) : p \in Path
    BY Zenon DEF Coming
  <2> QED BY <1>10, <1>11, <2>1, Zenon DEF Pending
<1> DEFINE C == cache'
<1>15. CacheOf(C) /\ C = Updated(Here, F)[Len(F)].cache
  BY <1>4, Zenon
<1> HIDE DEF C
<1>16. ASSUME NEW p \in Path \ stale', C[p] # None
       PROVE  Follows(C, disk, {}, p) /\ ~Orphan(C, p)
  <2>1. p \in stale \cup disturbed \cup Lost(F) => ~Wrong(C, p)
    BY <1>1, <1>16, Zenon DEF C
  <2>2. CASE p \in stale \cup disturbed \cup Lost(F)
    <3>1. Right(C[p], p) /\ ~Orphan(C, p)
      BY <1>16, <2>1, <2>2, Zenon DEF Wrong
    <3> QED BY <1>2, <1>15, <1>16, <3>1, RightFollows, Zenon
  <2>3. CASE p \notin stale \cup disturbed \cup Lost(F)
    <3>1. Len(F) \in Nat
      BY <1>3
    <3>2. /\ \A i \in 0 .. Len(F) : ~Orphan(Updated(Here, F)[i].cache, p)
          /\ ~Orphan(C, p)
      BY <1>15, <2>3, <3>1, NotLost, Zenon
    <3>3. StateOf(Here, busy) /\ Here.cache = cache /\ busy \in SUBSET Path
      BY HereState, Zenon
    <3>4. Follows(cache, disk, Coming(F, 0), p)
      BY <1>2, <1>14, <2>3, Zenon DEF Followed
    <3>5. Follows(C, disk, {}, p)
      BY <1>3, <1>15, <2>3, <3>2, <3>3, <3>4, UpdatedFollows, Zenon
    <3> QED BY <3>2, <3>5, Zenon
  <2> QED BY <2>2, <2>3, Zenon
<1>17. Followed' /\ Tree(disk')
  <2>1. \A p \in Path \ stale' : Follows(C, disk, {}, p) /\ (C[p] # None => ~Orphan(C, p))
    BY <1>16, Zenon DEF Follows
  <2> QED BY <1>1, <1>2, <1>13, <2>1, Zenon DEF Followed, C
<1> QED
  BY <1>4, <1>5, <1>6, <1>9, <1>12, <1>17, Zenon DEF Inv, Types, Following

-----------------------------------------------------------------------------
(* How many of the files after the first n, up to m, have a hash. *)
Count(fs, n, m, h) == Cardinality({i \in n + 1 .. m : fs[i].hash = h})

(* Files of a hash are counted. *)
LEMMA Counted ==
  ASSUME NEW fs, NEW n \in Nat, NEW m \in Nat, NEW h
  PROVE  Count(fs, n, m, h) \in Nat
<1> DEFINE S == n + 1 .. m
           T == {i \in S : fs[i].hash = h}
<1>1. IsFiniteSet(S)
  BY FS_Interval
<1>2. IsFiniteSet(T)
  <2> HIDE DEF S
  <2> QED BY <1>1, FS_Subset, Zenon
<1> QED
  BY <1>2, FS_CardinalityType, Zenon DEF Count

(* Sequences are joined. *)
LEMMA Joined ==
  ASSUME NEW S, NEW s \in Seq(S), NEW t \in Seq(S)
  PROVE  s \o t \in Seq(S)
  OBVIOUS

(* Preparing files moves a replay on, before it is queued; nothing is      *)
(* written or stored.                                                      *)
LEMMA PrepareInv ==
  ASSUME Inv, NEW j \in Replay, NEW fs \in FileSets, NEW n \in Nat, n <= Len(fs),
         NEW H \in [Contents -> Nat], Prepare(j, fs, n, H), job[j] \in {"idle", "prepare"},
         fset' \in [Replay -> FileSets \cup {<<>>}], fset'[j] = fs,
         \A k \in Replay \ {j} : fset'[k] = fset[k]
  PROVE  DiskTypes' /\ CacheTypes' /\ ReplayTypes' /\ Following'
<1>0. Len(fs) \in Nat
  <2>1. fs \in Seq([path : Path, del : BOOLEAN, hash : Hashes, names : SUBSET Path])
    BY FileSetsAssumption, Zenon
  <2> QED BY <2>1
<1> DEFINE files(m, h) == Count(fs, n, m, h)
           have(m, h) == IF m # Len(fs) /\ H[h] > files(m, h) THEN H[h] - files(m, h) ELSE 0
           new(m, h) == newFiles[j][h] \o [i \in 1 .. files(m, h) - H[h] |-> h]
<1>1. PICK m \in n .. Len(fs) :
        /\ job' = [job EXCEPT ![j] = IF m = Len(fs) THEN "queued" ELSE "prepare"]
        /\ at' = [at EXCEPT ![j] = IF m = Len(fs) THEN 0 ELSE m]
        /\ haveHashes' = [haveHashes EXCEPT ![j] = [h \in Contents |-> have(m, h)]]
        /\ newFiles' = [newFiles EXCEPT ![j] = [h \in Contents |-> new(m, h)]]
  BY Zenon DEF Prepare, Count
<1>2. /\ done' = done /\ cache' = cache /\ busy' = busy /\ UNCHANGED diskVars /\ disk' = disk
      /\ stale' = stale /\ disturbed' = disturbed
  BY Zenon DEF Prepare, diskVars, historyVars
<1>3. Types /\ ReplayTypes /\ Following
  BY Zenon DEF Inv, Types
<1>4. DiskTypes' /\ CacheTypes'
  BY <1>2, <1>3, DiskTypesStay, Zenon DEF Types, CacheTypes
<1>5. m \in Nat /\ (m # Len(fs) => m + 1 \in 1 .. Len(fs))
  BY <1>0
<1>6. /\ job \in [Replay -> JobStates] /\ at \in [Replay -> Nat]
      /\ haveHashes \in [Replay -> [Contents -> Nat]]
      /\ newFiles \in [Replay -> [Contents -> Seq(Hashes)]]
  BY <1>3, Zenon DEF ReplayTypes
<1>7. \A h \in Contents : files(m, h) \in Nat /\ H[h] \in Nat
  <2>1. ASSUME NEW h \in Contents PROVE files(m, h) \in Nat
    BY <1>5, Counted, Zenon
  <2> HIDE DEF files
  <2>2. \A h \in Contents : H[h] \in Nat
    BY Zenon
  <2> QED BY <2>1, <2>2, Zenon
<1> HIDE DEF files
<1>8. haveHashes' \in [Replay -> [Contents -> Nat]]
  <2>1. \A h \in Contents : have(m, h) \in Nat
    BY <1>7
  <2> HIDE DEF have
  <2>2. [h \in Contents |-> have(m, h)] \in [Contents -> Nat]
    BY <2>1, Zenon
  <2> QED BY <1>1, <1>6, <2>2, Zenon
<1>9. newFiles' \in [Replay -> [Contents -> Seq(Hashes)]]
  <2>1. ASSUME NEW h \in Contents PROVE new(m, h) \in Seq(Hashes)
    <3> DEFINE k == files(m, h) - H[h]
               more == [i \in 1 .. k |-> h]
    <3>1. newFiles[j][h] \in Seq(Hashes) /\ h \in Hashes
      BY <1>6, Zenon DEF Hashes
    <3>2. k \in Int
      BY <1>7
    <3> HIDE DEF k
    <3>3. more \in Seq(Hashes)
      <4>1. CASE k \in Nat
        BY <3>1, <4>1
      <4>2. CASE k < 0
        <5>1. 1 .. k = {} /\ 1 .. 0 = {}
          BY <3>2, <4>2
        <5>2. more = [i \in 1 .. 0 |-> h]
          BY <5>1, Zenon
        <5>3. [i \in 1 .. 0 |-> h] \in Seq(Hashes)
          OBVIOUS
        <5> QED BY <5>2, <5>3, Zenon
      <4> QED BY <3>2, <4>1, <4>2
    <3>4. new(m, h) = newFiles[j][h] \o more
      BY Zenon DEF k
    <3> HIDE DEF more
    <3> QED BY <3>1, <3>3, <3>4, Joined, Zenon
  <2> HIDE DEF new
  <2>2. [h \in Contents |-> new(m, h)] \in [Contents -> Seq(Hashes)]
    BY <2>1, Zenon
  <2> QED BY <1>1, <1>6, <2>2, Zenon
<1>10. /\ job'[j] \in {"queued", "prepare"} /\ (job'[j] = "prepare" => at'[j] = m /\ m # Len(fs))
       /\ \A k \in Replay \ {j} : job'[k] = job[k] /\ at'[k] = at[k]
       /\ job' \in [Replay -> JobStates] /\ at' \in [Replay -> Nat]
  <2>1. CASE m = Len(fs)
    <3>1. job' = [job EXCEPT ![j] = "queued"] /\ at' = [at EXCEPT ![j] = 0]
      BY <1>1, <2>1, Zenon
    <3>2. 0 \in Nat
      OBVIOUS
    <3> QED BY <1>6, <3>1, <3>2, Zenon DEF JobStates
  <2>2. CASE m # Len(fs)
    <3>1. job' = [job EXCEPT ![j] = "prepare"] /\ at' = [at EXCEPT ![j] = m]
      BY <1>1, <2>2, Zenon
    <3> QED BY <1>5, <1>6, <2>2, <3>1, Zenon DEF JobStates
  <2> QED BY <2>1, <2>2, Zenon
<1>11. ReplayTypes'
  <2>1. ASSUME NEW k \in Replay, job'[k] = "prepare" PROVE at'[k] + 1 \in 1 .. Len(fset'[k])
    <3>1. CASE k = j
      <4>1. at'[k] = m /\ m + 1 \in 1 .. Len(fs) /\ fset'[k] = fs
        BY <1>5, <1>10, <2>1, <3>1, Zenon
      <4> QED BY <4>1, Zenon
    <3>2. CASE k # j
      <4>1. job[k] = "prepare" /\ at'[k] = at[k] /\ fset'[k] = fset[k]
        BY <1>10, <2>1, <3>2, Zenon
      <4>2. at[k] + 1 \in 1 .. Len(fset[k])
        BY <1>3, <4>1, Zenon DEF ReplayTypes
      <4> QED BY <4>1, <4>2, Zenon
    <3> QED BY <3>1, <3>2, Zenon
  <2>2. \A k \in Replay : job'[k] = "reread" => job[k] = "reread"
    BY <1>10, Zenon
  <2>3. \A k \in Replay : job'[k] = "reread" => done'[k] # <<>> /\ done'[k][Len(done'[k])].val # 0
    BY <1>2, <1>3, <2>2, Zenon DEF ReplayTypes
  <2> QED BY <1>2, <1>3, <1>8, <1>9, <1>10, <2>1, <2>3, Zenon DEF ReplayTypes
<1>12. \A k \in Replay : Active(job'[k]) <=> Active(job[k])
  BY <1>10, Zenon DEF Active
<1> QED
  BY <1>2, <1>3, <1>4, <1>11, <1>12, FollowingStays, Zenon

(* A task's file set arrives. *)
LEMMA ReplayInv ==
  ASSUME Inv, NEW j \in Replay, NEW fs \in FileSets, replay(j, fs)
  PROVE  Inv'
<1>1. /\ job[j] = "idle" /\ fset' = [fset EXCEPT ![j] = fs] /\ Prepare(j, fs, 0, haveHashes[j])
      /\ pc' = pc /\ target' = target /\ got' = got /\ level' = level
      /\ cache' = cache /\ busy' = busy
  BY Zenon DEF replay, Prepare
<1>2. fset \in [Replay -> FileSets \cup {<<>>}] /\ haveHashes[j] \in [Contents -> Nat]
  BY Zenon DEF Inv, Types, ReplayTypes
<1>3. /\ fset' \in [Replay -> FileSets \cup {<<>>}] /\ fset'[j] = fs
      /\ \A k \in Replay \ {j} : fset'[k] = fset[k]
  BY <1>1, <1>2, Zenon
<1>4. 0 \in Nat /\ 0 <= Len(fs)
  <2>1. fs \in Seq([path : Path, del : BOOLEAN, hash : Hashes, names : SUBSET Path])
    BY FileSetsAssumption, Zenon
  <2> QED BY <2>1
<1>5. DiskTypes' /\ CacheTypes' /\ ReplayTypes' /\ Following'
  BY <1>1, <1>2, <1>3, <1>4, PrepareInv, Zenon
<1>6. GetTypes' /\ Lookups'
  BY <1>1, EntriesUnchanged, Zenon DEF entryVars, getVars
<1> QED
  BY <1>5, <1>6, Zenon DEF Inv, Types

(* A deletion has been looked up, and the replay goes on. *)
LEMMA ReplayGotInv ==
  ASSUME Inv, NEW j \in Replay, replayGot(j)
  PROVE  Inv'
<1> DEFINE a == got[j].hash
           H == [h \in Contents |-> IF h = a THEN haveHashes[j][h] + 1 ELSE haveHashes[j][h]]
<1>1. /\ job[j] = "prepare" /\ pc[j] = "done"
      /\ pc' = [pc EXCEPT ![j] = "idle"] /\ target' = [target EXCEPT ![j] = Root]
      /\ got' = [got EXCEPT ![j] = None] /\ Prepare(j, fset[j], at[j] + 1, H)
      /\ fset' = fset /\ level' = level /\ cache' = cache /\ busy' = busy
  BY Zenon DEF replayGot, Prepare
<1>2. /\ j \in Reader /\ at[j] \in Nat /\ at[j] + 1 \in 1 .. Len(fset[j])
      /\ fset \in [Replay -> FileSets \cup {<<>>}] /\ haveHashes[j] \in [Contents -> Nat]
  BY <1>1, CacheAssumption, Zenon DEF Inv, Types, ReplayTypes
<1>3. fset[j] \in FileSets
  BY <1>2, NextFile, Zenon
<1>4. H \in [Contents -> Nat]
  <2> HIDE DEF a
  <2> QED BY <1>2
<1> HIDE DEF a, H
<1>5. Len(fset[j]) \in Nat
  <2>1. fset[j] \in Seq([path : Path, del : BOOLEAN, hash : Hashes, names : SUBSET Path])
    BY <1>3, FileSetsAssumption, Zenon
  <2> QED BY <2>1
<1>6. at[j] + 1 \in Nat /\ at[j] + 1 <= Len(fset[j])
  BY <1>2, <1>5
<1>7. DiskTypes' /\ CacheTypes' /\ ReplayTypes' /\ Following'
  BY <1>1, <1>2, <1>3, <1>4, <1>6, PrepareInv, Zenon
<1>8. GetTypes
  BY Zenon DEF Inv, Types
<1>9. GetTypes'
  <2>1. Root \in Path /\ None \in Entry
    BY TreeAssumption, Zenon DEF Path, None, Entry, Hashes
  <2>2. pc' \in [Reader -> States] /\ target' \in [Reader -> Path] /\ got' \in [Reader -> Entry]
    BY <1>1, <1>8, <2>1, Zenon DEF GetTypes, States
  <2>3. \A s \in Reader : pc'[s] = "fill" => pc[s] = "fill" /\ got'[s] = got[s]
    BY <1>1, <1>2, <1>8 DEF GetTypes
  <2> QED BY <1>1, <1>8, <2>2, <2>3, Zenon DEF GetTypes
<1>10. Lookups'
  <2>1. \A s \in Reader : /\ pc'[s] = "wait" => pc[s] = "wait"
                          /\ pc[s] \in {"getter", "fill"} => pc'[s] = pc[s]
    BY <1>1, <1>8 DEF GetTypes
  <2>2. \A q \in busy : cache[q] = None /\ Fetched(q)'
    BY <1>1, <2>1, Zenon DEF Inv, Lookups, Fetched
  <2> QED BY <1>1, <2>1, <2>2, Zenon DEF Inv, Lookups
<1> QED
  BY <1>7, <1>9, <1>10, Zenon DEF Inv, Types

(* A replay looks up what it deletes. *)
LEMMA ReplayGetInv ==
  ASSUME Inv, NEW j \in Replay, replayGet(j)
  PROVE  Inv'
<1>1. /\ job[j] = "prepare" /\ localGet(j, fset[j][at[j] + 1].path)
      /\ UNCHANGED <<diskVars, replayVars, historyVars>>
  BY Zenon DEF replayGet
<1>2. j \in Reader /\ at[j] + 1 \in 1 .. Len(fset[j])
  BY <1>1, CacheAssumption, Zenon DEF Inv, Types, ReplayTypes
<1>3. fset[j][at[j] + 1].path \in Path
  BY <1>2, NextFile, Zenon DEF FileTypes
<1> QED
  BY <1>1, <1>2, <1>3, LocalGetInv, Zenon

-----------------------------------------------------------------------------
(* Steps of nobody. *)
LEMMA StutterInv ==
  ASSUME Inv, UNCHANGED vars
  PROVE  Inv'
<1>1. /\ UNCHANGED entryVars /\ UNCHANGED diskVars /\ UNCHANGED replayVars
      /\ stale' = stale /\ disturbed' = disturbed /\ disk' = disk /\ job' = job /\ done' = done
  BY Zenon DEF vars, diskVars, replayVars, historyVars
<1>2. Types
  BY Zenon DEF Inv
<1>3. GetTypes' /\ Lookups' /\ cache' = cache /\ CacheOf(cache') /\ busy' \in SUBSET Path
  BY <1>1, EntriesUnchanged, Zenon
<1>4. DiskTypes' /\ ReplayTypes' /\ CacheTypes'
  BY <1>1, <1>2, <1>3, DiskTypesStay, ReplayTypesStay, Zenon DEF Types, CacheTypes
<1>5. Following'
  BY <1>1, <1>3, FollowingStays, Zenon DEF Inv
<1> QED
  BY <1>3, <1>4, <1>5, Zenon DEF Inv, Types

(* The cache, the disk and the replay at work go together, whatever        *)
(* lookups, replays, refreshes and changes by others come in what order.   *)
THEOREM Invariance == Spec => []Inv
<1>1. Inv /\ [Next]_vars => Inv'
  <2> SUFFICES ASSUME Inv, [Next]_vars PROVE Inv'
    BY Zenon
  <2>1. ASSUME NEW r \in Reader, get(r) PROVE Inv'
    <3>1. Elsewhere
      BY <2>1, Zenon DEF get, Elsewhere
    <3> QED BY <2>1, <3>1, UnsafeGetInv, GetterInv, FillInv, Zenon DEF get
  <2>2. ASSUME NEW r \in Reader, NEW t \in Looked, lookup(r, t) PROVE Inv'
    <3>1. t \in Path /\ localGet(r, t) /\ UNCHANGED <<diskVars, replayVars, historyVars>>
      BY <2>2, CacheAssumption, Zenon DEF lookup
    <3> QED BY <3>1, LocalGetInv, Zenon
  <2>3. ASSUME NEW j \in Replay, NEW fs \in FileSets, replay(j, fs) PROVE Inv'
    BY <2>3, ReplayInv, Zenon
  <2>4. ASSUME NEW j \in Replay, replayGet(j) PROVE Inv'
    BY <2>4, ReplayGetInv, Zenon
  <2>5. ASSUME NEW j \in Replay, replayGot(j) PROVE Inv'
    BY <2>5, ReplayGotInv, Zenon
  <2>6. ASSUME NEW j \in Replay, replayFile(j) PROVE Inv'
    BY <2>6, ReplayFileInv, Zenon
  <2>7. ASSUME NEW j \in Replay, reread(j) PROVE Inv'
    BY <2>7, RereadInv, Zenon
  <2>8. ASSUME NEW j \in Replay, replayUpdate(j) PROVE Inv'
    BY <2>8, ReplayUpdateInv, Zenon
  <2>9. CASE Refresh
    BY <2>9, RefreshInv, Zenon
  <2>10. ASSUME NEW p \in Path, Edit(p) PROVE Inv'
    BY <2>10, EditInv, Zenon
  <2>11. CASE UNCHANGED vars
    BY <2>11, StutterInv, Zenon
  <2> QED
    BY <2>1, <2>2, <2>3, <2>4, <2>5, <2>6, <2>7, <2>8, <2>9, <2>10, <2>11, Zenon DEF Next
<1> QED
  BY <1>1, InitInv, PTL DEF Spec

(* Every variable keeps its type, and an entry lists only what can be in   *)
(* its directory: update's listing of a file goes to its own directory.    *)
THEOREM TypeCorrect == Spec => []TypeOK
<1>1. Inv => TypeOK
  <2> SUFFICES ASSUME Inv PROVE TypeOK
    BY Zenon
  <2>1. DiskTypes /\ CacheTypes /\ GetTypes /\ ReplayTypes
    BY Zenon DEF Inv, Types
  <2>2. cache \in [Path -> Entry] /\ \A p \in Path : cache[p].names \subseteq Children(p)
    BY <2>1, Zenon DEF CacheTypes, CacheOf, EntryOf
  <2> QED
    BY <2>1, <2>2, Zenon
    DEF TypeOK, DiskTypes, CacheTypes, GetTypes, ReplayTypes, States, JobStates
<1> QED
  BY <1>1, Invariance, PTL

(* What verify asserts of busy holds in every state: a path that is being  *)
(* fetched has no entry, although Update stores entries meanwhile.         *)
THEOREM FetchedIsNotCached == Spec => []BusyNotCached
<1>1. Inv => BusyNotCached
  BY Zenon DEF Inv, Lookups, BusyNotCached
<1> QED
  BY <1>1, Invariance, PTL

(* get's cond.Wait: whoever waits, waits for a path that another lookup is *)
(* fetching, and which will broadcast.                                     *)
THEOREM WaitersServed == Spec => []WaiterServed
<1>1. Inv => WaiterServed
  BY Zenon DEF Inv, Lookups, Fetched, WaiterServed
<1> QED
  BY <1>1, Invariance, PTL

(* Between replays an entry is what is on disk, and its directory has one, *)
(* but for what others changed where Refresh or a replay could not see it, *)
(* and for what Update discards.                                           *)
THEOREM CacheCoherent == Spec => []Coherent
<1>1. Inv => Coherent
  <2> SUFFICES ASSUME Inv, \A j \in Replay : job[j] \notin {"disk", "reread"},
                      NEW p \in Path \ stale, cache[p] # None
               PROVE  Right(cache[p], p) /\ ~Orphan(cache, p)
    BY Zenon DEF Coherent, Wrong
  <2>1. \A j \in Replay : done[j] = <<>>
    BY Zenon DEF Inv, Following, OneReplay, Active
  <2>2. Coming(<<>>, 0) = {}
    BY DEF Coming
  <2>3. Pending = {}
    BY <2>1, <2>2, Zenon DEF Pending
  <2>4. Follows(cache, disk, {}, p) /\ ~Orphan(cache, p)
    BY <2>3, Zenon DEF Inv, Following, Followed
  <2>5. CacheOf(cache) /\ Tree(disk)
    BY Zenon DEF Inv, Types, CacheTypes, Following
  <2> QED BY <2>4, <2>5, RightFollows, Zenon
<1> QED
  BY <1>1, Invariance, PTL
=============================================================================
