--------------------------- MODULE AttributeCache ---------------------------
(***************************************************************************)
(* The master's attribute cache and the disk below it: lookups that fetch  *)
(* from disk, replays of file sets, prepared by the tasks that have them   *)
(* and carried out by one goroutine (termite/master.go: replay,            *)
(* replayFileModifications), changes behind the master's back and Refresh. *)
(* The clients the changes are queued to are in AttrSync.                  *)
(*                                                                         *)
(* A path has a new stat whenever it is made, written or replaced, and a   *)
(* directory also when a name in it comes or goes.  The getter and Refresh *)
(* look at the disk in one step.  XAttrCache, where hashes are kept with   *)
(* the size and times they belong to, saves reading a file again: the hash *)
(* it gives is taken to be the one that reading gives.                     *)
(***************************************************************************)
EXTENDS CacheEntries, FiniteSets

CONSTANTS
  Contents,           \* of files, and their hashes
  Replay,             \* calls of Master.replay, which call get too
  FileSets,           \* the file sets they may have
  Looked,             \* the paths looked up
  MaxChanges,         \* bound on replays and changes by others, together
  MaxRefresh          \* bound on Refresh

Hashes == Contents \cup {NoHash}

ASSUME CacheAssumption ==
  /\ Replay \subseteq Reader /\ Looked \subseteq Path /\ NoHash \notin Contents
  /\ MaxChanges \in Nat /\ MaxRefresh \in Nat

(* Files that are not deleted have contents, directories may come without  *)
(* their names.  A path may come again: rm f f, on the master, deletes f   *)
(* twice.                                                                  *)
ASSUME FileSetsAssumption ==
  \A fs \in FileSets :
    /\ fs \in Seq([path : Path, del : BOOLEAN, hash : Hashes, names : SUBSET Path])
    /\ \A i \in 1 .. Len(fs) :
         /\ fs[i].hash \in Contents <=> fs[i].path \in Files /\ ~fs[i].del
         /\ \/ fs[i].names \subseteq Children(fs[i].path)
            \/ fs[i].names = NoNames /\ fs[i].path \in Dirs

VARIABLES
  disk,       \* stat, 0: does not exist, and contents of each path
  clock,      \* the last stat of each path
  job,        \* where each replay is
  fset,       \* its file set
  at,         \* how many of its files are prepared
  haveHashes, \* deleted files it can still use, by their hash
  delFileHashes, newFiles,
  done,       \* its files that are on disk, with their attributes
  stale,      \* history: paths whose entry may differ from the disk
  disturbed,  \* history: paths others changed under the replay at work
  changes, refreshes,
  crashed     \* log.Fatal or Panicf

diskVars == <<disk, clock>>
prepareVars == <<fset, at, haveHashes, delFileHashes>>
replayVars == <<job, prepareVars, newFiles, done>>
historyVars == <<stale, disturbed>>
boundVars == <<changes, refreshes>>
vars == <<entryVars, diskVars, replayVars, historyVars, boundVars, crashed>>

Exists(p) == disk[p].val # 0
Gone == [val |-> 0, hash |-> NoHash]

(* uncachedGetAttr. *)
Disk(p) ==
  IF ~Exists(p) THEN None
  ELSE [val |-> disk[p].val, hash |-> disk[p].hash, names |-> {c \in Children(p) : Exists(c)}]

HashOf(p) == IF p \in Files THEN Contents ELSE {NoHash}

Init ==
  /\ Empty
  /\ disk \in [Path -> [val : 0 .. 1, hash : Hashes]]
  /\ \A p \in Path : IF Exists(p) THEN disk[p].hash \in HashOf(p) ELSE disk[p] = Gone
  /\ Exists(Root) /\ \A p \in Path \ {Root} : Exists(p) => Exists(ParentOf[p])
  /\ clock = [p \in Path |-> disk[p].val]
  /\ job = [j \in Replay |-> "idle"]
  /\ fset = [j \in Replay |-> <<>>] /\ at = [j \in Replay |-> 0]
  /\ haveHashes = [j \in Replay |-> [h \in Contents |-> 0]]
  /\ delFileHashes = [j \in Replay |-> [p \in Path |-> NoHash]]
  /\ newFiles = [j \in Replay |-> [h \in Contents |-> <<>>]]
  /\ done = [j \in Replay |-> <<>>]
  /\ stale = {} /\ disturbed = {}
  /\ changes = 0 /\ refreshes = 0 /\ crashed = FALSE

(* An entry says what the disk says.  A directory's stat may be older than *)
(* its names: replays do not look at it again for each of them.            *)
Right(e, p) ==
  IF p \in Files THEN e.val = disk[p].val /\ e.hash = disk[p].hash
  ELSE Exists(p) /\ e.names = Disk(p).names

Wrong(C, p) == C[p] # None /\ (~Right(C[p], p) \/ Orphan(C, p))

-----------------------------------------------------------------------------
(* The getter looks at the disk, without the mutex. *)
getter(r) ==
  /\ pc[r] = "getter"
  /\ got' = [got EXCEPT ![r] = Disk(level[r])]
  /\ pc' = [pc EXCEPT ![r] = "fill"]
  /\ UNCHANGED <<target, level, cache, busy, stale>>

(* Its value may be older than the disk by now. *)
Fill(r) ==
  LET q == level[r]
      fresh == Right(got[r], q) /\ ~Orphan(cache', q) IN
  /\ store(r)
  /\ stale' = IF got[r] = None THEN stale ELSE IF fresh THEN stale \ {q} ELSE stale \cup {q}

get(r) ==
  /\ (unsafeGet(r) /\ UNCHANGED stale) \/ getter(r) \/ Fill(r)
  /\ UNCHANGED <<diskVars, replayVars, disturbed, boundVars, crashed>>

lookup(r, t) ==
  /\ r \notin Replay /\ localGet(r, t)
  /\ UNCHANGED <<diskVars, replayVars, historyVars, boundVars, crashed>>

-----------------------------------------------------------------------------
Change == changes < MaxChanges /\ changes' = changes + 1

(* A task's files can be what it saw: it deletes what is there, and makes  *)
(* what is not or writes a file.                                           *)
Legal(fs) ==
  \A i \in 1 .. Len(fs) :
    LET f == fs[i] IN
    IF f.del THEN Exists(f.path)
    ELSE f.path \in Dirs /\ f.names # NoNames => ~Exists(f.path)

(* The files after the first n and before the next deletion, or the end,   *)
(* are prepared: with H of each hash at hand, the others need temporary    *)
(* files from the content store.  Then the file set is queued for the      *)
(* clients, and waits for the goroutine.                                   *)
Prepare(j, fs, n, H) ==
  \E m \in n .. Len(fs) :
    LET files(h) == Cardinality({i \in n + 1 .. m : fs[i].hash = h})
        last == m = Len(fs) IN
    /\ \A i \in n + 1 .. m : ~fs[i].del
    /\ ~last => fs[m + 1].del
    /\ job' = [job EXCEPT ![j] = IF last THEN "queued" ELSE "prepare"]
    /\ at' = [at EXCEPT ![j] = IF last THEN 0 ELSE m]
    /\ haveHashes' = [haveHashes EXCEPT ![j] =
         [h \in Contents |-> IF ~last /\ H[h] > files(h) THEN H[h] - files(h) ELSE 0]]
    /\ newFiles' = [newFiles EXCEPT ![j] =
         [h \in Contents |-> newFiles[j][h] \o [i \in 1 .. files(h) - H[h] |-> h]]]
    /\ UNCHANGED <<done, cache, busy, level, diskVars, historyVars, refreshes, crashed>>

replay(j, fs) ==
  /\ Change /\ job[j] = "idle" /\ fs # <<>> /\ Legal(fs)
  /\ fset' = [fset EXCEPT ![j] = fs]
  /\ Prepare(j, fs, 0, haveHashes[j])
  /\ UNCHANGED <<delFileHashes, pc, target, got>>

(* A deletion is looked up, which may take a fetch or a wait: what has a   *)
(* hash can be used for a file with the same contents.                     *)
replayGet(j) ==
  /\ job[j] = "prepare"
  /\ localGet(j, fset[j][at[j] + 1].path)
  /\ UNCHANGED <<replayVars, diskVars, historyVars, boundVars, crashed>>

replayGot(j) ==
  LET p == fset[j][at[j] + 1].path
      a == got[j].hash
      H == [h \in Contents |-> IF h = a THEN haveHashes[j][h] + 1 ELSE haveHashes[j][h]] IN
  /\ job[j] = "prepare" /\ pc[j] = "done"
  /\ delFileHashes' = IF a = NoHash THEN delFileHashes ELSE [delFileHashes EXCEPT ![j][p] = a]
  /\ pc' = [pc EXCEPT ![j] = "idle"]
  /\ target' = [target EXCEPT ![j] = Root] /\ got' = [got EXCEPT ![j] = None]
  /\ Prepare(j, fset[j], at[j] + 1, H)
  /\ UNCHANGED <<fset, changes>>

-----------------------------------------------------------------------------
(* p becomes e, and the directories S change. *)
ChangeDisk(p, e, S) ==
  /\ disk' = [q \in Path |-> IF q = p THEN e
                             ELSE IF q \in S THEN [disk[q] EXCEPT !.val = clock[q] + 1]
                             ELSE disk[q]]
  /\ clock' = [q \in Path |-> IF disk'[q].val = 0 THEN clock[q] ELSE disk'[q].val]

New(p, h) == [val |-> clock[p] + 1, hash |-> h]
DirOf(p) == IF p = Root THEN {} ELSE {ParentOf[p]}

(* The disk can take the change: otherwise the master exits. *)
Possible(j, f) ==
  IF f.del THEN Exists(f.path) /\ Disk(f.path).names = {}
  ELSE /\ f.path # Root => Exists(ParentOf[f.path])
       /\ f.hash # NoHash => newFiles[j][f.hash] # <<>>

(* A file with a hash is moved aside, to be used under another path. *)
Remove(j, p) ==
  LET h == delFileHashes[j][p] IN
  /\ ChangeDisk(p, Gone, DirOf(p))
  /\ newFiles' = IF h = NoHash THEN newFiles
                 ELSE [newFiles EXCEPT ![j][h] = Append(@, disk[p].hash)]
  /\ disturbed' = disturbed \ ({p} \cap Files)

(* A directory that is there already will do. *)
Mkdir(f) ==
  /\ ChangeDisk(f.path, New(f.path, NoHash), IF Exists(f.path) THEN {} ELSE DirOf(f.path))
  /\ disturbed' = IF f.names \in {NoNames, Disk(f.path).names} THEN disturbed
                  ELSE disturbed \cup {f.path}
  /\ UNCHANGED newFiles

(* The last of the files for the hash, which may have other contents. *)
Rename(j, f) ==
  LET files == newFiles[j][f.hash]
      contents == files[Len(files)] IN
  /\ ChangeDisk(f.path, New(f.path, contents), DirOf(f.path))
  /\ newFiles' = [newFiles EXCEPT ![j][f.hash] = SubSeq(@, 1, Len(@) - 1)]
  /\ disturbed' = (disturbed \ {f.path}) \cup (IF contents = f.hash THEN {} ELSE {f.path})

(* replayFileModifications, one file; the goroutine has one replay at a    *)
(* time.  What is not deleted has no stat before reread.                   *)
replayFile(j) ==
  LET f == fset[j][Len(done[j]) + 1]
      info == [path |-> f.path, val |-> disk'[f.path].val, hash |-> f.hash, names |-> f.names] IN
  /\ \/ job[j] = "disk"
     \/ job[j] = "queued" /\ \A k \in Replay : job[k] \notin {"disk", "reread"}
  /\ Len(done[j]) < Len(fset[j])
  /\ \/ /\ Possible(j, f)
        /\ \/ f.del /\ Remove(j, f.path)
           \/ ~f.del /\ f.path \in Dirs /\ Mkdir(f)
           \/ ~f.del /\ f.path \in Files /\ Rename(j, f)
        /\ job' = [job EXCEPT ![j] = IF f.del THEN "disk" ELSE "reread"]
        /\ done' = [done EXCEPT ![j] = Append(@, info)]
        /\ UNCHANGED crashed
     \/ /\ ~Possible(j, f) /\ crashed' = TRUE
        /\ UNCHANGED <<diskVars, job, newFiles, done, disturbed>>
  /\ UNCHANGED <<prepareVars, entryVars, stale, boundVars>>

(* Its attributes are read again: what is gone by now is a deletion. *)
reread(j) ==
  LET n == Len(done[j]) IN
  /\ job[j] = "reread"
  /\ job' = [job EXCEPT ![j] = "disk"]
  /\ done' = [done EXCEPT ![j][n].val = disk[done[j][n].path].val]
  /\ UNCHANGED <<prepareVars, newFiles, entryVars, diskVars, historyVars, boundVars, crashed>>

(* What an update finds or leaves without its directory's entry: it        *)
(* discards these files.                                                   *)
Lost(files) ==
  LET states == Updated(Here, files) IN
  {p \in Path : \E i \in 0 .. Len(files) : Orphan(states[i].cache, p)}

(* Then attributes.Update, with all of them; temporary files are removed.  *)
replayUpdate(j) ==
  /\ job[j] = "disk" /\ Len(done[j]) = Len(fset[j])
  /\ Update(done[j])
  /\ job' = [job EXCEPT ![j] = "done"]
  /\ fset' = [fset EXCEPT ![j] = <<>>] /\ done' = [done EXCEPT ![j] = <<>>]
  /\ haveHashes' = [haveHashes EXCEPT ![j] = [h \in Contents |-> 0]]
  /\ delFileHashes' = [delFileHashes EXCEPT ![j] = [p \in Path |-> NoHash]]
  /\ newFiles' = [newFiles EXCEPT ![j] = [h \in Contents |-> <<>>]]
  /\ stale' = {p \in stale \cup disturbed \cup Lost(done[j]) : Wrong(cache', p)}
  /\ disturbed' = {}
  /\ UNCHANGED <<at, target, level, got, diskVars, boundVars, crashed>>

-----------------------------------------------------------------------------
(* Somebody else makes, writes or deletes p. *)
Edit(p) ==
  LET S == IF Exists(p) <=> disk'[p].val # 0 THEN {} ELSE DirOf(p) IN
  /\ Change
  /\ p # Root /\ Exists(ParentOf[p])
  /\ \/ Exists(p) /\ Disk(p).names = {} /\ ChangeDisk(p, Gone, DirOf(p))
     \/ ~Exists(p) /\ \E h \in HashOf(p) : ChangeDisk(p, New(p, h), DirOf(p))
     \/ Exists(p) /\ p \in Files /\ \E h \in Contents : ChangeDisk(p, New(p, h), {})
  /\ stale' = stale \cup {p} \cup S
  /\ disturbed' = IF \E j \in Replay : job[j] \in {"disk", "reread"}
                  THEN disturbed \cup {p} \cup S ELSE disturbed
  /\ UNCHANGED <<entryVars, replayVars, refreshes, crashed>>

(* Refresh holds the mutex while it looks at the stat of every entry; what *)
(* changed is updated, deletions first and children before their directory. *)
Changed(p) == cache[p] # None /\ cache[p].val # disk[p].val
Deletions == LET paths == Ascending({p \in Path : Changed(p) /\ ~Exists(p)}) IN
             [i \in 1 .. Len(paths) |-> paths[Len(paths) - i + 1]]
Changes == Ascending({p \in Path : Changed(p) /\ Exists(p)})

Refresh ==
  LET file(p) == [path |-> p, val |-> Disk(p).val, hash |-> Disk(p).hash, names |-> Disk(p).names]
      paths == Deletions \o Changes
      files == [i \in 1 .. Len(paths) |-> file(paths[i])] IN
  /\ refreshes < MaxRefresh
  /\ refreshes' = refreshes + 1
  /\ Update(files)
  /\ stale' = {p \in Lost(files) \cup {q \in stale : ~Changed(q)} : cache'[p] # None}
  /\ UNCHANGED <<target, level, got, diskVars, replayVars, disturbed, changes, crashed>>

Next ==
  /\ ~crashed
  /\ \/ \E r \in Reader : get(r) \/ \E t \in Looked : lookup(r, t)
     \/ \E j \in Replay : \/ \E fs \in FileSets : replay(j, fs)
                          \/ replayGet(j) \/ replayGot(j)
                          \/ replayFile(j) \/ reread(j) \/ replayUpdate(j)
     \/ Refresh
     \/ \E p \in Path : Edit(p)

Spec == Init /\ [][Next]_vars

-----------------------------------------------------------------------------
Entry == [val : Nat, hash : Hashes, names : SUBSET Path]

TypeOK ==
  /\ disk \in [Path -> [val : Nat, hash : Hashes]] /\ clock \in [Path -> Nat]
  /\ cache \in [Path -> Entry] /\ \A p \in Path : cache[p].names \subseteq Children(p)
  /\ busy \subseteq Path /\ stale \subseteq Path /\ disturbed \subseteq Path
  /\ pc \in [Reader -> {"idle", "lock", "wait", "woken", "getter", "fill", "done"}]
  /\ target \in [Reader -> Path] /\ level \in [Reader -> Path] /\ got \in [Reader -> Entry]
  /\ job \in [Replay -> {"idle", "prepare", "queued", "disk", "reread", "done"}]
  /\ newFiles \in [Replay -> [Contents -> Seq(Hashes)]]

(* verify: no path is both cached and being fetched.                       *)
BusyNotCached == \A p \in busy : cache[p] = None

(* Between replays the cache is what is on disk: whatever lookups, file    *)
(* sets and refreshes did in whatever order, an entry differs only if the  *)
(* path was changed while its value was on its way into the cache, or by   *)
(* others since the last Refresh that saw its stat change, or under the    *)
(* replay that wrote it: a directory they had made and filled before, a    *)
(* file they wrote after its hash was looked up.  An update discards what  *)
(* has no entry of its directory, so these entries may differ too.         *)
Coherent ==
  (\A j \in Replay : job[j] \notin {"disk", "reread"}) =>
    \A p \in Path : Wrong(cache, p) => p \in stale

(* "Invariants: for all entries, we have their parent directories too".    *)
HaveParents == \A p \in Path : cache[p] # None => ~Orphan(cache, p)

(* No lookup waits for ever: while one waits, another is fetching the very *)
(* path it waits for and will broadcast; an update that stores the path,   *)
(* or takes busy away, has woken it.                                       *)
WaiterServed ==
  \A r \in Reader : pc[r] = "wait" =>
    /\ level[r] \in busy
    /\ \E s \in Reader : pc[s] \in {"getter", "fill"} /\ level[s] = level[r]
=============================================================================
