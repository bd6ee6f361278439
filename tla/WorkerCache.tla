----------------------------- MODULE WorkerCache -----------------------------
(***************************************************************************)
(* What the jobs on a worker see of the master's files.  The worker's      *)
(* RpcFs (termite/rpcfs.go) has an attribute cache of its own, the same    *)
(* type as the master's: its getter is a call of Server.GetAttr (attr/     *)
(* rpc.go), a lookup in the master's cache, and it is updated by           *)
(* Mirror.Update with what the master has queued for the worker: a copy of *)
(* its cache at first, the files of every replay, and every fetch of its   *)
(* own.  The queue is sent before a job starts.                            *)
(*                                                                         *)
(* Both caches are instances of CacheEntries; the master's file sets have  *)
(* one file each here, and nobody else changes files: val stands for stat  *)
(* and contents alike.  Sending the queue is taken from AttrSync:          *)
(* everything queued by replays before Send began has arrived, in order,   *)
(* when it returns.                                                        *)
(***************************************************************************)
EXTENDS Integers, Sequences, Functions

CONSTANTS
  Dirs, Files, Root, ParentOf, PathOrder, NoHash,
  Replay,     \* calls of Master.replay
  Job,        \* jobs run on the worker, one lookup at a time
  Looked,     \* the paths they look at
  MaxLookups  \* bound on the lookups of all jobs together

VARIABLES
  disk,       \* version of each path, 0: does not exist
  clock,      \* the last version
  job,        \* where each replay is
  file,       \* its file
  crashed,    \* log.Fatal
  cache, busy, pc, target, level, got,
  wcache,     \* RpcFs.attr.attributes
  wbusy,      \* RpcFs.attr.busy
  wpc,        \* where the job's lookup is in the worker's get
  wtarget, wlevel, wgot,
  client,     \* the worker is a client of the master's cache
  pending,    \* attrCachePending.pending
  sending,    \* what Send has taken and the worker has not yet
  mark,       \* how many of these must arrive for the last replay's, or
              \* AddClient's, to have arrived: pendingId against sentId
  given,      \* jobs for which Send has begun
  needs,      \* mark when Send began, less what has arrived since
  broken,     \* the connection of the getter is broken
  latest,     \* history: every path once all replays have been applied
  since,      \* history: values the path had since the job was sent
  tainted,    \* history: paths an older value of which was stored since they
              \* were last queued
  suspect,    \* history: paths tainted when the job was sent, or since
  lookups

replayVars == <<disk, clock, job, file, crashed>>
cacheVars == <<cache, busy, pc, target, level, got>>
workerVars == <<wcache, wbusy, wpc, wtarget, wlevel, wgot>>
queueVars == <<client, pending, sending, mark>>
jobVars == <<given, needs, lookups>>
historyVars == <<latest, since, tainted, suspect>>
vars == <<replayVars, cacheVars, workerVars, queueVars, jobVars, broken, historyVars>>

(* A deletion is looked up by the replay: jobs and replays call get. *)
Getter == Job \cup Replay
Master == INSTANCE CacheEntries WITH Reader <- Getter
Worker == INSTANCE CacheEntries
            WITH Reader <- Job, cache <- wcache, busy <- wbusy, pc <- wpc,
                 target <- wtarget, level <- wlevel, got <- wgot

Path == Master!Path
None == Master!None

FileAttr(p, e) == [path |-> p, val |-> e.val, hash |-> e.hash, names |-> e.names]

(* uncachedGetAttr. *)
Disk(p) ==
  IF disk[p] = 0 THEN None
  ELSE [val |-> disk[p], hash |-> NoHash, names |-> {c \in Master!Children(p) : disk[c] # 0}]

Init ==
  /\ Master!Empty /\ Worker!Empty
  /\ disk \in [Path -> 0 .. 1]
  /\ disk[Root] = 1 /\ \A p \in Path \ {Root} : disk[p] = 1 => disk[ParentOf[p]] = 1
  /\ clock = 1
  /\ job = [k \in Replay |-> "idle"] /\ file = [k \in Replay |-> FileAttr(Root, None)]
  /\ crashed = FALSE
  /\ client = FALSE /\ pending = <<>> /\ sending = <<>>
  /\ mark = 0
  /\ given = {} /\ needs = [j \in Job |-> 0]
  /\ lookups = 0
  /\ broken = FALSE
  /\ latest = disk
  /\ since = [j \in Job |-> [p \in Files |-> {}]]
  /\ tainted = {} /\ suspect = [j \in Job |-> {}]

-----------------------------------------------------------------------------
(* The paths about which an entry of p says something else than what the   *)
(* replays queued so far make of them.                                     *)
Outdated(p, entry) ==
  {q \in Path : \/ q = p /\ entry.val # latest[p]
                \/ q \in Master!Children(p) /\ (q \in entry.names) # (latest[q] # 0)}

Taint(S) ==
  /\ tainted' = tainted \cup S
  /\ suspect' = [j \in Job |-> IF j \in given THEN suspect[j] \cup S ELSE {}]

(* Files are appended to the worker's queue. *)
Enqueue(files) == pending' = IF client THEN pending \o files ELSE pending

(* Mutant: Queue does not set pendingId. *)
MarkKept == mark

(* Queue sets pendingId: all that is queued must arrive. *)
Marked == IF client THEN Len(sending) + Len(pending') ELSE 0

(* AddClient: a copy of the cache is pending, directories first. *)
Copy == LET paths == Master!Ascending({p \in Path : cache[p] # None}) IN
        [i \in 1 .. Len(paths) |-> FileAttr(paths[i], cache[paths[i]])]

AddClient ==
  /\ ~client
  /\ client' = TRUE
  /\ pending' = Copy
  /\ mark' = Len(Copy)
  /\ Taint(UNION {Outdated(p, cache[p]) : p \in {p \in Path : cache[p] # None}})
  /\ UNCHANGED <<replayVars, cacheVars, workerVars, sending, jobVars, broken, latest, since>>

(* Queue in Master.replay.  From now on jobs may see the new file. *)
Queue(k, f) ==
  /\ job' = [job EXCEPT ![k] = "queued"]
  /\ Enqueue(<<f>>)
  /\ mark' = Marked
  /\ latest' = [latest EXCEPT ![f.path] = f.val]
  /\ since' = [j \in Job |-> IF j \notin given THEN since[j]
                             ELSE [p \in Files |-> since[j][p] \cup {latest'[p]}]]
  /\ tainted' = tainted \ {f.path}
  /\ UNCHANGED <<disk, crashed, cache, busy, level, workerVars, client, sending, jobVars,
                 broken, suspect>>

(* Master.replay for a task that has written p ... *)
replayWrite(k, p) ==
  LET f == FileAttr(p, [None EXCEPT !.val = clock + 1]) IN
  /\ job[k] = "idle" /\ disk[ParentOf[p]] # 0
  /\ clock' = clock + 1
  /\ file' = [file EXCEPT ![k] = f]
  /\ Queue(k, f)
  /\ UNCHANGED <<pc, target, got>>

(* ... or deleted it: then it looks p up first. *)
replayDelete(k, p) ==
  /\ job[k] = "idle" /\ disk[p] # 0
  /\ job' = [job EXCEPT ![k] = "prepare"]
  /\ file' = [file EXCEPT ![k] = FileAttr(p, None)]
  /\ Master!localGet(k, p)
  /\ UNCHANGED <<disk, clock, crashed, workerVars, queueVars, jobVars, broken, historyVars>>

replayGot(k) ==
  /\ job[k] = "prepare" /\ pc[k] = "done"
  /\ pc' = [pc EXCEPT ![k] = "idle"]
  /\ target' = [target EXCEPT ![k] = Root] /\ got' = [got EXCEPT ![k] = None]
  /\ Queue(k, file[k])
  /\ UNCHANGED <<clock, file>>

(* replayFileModifications *)
replayFile(k) ==
  LET p == file[k].path
      possible == disk[p] # 0 \/ file[k].val # 0 IN
  /\ job[k] = "queued" /\ \A i \in Replay : job[i] # "disk"
  /\ job' = [job EXCEPT ![k] = "disk"]
  /\ disk' = IF possible THEN [disk EXCEPT ![p] = file[k].val] ELSE disk
  /\ crashed' = ~possible
  /\ UNCHANGED <<clock, file, cacheVars, workerVars, queueVars, jobVars, broken, historyVars>>

replayUpdate(k) ==
  /\ job[k] = "disk"
  /\ Master!Update(<<file[k]>>)
  /\ job' = [job EXCEPT ![k] = "done"]
  /\ file' = [file EXCEPT ![k] = FileAttr(Root, None)]
  /\ UNCHANGED <<disk, clock, crashed, target, level, got, workerVars, queueVars, jobVars,
                 broken, historyVars>>

-----------------------------------------------------------------------------
(* A job is given to the worker: AttributeCache.Send begins. *)
Send(j) ==
  /\ client /\ j \notin given
  /\ given' = given \cup {j}
  /\ needs' = [needs EXCEPT ![j] = mark]
  /\ since' = [since EXCEPT ![j] = [p \in Files |-> {latest[p]}]]
  /\ suspect' = [suspect EXCEPT ![j] = tainted]
  /\ UNCHANGED <<replayVars, cacheVars, workerVars, queueVars, lookups, broken, latest, tainted>>

(* The queue is taken by one of the jobs that need it. *)
SendTake ==
  /\ sending = <<>> /\ pending # <<>>
  /\ \E j \in given : needs[j] > 0
  /\ sending' = pending /\ pending' = <<>>
  /\ UNCHANGED <<replayVars, cacheVars, workerVars, client, mark, jobVars, broken, historyVars>>

(* What is left of n files once those being sent have arrived. *)
Rest(n) == IF n > Len(sending) THEN n - Len(sending) ELSE 0

(* Mutant: the queue is emptied when Send has returned. *)
UpdateDrops ==
  /\ sending # <<>>
  /\ Worker!Update(sending)
  /\ mark' = 0 /\ needs' = [j \in Job |-> 0]
  /\ sending' = <<>> /\ pending' = <<>>
  /\ UNCHANGED <<replayVars, cacheVars, wtarget, wlevel, wgot, client, given, lookups, broken, historyVars>>

(* Mirror.Update on the worker. *)
Update ==
  /\ sending # <<>>
  /\ Worker!Update(sending)
  /\ mark' = Rest(mark) /\ needs' = [j \in Job |-> Rest(needs[j])]
  /\ sending' = <<>>
  /\ UNCHANGED <<replayVars, cacheVars, wtarget, wlevel, wgot, client, pending, given, lookups,
                 broken, historyVars>>

-----------------------------------------------------------------------------
(* Send has returned, the job runs, and one of its processes looks at t:   *)
(* RpcFs.GetAttr, Open, Readlink, OpenDir.                                 *)
GetAttr(j, t) ==
  /\ j \in given /\ needs[j] = 0 /\ lookups < MaxLookups
  /\ Worker!localGet(j, t)
  /\ lookups' = lookups + 1
  /\ UNCHANGED <<replayVars, cacheVars, queueVars, given, needs, broken, historyVars>>

unsafeGet(j) ==
  /\ Worker!unsafeGet(j)
  /\ UNCHANGED <<replayVars, cacheVars, queueVars, jobVars, broken, historyVars>>

(* Server.GetAttr begins on the master, for the path the worker fetches. *)
ServerGetAttr(j) ==
  /\ wpc[j] = "getter" /\ ~broken
  /\ Master!localGet(j, wlevel[j])
  /\ UNCHANGED <<replayVars, workerVars, queueVars, jobVars, broken, historyVars>>

(* It looks at the disk, without the mutex. *)
getter(j) ==
  /\ pc[j] = "getter"
  /\ got' = [got EXCEPT ![j] = Disk(level[j])]
  /\ pc' = [pc EXCEPT ![j] = "fill"]
  /\ UNCHANGED <<target, level, cache, busy>>

(* The master's get goes on; what it fetches is queued for the worker. *)
MasterGet(j) ==
  /\ \/ /\ Master!unsafeGet(j) \/ getter(j)
        /\ UNCHANGED <<pending, tainted, suspect>>
     \/ /\ Master!store(j)
        /\ Enqueue(<<FileAttr(level[j], got[j])>>)
        /\ Taint(Outdated(level[j], got[j]))
  /\ UNCHANGED <<replayVars, workerVars, client, sending, mark, jobVars, broken, latest, since>>

(* The reply arrives. *)
Reply(j) ==
  /\ wpc[j] = "getter" /\ pc[j] = "done" /\ ~broken
  /\ wgot' = [wgot EXCEPT ![j] = got[j]]
  /\ wpc' = [wpc EXCEPT ![j] = "fill"]
  /\ got' = [got EXCEPT ![j] = None]
  /\ pc' = [pc EXCEPT ![j] = "idle"]
  /\ target' = [target EXCEPT ![j] = Root]
  /\ UNCHANGED <<replayVars, cache, busy, level, wcache, wbusy, wtarget, wlevel, queueVars, jobVars, broken, historyVars>>

(* ... and is stored, and the lookup goes on. *)
Fill(j) ==
  /\ Worker!store(j)
  /\ Taint(Outdated(wlevel[j], wgot[j]))
  /\ UNCHANGED <<replayVars, cacheVars, queueVars, jobVars, broken,
                 latest, since>>

(* The connection of the getter breaks, which nobody notices before a call *)
(* of it.  Calls on it fail, with no value: the lookup ends as if there    *)
(* were no file, and the path stays busy.                                  *)
Break ==
  /\ ~broken /\ \E j \in Job : wpc[j] = "getter"
  /\ broken' = TRUE
  /\ UNCHANGED <<replayVars, cacheVars, workerVars, queueVars, jobVars, historyVars>>

Fail(j) ==
  /\ broken /\ wpc[j] = "getter"
  /\ wpc' = [wpc EXCEPT ![j] = "failed"]
  /\ wlevel' = [wlevel EXCEPT ![j] = Root]
  /\ UNCHANGED <<replayVars, cacheVars, wcache, wbusy, wtarget, wgot, queueVars, jobVars,
                 broken, historyVars>>

(* The lookup has its result. *)
Return(j) ==
  /\ wpc[j] \in {"done", "failed"}
  /\ wpc' = [wpc EXCEPT ![j] = "idle"]
  /\ wgot' = [wgot EXCEPT ![j] = None]
  /\ wtarget' = [wtarget EXCEPT ![j] = Root]
  /\ UNCHANGED <<replayVars, cacheVars, wcache, wbusy, wlevel, queueVars, jobVars,
                 broken, historyVars>>

Next ==
  /\ ~crashed
  /\ \/ AddClient \/ SendTake \/ Update \/ Break
     \/ \E k \in Replay : \/ \E p \in Files : replayWrite(k, p) \/ replayDelete(k, p)
                          \/ replayGot(k) \/ replayFile(k) \/ replayUpdate(k)
     \/ \E j \in Getter : MasterGet(j)
     \/ \E j \in Job : \/ Send(j) \/ \E t \in Looked : GetAttr(j, t)
                       \/ unsafeGet(j) \/ ServerGetAttr(j)
                       \/ Reply(j) \/ Fill(j) \/ Fail(j) \/ Return(j)

Spec == Init /\ [][Next]_vars

-----------------------------------------------------------------------------
(* A lookup of a job sees a version of the file that was current at some   *)
(* time since the job was sent, unless its call fails (rpcfs.go: GetAttr): *)
(* an older one only where a fetch that was overtaken by a replay, on the  *)
(* master or on the worker, or a copy for the worker made before the       *)
(* replay reached the cache, has put the older one in its way.             *)
JobSees ==
  \A j \in Job : wpc[j] = "done" /\ wtarget[j] \in Files \ suspect[j]
    => wgot[j].val \in since[j][wtarget[j]]

(* When nothing is queued or on its way, whatever the worker has fetched   *)
(* itself and been sent, in whatever order, its cache (RpcFs.attr) agrees  *)
(* with the replays so far, with the same exceptions.                      *)
WorkerCoherent ==
  client /\ pending = <<>> /\ sending = <<>> =>
    \A p \in Path : wcache[p] # None =>
      Outdated(p, wcache[p]) \subseteq tainted

(* A lookup that waits, on the worker or on the master, waits for a fetch  *)
(* of another that will wake it, and not for itself or for each other;     *)
(* only a broken connection can leave it waiting (unsafeGet).              *)
LookupServed ==
  /\ \A j \in Job : wpc[j] = "wait" =>
       \/ broken
       \/ \E i \in Job : wpc[i] \in {"getter", "fill"} /\ wlevel[i] = wlevel[j]
  /\ \A j \in Getter : pc[j] = "wait" =>
       \E i \in Getter : pc[i] \in {"getter", "fill"} /\ level[i] = level[j]
=============================================================================
