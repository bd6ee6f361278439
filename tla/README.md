# Termite: a TLA+ model

Termite distributes compile jobs.  A *master* runs next to the build, holds the
real files and accepts commands from a shell wrapper.  *Workers* run the
commands in FUSE file systems that show the master's files, and send back what
the commands wrote.  A *coordinator* tells masters which workers exist.  This
directory models the parts of the Go program in which goroutines, RPCs,
connections and failures interleave, checks them with TLC on small instances,
and proves most of their safety properties for instances of every size.

Names of definitions follow the source.  `PROJECT.json` maps each definition to
its lines, lists the hazards, the runs and the theorems.

## 1. The system

| part | source | state | operations |
|---|---|---|---|
| attribute cache, clients | `attr/attrcache.go` | `clients`, `nextFileSetId`; per client `pending`, `sentId`, `pendingId`, `busy` | `AddClient`, `RmClient`, `Queue`, `Send`, fill in `unsafeGet` |
| attribute cache, contents | `attr/attrcache.go`, `termite/master.go` | `attributes`, `busy`, the disk | `get`, `update`, `Refresh`, `replay`, changes by others |
| file systems of a worker | `termite/mirror.go`, `task.go`, `fuse.go` | `activeFses`, per file system `tasks`, `taskIds`, `reaping` | `newFs`, `runInFuse`, `considerReap`, `reapFuse`, `returnFs`, `fillReply`, `Shutdown` |
| attribute cache of a worker | `termite/rpcfs.go`, `attr/rpc.go` | a second `AttributeCache`, fed by the queue and by its own fetches | `RpcFs.Update`, `RpcFs.GetAttr`, `Server.GetAttr` |
| union file system | `fs/memunionfs.go`, `fuse.go` | tree of nodes, `deleted`, `openWritable` | FUSE operations, `Reap`, `Reset`, `Update` |
| file set waiter | `attr/filesetwaiter.go`, `master.go` | `channels` | `Prepare`, `Wait`, `signal`, `flush`, `drop` |
| mirror connections | `termite/mirrorconnection.go`, `mirrors.go` | `workers`, `mirrors`, job slots | `pick`, `find`, `tryConnect`, `drop`, `jobDone`, `maybeDropConnections`, `refreshWorkers`, `getMirror` |
| set-up and shutdown of mirrors | `termite/connection.go`, `worker.go`, `mirrors.go` | `PendingConnections.connections`, `mirrorMap`, `accepting` | `createMirror`, `Accept`, `WaitConnection`, `CreateMirror`, `DropMirror`, `shutdown` |
| registration | `termite/coordinator.go`, `worker.go` | `workers`, `lastChange` | `Register`, `List`, `checkReachable`, `Report`, `shutdown` |
| content store | `cba/` | files under their hash, `fetching`, `pending` | `Fetch`, `FetchOnce`, `ServeChunk`, `SavePath` |

How they interact, for one job: `Master.run` picks a connection
(mirror connections), `Send`s it all pending attributes (attribute cache
clients), registers with the file set waiter and calls `Mirror.Run`.  The worker
puts the task into a file system of its pool, runs it over the union file
system (whose read-only files come from the attribute cache and the content
store), and the task that leaves the file system empty reaps it and answers with
the files and with the ids of all tasks they belong to.  The master fetches the
contents, replays the files to disk and into its attribute cache, queues the new
attributes for all workers, and signals the other tasks.

What is hard here: `Send` and `unsafeGet` release the mutex for an RPC and act
on what they read before; a reply for one task decides the fate of others;
connections are dropped by address while they are replaced; a file system is
reused, reaped and stopped by different tasks at once; workers die and come
back under the same address; a coordinator forgets everything when it restarts.

What has to be right: a job sees the files that were there when it was sent; its
results are applied exactly once or not at all; every job ends; no limit is
exceeded and no slot, file or chunk is lost.

## 2. Modules

| module | models | size of the instance |
|---|---|---|
| `AttrSync` | the clients of the attribute cache | 2 connections of one address, 2 tasks |
| `AttrSyncProofs` | its theorems | |
| `CacheEntries` | the entries of one attribute cache: lookups and updates | |
| `AttributeCache` | the master's cache over its disk: replays, refresh, changes by others | 4 paths, 2 contents, a reader, 2 replays, 2 changes in all, 1 refresh |
| `AttributeCacheProofs` | its theorems | |
| `WorkerCache` | two caches, the master's and a worker's, and the queue between them | 1 file, 2 replays, 2 jobs, 2 lookups |
| `FsPool` | the worker's pool of file systems | 2 tasks, 2 file systems, 1 slot, 2 shutdowns (in `TaskPipeline`) |
| `FileSetWaiter` | `runOnMirror` and `Wait` on the master | 3 tasks; 2 in `TaskPipeline` |
| `JobService` | abstract: what running a job promises | |
| `TaskPipeline` | `FsPool` and `FileSetWaiter` with the connection between | 2 tasks, 2 file systems, 1 slot |
| `TaskPipelineProofs` | theorems on `FsPool`, `FileSetWaiter` and `TaskPipeline` | |
| `MirrorConnections` | connections, slots, the retry loop | 1 worker, 2 connections, 3 tasks |
| `MirrorConnectionsProofs` | its theorems | |
| `MirrorSetup` | pending connections, making and shutting down mirrors | 2 calls, of one or two masters, 2 jobs |
| `MirrorSetupProofs` | its theorems | |
| `Registry` | coordinator, workers, masters' lists | 1 worker, 1 master, 2 checks, 2 failing dials |
| `RegistryProofs` | its theorems | |
| `MemUnionFs` | the union file system | 2 names, 2 levels, 3 operations per task, 1 update |
| `PlainFs` | abstract: a plain file system | |
| `ContentStore` | fetching contents by hash | 3 fetches, files of 1 and 2 chunks |
| `ContentStoreProofs` | its theorems | |

`MC*` modules and `.cfg` files give the constants for TLC.

**Granularity.**  An action is what happens between two releases of the mutex
concerned, or one unlocked step on shared state.  What handlers do before and
after an RPC are two actions, with the caller's locals (`needSync`, `sending`,
`fs`, `wanted`, ...) kept in variables.  `sync.Cond` is a set of waiting
goroutines: `Wait` leaves the action, `Broadcast` moves them to "woken", and a
woken goroutine evaluates its loop condition again.

**AttrSync.**  A `Conn` is one `attrCachePending` with its connection, an `Id`
the address it is registered under; a later connection may use the address
again.  The attributes queued to a connection are numbered; the variables under
"history" record what was queued and received, so that the properties can
compare them.  `SendBegin`/`SendWake` run `Send` to its RPC or to `Wait`,
`SendReturn` what follows the RPC.  `Break` makes RPCs of a connection fail.
`Queue` and `AddClient` give what they queue a new file set id.  What a fetch
queues (`GetFill`) gets none: a `Send` whose id is covered already returns
without it, so `need`, which `SendSynced` compares with, is what was queued when
`pendingId` was last set (`mark`).  A second client under an address makes
`AddClient` panic, which ends the master (`AddClientTwice`).

**CacheEntries, AttributeCache.**  An entry has a stat (`val`, 0: a deletion), a
hash and, for a directory, its names.  `CacheEntries` is the part of the Go type
that does not depend on where values come from: `get`, which fetches a directory
before what is in it, waits for fetches under way and stores without looking
again, and `update`, a fold over the file set, in order.

`AttributeCache` adds the disk.  A path has a new stat whenever it is written,
made or replaced, and a directory also when a name comes or goes.  `Refresh` sees
stats only, as `FuseAttrEq` does, and gives `update` what differs, deletions
first.  A replay is prepared by its task: each deletion is looked up, which may
fetch or wait, and the deleted file's cached hash makes it usable for another
path (`haveHashes`, `delFileHashes`, `newFiles`).  It is then queued; one
goroutine takes one replay at a time and goes through its files: disk
(`replayFile`), reading the attributes again (`reread`), and with the last one
`Update`.  A change that the disk cannot take ends the master.

The history variables say which entries may differ from the disk, for reasons
the program does not claim to handle.  `stale` has paths that others changed
since the last `Refresh` that saw their stat change, that changed while their
value was on its way into the cache, and files that an update discarded because
their directory has no entry.  `disturbed` has paths that others changed under
the replay at work; a deleted file that is used again for a hash it no longer
has, and a directory that others had filled before the replay made it, count too.
The getter and `Refresh` look at the disk in one step.  `XAttrCache`, which
`bin/master` turns on, is taken to give the hash that reading the file gives.

**WorkerCache.**  The worker's cache is the same Go type as the master's, so both
are instances of `CacheEntries`; the worker's getter is a call that does a lookup
in the master's.  File sets have one file each here, nobody else changes files,
and `val` stands for stat and contents alike; as on the master, a replay looks a
deletion up first.  Sending the
queue is taken from `AttrSync`, as it is proved there: what replays queued before
`Send` began has arrived, in order, when it returns (`mark` and `needs` count how
much that is).  The history variable `tainted` holds the paths an older value of
which was stored after the newer one was queued: by a fetch that a replay
overtook, on either side, or by the copy that a new client gets between the two
steps of a replay.  The code does not repair these, and the properties name them
as the only exceptions.

**FsPool.**  A file system is the set of tasks with output in it.  The pool's
unlocked steps are separate: deciding to reap, taking the files, reading
`taskIds`, returning the file system.  `crashed` is set where the code ends in
`log.Fatal` or dereferences nil.

**FileSetWaiter, TaskPipeline.**  On its own the waiter runs against a worker
that answers in any order the code permits; in `TaskPipeline` replies come from
`FsPool` over a connection that is closed by errors and shutdowns.  Both are
shown to implement `JobService`: the first while nothing fails, the second with
any failures but one task per file system (`ReapCount` 1, the default of the worker's flag
`-reap-count`).  With shared file systems a task may wait for ever: when the reply that
carries its files is lost, or when `returnFs` of the first task clears `taskIds`
just before the last one reads them (`mirror.go:182`); so no liveness is claimed
for them.

**MirrorConnections.**  Slots are counted as in the code, negative values
included.  `owes` is history: the tasks that hold a slot.  Worker side:
`getMirror` grants what is left of `Jobs`.

**MirrorSetup.**  A call dials its connections one by one and then calls
`CreateMirror`; the accept loop files each connection under its id, and the
handler waits for the ids it was given.  Each master counts ids from 0, so two
masters use the same ones: `clash` records that an id came again before its
first connection was taken, which the code answers with a panic or with a
connection for the wrong mirror.  `shutdown` lists the mirrors, waits for them,
empties the map and exits, with calls in progress at any point; it is called
once.

**Registry.**  Time stamps are only compared, so they are sets: the workers
registered since a check began (`recent`), the masters that have not seen the
last change (`unseen`).  Several checks may run at a time: `PeriodicCheck`'s, and
one for each HTTP handler that kills workers.  They dial outside the mutex, one
worker after another, and then delete what they could not reach and has not
registered since they began.  A dial always fails at a dead worker and may fail
at a live one, which is deleted then and comes back with its next report
(`missed` records the failed dials, `MaxFaults` bounds those at live workers).
`checkReachable` broadcasts nothing, as in the code: masters learn of removals
with the next registration.

**MemUnionFs.**  Nodes are made by lookup, as the kernel asks for them.
`Rmdir` and `Rename` do not look whether a directory is empty, and `reset` does
not clear `changed`, as in the code.  A view that ignores how the tree is stored
maps it to `PlainFs`: `ViewIsPlain` says of each handler that it does to the view
what the same operation does to a plain file system, not merely that some
operation would.  An update changes the master's files
first (`updateFiles`), then deletes nodes without the mutex (`UpdateDelete`),
then refreshes nodes with it (`UpdateAdd`), with the task's operations, `Reap` and
`Reset` in between; the updates are those that another task's results can make,
and no path turns from a file into a directory, since the master's own replay
ends in `log.Fatal` there.  `lost` records the cases the properties leave out:
renaming a directory of the master after changing files in it (`materializeSelf`
replaces their nodes), renaming onto a directory that is not empty, an update
of what the task itself has written, moved or made again; where the task had
made a file and the update brings a directory, or the reverse, the inode even
keeps the old kind.

**ContentStore.**  The hash of a content is the content.  `once` chooses between
a worker, which calls `FetchOnce`, and a master, which calls `Fetch`.  The server
is that of Linux, with sequences of chunks kept under hash and offset.

## 3. Runs

Times are for 4 workers.

| run | checks | states | time |
|---|---|---|---|
| `attrsync` | `DeliveredInOrder`, `SendSynced`, `SyncInv`, `SendReturns` | 99,300 | 14 s |
| `pipeline` | `Isolated`, `JobCap`, `OutputReaped`, `JobSpec`, `TaskReturns`, `ShutdownEnds` | 120,436 | 47 s |
| `connections` | `SlotAccounting`, `IdleDropSafe`, `RunReturns`, `IdleClosed` | 166,402 | 32 s |
| `attrcache` | `BusyNotCached`, `Coherent`, `WaiterServed` | 424,270 | 41 s |
| `workercache` | `JobSees`, `WorkerCoherent`, `LookupServed` | 543,514 | 25 s |
| `registry` | `MissesNoWorker`, `DeletesOnlyUnreached`, `DeadDeleted`, `LiveKnown` | 39,168 | 10 s |
| `unionfs` | `ReapFaithful`, `StartsFresh`, `ViewIsPlain` | 267,949 | 79 s |
| `content` | `NoCorruption`, `FetchedOnce`, `OneSequencePerFetch`, `FetchReturns` | 172,676 | 47 s |
| `setup` | `PanicMeansClash`, `OwnConnections`, `SlotsCounted`, `SetupReturns`, `ShutdownExits` | 570,443 | 76 s |

`connections`, `attrcache`, `unionfs` and `setup` also check `TypeOK`.  What they
show, in words: attributes reach a worker in order, and those of file sets before
the job that needs them (`attrsync`); a job gets its own files applied once or an error, it ends, the
worker keeps its job limit, and a shutdown ends (`pipeline`); job slots are
neither lost nor given twice and idle connections are closed (`connections`); the
master's cache agrees with its disk (`attrcache`), and a job sees no file older
than when it was sent (`workercache`), both but for the cases in section 2;
masters know live workers and forget dead ones, and no worker is deleted for a
dial older than its registration (`registry`); a task sees a plain file system,
its results are what it saw and the next one starts from the master's files (`unionfs`); contents arrive whole and
once (`content`); mirrors get their own connections and a share of the jobs
unless ids clash (`setup`).

Three more runs show a disagreement of the code with what the repository says:

* `waiter_flush`: "completion may be nil if the response already came in", but
  `flush` removes the channel too, so a task whose files could not be fetched
  may be reported as run (`OkMeansReplayed`).
* `connections_client`: `drop` works by address; a second task that drops a
  connection that was replaced meanwhile makes the next `AddClient` panic
  (`ClientUnique`).
* `attrcache_parents`: "for all entries, we have their parent directories too",
  but a lookup stores what it fetched before its directory was deleted
  (`HaveParents`).  It takes two replays: the update of the first takes the
  lookup's busy mark away, so that the second, which deletes the file and its
  directory, does not wait for the lookup.

**Bounds.**  They are chosen so that each mechanism meets its counterpart: two
connections per address are the least with which one replaces another; two
tasks on one slot and two file systems the least with waiting, reuse and a
shutdown during a reap, the sharing of file systems being proved; three tasks in
the waiter give a reply for two and one for the third; a reader and two replays, which look
up what they delete, give every order of fetch, update and deletion, and two
contents tell a reused file from the one it should be; chunks of two bytes
with files of two and three bytes give a full last chunk and a partial one; three
operations between two reaps give delete, make and rename, or rename and rename
back, and the update meets them in any order; two calls that set up mirrors are
the least that share ids, the map and the jobs.  One
worker and one master are enough in `registry`, because workers meet only in the
coordinator's list and masters not at all, but checks meet at the same worker; the
safety properties are proved for any number.
`MaxFileSets`, `MaxItems`, `MaxChanges`, `MaxFaults`, `MaxRefresh`, `MaxLookups`, `MaxOps`,
`MaxUpdates` cap counters;
`Conn`, `Mc`, `Fs`, `Task`, `Thread` cap objects that are made.

**Fairness.**  Weak fairness of what a goroutine does once it can: a woken
goroutine gets the mutex (Go's scheduler and mutexes), an RPC returns or its
connection fails (TCP), a job ends, a dialled connection reaches the accept loop,
the endless loops of coordinator, workers and
masters go on (of the checks, only `PeriodicCheck`'s).  Nothing makes anybody
start a task, shut down, change a file, break a connection or restart a process.  `TaskPipeline` and `MirrorConnections`
use one condition for all goroutines, which suffices because each of their tasks
runs once.

**Deadlock** is checked in `registry`, `unionfs` and `content`; the others may
stop when all tasks have run or the program has ended.

## 4. Proofs

*AttrSyncProofs*, for any sets of addresses, connections and tasks and any
bounds (`SyncAssumption` says only that `NoConn` is no connection and that the
bounds are numbers):

* `SyncInvariant`: the inductive invariant `SyncInv`;
* `InOrder`: a worker receives what was queued, in order, without gaps;
* `Synced`: a `Send` that returned nil left the worker with everything up to the
  last file set (`Queue` or `AddClient`) queued before it began, also when it
  found the id covered and sent nothing; what only fetches queued after that file
  set may still be pending;
* `SentIdOnlyGrows`.

`SendSynced` is not inductive: that a task may return because of somebody else's
`sentId` depends on what that somebody took from the queue and when.  `SyncInv`
has four parts.  *Registration*: a connection has one address, and no queue
outside the map.  *Sender*: at most one RPC per connection, `busy` while it is
registered, and ids only grow (`sentId <= pendingId`, a sender's `needSync` is
above `sentId`).  *Stream*: received, in flight and pending attributes are, in
this order, all that were queued.  *Cover*: what was queued up to file set
`sentId` has been received, and what was queued up to a sender's `needSync` will
be when its RPC returns.  There is a lemma per action;
`TakeInv` (a sender takes the queue) and `SendReturnInv` carry the argument.

*AttributeCacheProofs*, for any finite tree of paths (`TreeAssumption`), any
lookups, replays, file sets, changes and refreshes (`CacheAssumption`).
`OrderAssumption` says that the order in which `Refresh` sorts has directories
before what is in them, `FileSetsAssumption` that files come with contents and
that names are those of the directory; a path may come several times:

* `Invariance`: the inductive invariant `Inv`;
* `TypeCorrect`, `FetchedIsNotCached` (`BusyNotCached`), `WaitersServed`
  (`WaiterServed`), `CacheCoherent` (`Coherent`).

`Coherent` speaks of the time between replays and is not inductive.  `Following`
is what holds during one: the last word of the replay at work on a path is what
the disk says, unless others have been there since (`DoneRight`), and entries
that are not `stale` differ from the disk only where that replay has been already
(`Followed`).  `Update` then goes over the same files in the same order, and what
is still to come shrinks to nothing.  `Lookups` says that a path is marked busy
only while somebody fetches it and it has no entry.

`update`, the walk up a path and the sorting in `Refresh` are recursive functions.
What they yield is shown by looking at the least index where it would fail (lemma
`Induction`): the statement is a set of numbers, not an operator, and so within
the prover's reach.

*RegistryProofs*, for any sets of workers, masters and concurrent checks
(`CheckAssumption`: `Periodic` is one of them):

* `NoWorkerMissed`: a master hanging in `List` has every registered worker.  It
  needs `ListInv`: a master whose time stamp is the last change has been *told*
  of every worker, in its list or in the response that is on its way;
* `CheckInvariant` and `OnlyUnreachedDeleted`: `checkReachable` deletes no worker
  that every dial has reached since its last registration was stored.  What is in
  `toDelete` of a check was missed by a dial since it registered, or has
  registered since the check began, in which case the comparison of the time
  stamps saves it.

*TaskPipelineProofs*, on the pool (`FsPool`), for any tasks, file systems, job limit,
`ReapCount` and shutdowns (`PoolAssumption`: `NoFs` is no file system, the numbers
are positive):

* `JobsCapped`, `FilesReturnedOnce`, `OutputIsReaped`, from the invariant `PoolInv`.
  The limit is tested by counting the tasks of the active file systems, so
  `PoolInv` says that every task between `newFs` and `considerReap` is in exactly one of
  them (*Members*) and that these are few enough while tasks are accepted
  (*Counted*); *Places* says that the files of a task are in one file system or
  in one reply;
* `TasksIsolated`: with one task per file system a reply has its task's files and
  no other.  `Solo` adds that a task between `newFs` and the end of the reap is
  alone in its file system, and that `taskIds` is not cleared under it.

*TaskPipelineProofs*, on the waiter (`FileSetWaiter`), for any number of tasks,
lost replies and failing fetches:

* `NeverPanics` and `ErrorsLeaveNothing`, from `WaiterInv`, which follows a batch
  of tasks from the reply that answers for it: its files are replayed whole, and
  channels are closed only after that, or all flushed;
* `TakesJobSteps`: while nothing fails, the waiter implements `JobService`.

*TaskPipelineProofs*, on the two composed (`TaskPipeline`), for any tasks, file
systems, job limit and shutdowns, with the connection lost at any moment:

* `WorkerJobsCapped`, `WorkerOutputReaped`, `WorkerIsolates`: what is proved of
  the pool holds in the pipeline.  The argument is a refinement: every
  step of the pipeline is a step of `FsPool` or leaves the pool alone
  (`PoolStep`), so the pipeline satisfies `FsPool`'s specification (`PoolSpec`)
  and its theorems apply;
* `JobsServed`: with one task per file system (`ReapCounts = {1}`) the pipeline
  implements `JobService`, which TLC checks as `JobSpec`.  The invariant
  `PipeInv` says that no goroutine of the master waits for another task's reply
  and that `Wait` has the files of its own task and of no other; the second needs
  `WorkerIsolates`.  The assumption cannot be dropped: when tasks share a file
  system, a task whose own reply is lost is reported as failed though the reply
  of another has brought its files.

*MirrorConnectionsProofs*, for any addresses, connections, tasks, grants and
retries (`ConnectionsAssumption`: tasks and connections are finite sets, `NoAddr`
and `NoMc` are in neither, job counts are positive):

* `ConnectionTypes`, `SlotsAccounted`, from the invariant `SlotInv`, and the
  action property `IdleDropsSafe`: `maybeDropConnections` closes no connection
  with a slot that a task holds.

`SlotAccounting` speaks of the connections in the map, and is not inductive
because connections come into it and leave it.  A task that drops a connection
never gives its slot back, so outside the map slots do get lost, and all that
holds there is an inequality (`SlotBound`).  `MapInv` says that a connection is
in the map only under its own address, so that a drop by address takes out the
connection the slot belongs to or one that replaced it, and `NewInv` that what
comes into the map is a connection nobody has used.

*MirrorSetupProofs*, for any finite set of calls, any masters and any job counts
(`SetupAssumption`):

* `SetupTypes`, `PanicsNeedAClash`, `ConnectionsReachTheirMirror`,
  `MirrorsAreCounted`, from the invariant `SetupInv`.

Three of the four say what holds unless ids clash.  `Orderly` is what is true as
long as they do not: pending connections have different ids (`Distinct`), each
entry of `PendingConnections` is a pending connection under its own id
(`Entries`), and what a handler took or was woken for is what its own call
dialled (`Own`, `Signalled`).  From `Own` it follows that mirrors have different
keys, which is why `getMirror` replaces no mirror that still runs, and the jobs
are counted right (`Listed`, `Bounded`).  That ids stay in their range needs a
count of the connections dialled (`IdsDrawn`).

*ContentStoreProofs*, for any contents, chunk size, goroutines and connections
(`ServeAssumption`: chunks are not empty, contents are sequences of numbers, the
goroutines can be counted):

* `NeverCorrupt`: what a fetch puts together is the file it asked for.
  `CorruptionInv` says that a fetch has the beginning of its file up to its offset
  (`OutputInv`) and that a sequence waits under the offset it was read to
  (`SequenceInv`), so it does not matter whose sequence a fetch takes;
* `OnlyOneFetch`: with `FetchOnce` a hash is in `fetching` of a connection as long
  as a goroutine fetches it, so that no other begins;
* `SequencesAccounted`: the server keeps a sequence for each fetch under way and
  no more, counted for each hash and offset.

In `MirrorConnections` and `MirrorSetup` a sum of job counts is the number of
elements of a set of slots (`Slots`), which is what the loops over the map
compute and what the theorems on finite sets can be applied to.

Only model-checked:

* all liveness (`SendReturns`, `TaskReturns`, `ShutdownEnds`, `RunReturns`,
  `IdleClosed`, `DeadDeleted`, `LiveKnown`, `FetchReturns`, `SetupReturns`,
  `ShutdownExits`), which is beyond the proof system;
* the union file system (`ReapFaithful`, `StartsFresh`, `ViewIsPlain`): its
  `materialize` is a recursive operator over the tree, and the prover has no
  induction over data;
* the worker's cache (`JobSees`, `WorkerCoherent`, `LookupServed`): what a job
  sees depends on two caches and a queue; of the parts, the queue is proved in
  `AttrSyncProofs` and the single cache in `AttributeCacheProofs`.

## 5. Not modelled

* Authentication of connections: cryptography and I/O.
* Temporary files of a replay, which are outside the modelled paths; a hash that
  `XAttrCache` has kept for a file whose size and times did not change.
* Data races on memory without a lock: the entries of the attribute cache that
  are shared with queues and replies while these are encoded (`attrcache.go:246`),
  the map that `WorkerMirrors.shutdown` replaces, counters in status pages.
* Hard links and times in the union file system; invalidation of the kernel's
  caches, which is assumed to work.
* The standard input of a job, a pipe set up before the call of `Mirror.Run`
  (`master.go:371`).  Its bytes play no part in any decision, but a job that is
  tried again waits for an input connection that the first attempt has taken.
* A second `Shutdown` of a worker while the first one runs, and the restart of
  its binary.
* The chunk server for other systems than Linux; calls that are served while
  their connection is closed.
* Commands that the master runs itself, beyond the file sets they replay;
  matching of rules and parsing of command lines: sequential and without shared
  state.
* Status pages, statistics, device and process file systems: stateless or pure
  I/O.  The LRU cache, which nothing uses but its test.
