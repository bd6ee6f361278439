------------------------------- MODULE FsPool -------------------------------
(***************************************************************************)
(* The worker's side of running tasks for one master (termite/mirror.go,   *)
(* task.go, fuse.go): a Mirror owns a pool of FUSE file systems.  A task   *)
(* joins a file system that still takes tasks or mounts a new one, runs a  *)
(* process in it, and the task that leaves it empty reaps it: it takes all *)
(* the files the tasks wrote and answers with them and with the ids of the *)
(* tasks they belong to; the other tasks answer without files.  Shutdown   *)
(* runs concurrently, for the connection's end and for the worker's.       *)
(*                                                                         *)
(* The file system is abstracted to the set of tasks with output in it.    *)
(* An action is what happens between two releases of Mirror.fsMutex, or    *)
(* one unlocked step on shared state.                                      *)
(***************************************************************************)
EXTENDS Integers, FiniteSets

CONSTANTS
  Task,         \* tasks sent to this mirror (WorkRequest.TaskId)
  Fs,           \* file systems the mirror may mount: the bound on nextFsId
  NoFs,
  MaxJobCount,  \* Mirror.maxJobCount
  ReapCounts,   \* values of WorkerOptions.ReapCount to look at
  Shutdowns     \* who may call Shutdown in this instance: see Aggressive

PoolAssumption ==
  /\ NoFs \notin Fs
  /\ MaxJobCount \in Nat \ {0}
  /\ ReapCounts \subseteq Nat \ {0}
  /\ Shutdowns \subseteq {"serveRpc", "graceful", "kill"}

VARIABLES
  reapCount,  \* WorkerOptions.ReapCount, given when the worker starts
  accepting,  \* Mirror.accepting
  killed,     \* Mirror.killed
  active,     \* Mirror.activeFses
  reaping,    \* workerFuseFs.reaping
  tasks,      \* workerFuseFs.tasks
  taskIds,    \* workerFuseFs.taskIds
  output,     \* tasks with files in the union file system
  made,       \* file systems that were mounted
  gone,       \* file systems that were unmounted, with their tmpDir
  pc,         \* where each task is in WorkerTask.Run
  fs,         \* WorkerTask.Run's local fuseFs
  err,        \* runInFuse returned an error
  rep,        \* WorkResponse: is FileSet set, whose files it has, TaskIds
  stop,       \* where each caller is in Shutdown
  crashed     \* the worker process died: log.Fatal, log.Panic, nil pointer

poolVars == <<reapCount, accepting, killed, active, reaping, tasks, taskIds,
              made, gone>>
vars == <<poolVars, output, pc, fs, err, rep, stop, crashed>>

NoReply == [fset |-> FALSE, files |-> {}, ids |-> {}]

Init ==
  /\ reapCount \in ReapCounts
  /\ accepting = TRUE
  /\ killed = FALSE
  /\ active = {}
  /\ reaping = [f \in Fs |-> FALSE]
  /\ tasks = [f \in Fs |-> {}]
  /\ taskIds = [f \in Fs |-> {}]
  /\ output = [f \in Fs |-> {}]
  /\ made = {}
  /\ gone = {}
  /\ pc = [t \in Task |-> "idle"]
  /\ fs = [t \in Task |-> NoFs]
  /\ err = [t \in Task |-> FALSE]
  /\ rep = [t \in Task |-> NoReply]
  /\ stop = [p \in Shutdowns |-> "idle"]
  /\ crashed = FALSE

(* Mutant: no broadcast. *)
WokenNone(f) == f

(* cond.Broadcast: the tasks in newFs and the callers of Shutdown test     *)
(* their conditions again.                                                 *)
Woken(f) == [x \in DOMAIN f |-> IF f[x] = "blocked" THEN "woken" ELSE f[x]]

(* Mutant: a task is counted from the start of its process. *)
runningStarted == Cardinality({t \in Task : pc[t] = "running"})

(* A task is counted while it is in the tasks of an active file system. *)
runningCount == Cardinality({p \in active \X Task : p[2] \in tasks[p[1]]})

(* The file systems newFs adds a task to. *)
Usable == {f \in active : ~reaping[f] /\ Cardinality(taskIds[f]) < reapCount}

(* addTask, with the file system as prepareFs or the pool left it. *)
Join(t, f, ids) ==
  /\ taskIds' = [taskIds EXCEPT ![f] = ids \cup {t}]
  /\ tasks' = [tasks EXCEPT ![f] = @ \cup {t}]
  /\ fs' = [fs EXCEPT ![t] = f]
  /\ pc' = [pc EXCEPT ![t] = "starting"]
  /\ UNCHANGED <<reapCount, accepting, killed, gone, output, err, rep, stop, crashed>>

(* Mirror.newFs, up to cond.Wait or to its return. *)
NewFsWait(t) ==
  /\ pc[t] \in {"idle", "woken"}
  /\ runningCount >= MaxJobCount
  /\ pc' = [pc EXCEPT ![t] = "blocked"]
  /\ UNCHANGED <<poolVars, output, fs, err, rep, stop, crashed>>

(* ShuttingDownError: Run blocks forever in select {}. *)
NewFsRefused(t) ==
  /\ pc[t] \in {"idle", "woken"}
  /\ runningCount < MaxJobCount
  /\ ~accepting
  /\ pc' = [pc EXCEPT ![t] = "refused"]
  /\ UNCHANGED <<poolVars, output, fs, err, rep, stop, crashed>>

NewFsJoin(t, f) ==
  /\ pc[t] \in {"idle", "woken"}
  /\ runningCount < MaxJobCount
  /\ accepting
  /\ f \in Usable
  /\ Join(t, f, taskIds[f])
  /\ UNCHANGED <<active, reaping, made>>

NewFsMount(t, f) ==
  /\ pc[t] \in {"idle", "woken"}
  /\ runningCount < MaxJobCount
  /\ accepting
  /\ Usable = {}
  /\ f \in Fs \ made
  /\ made' = made \cup {f}
  /\ active' = active \cup {f}
  /\ reaping' = [reaping EXCEPT ![f] = FALSE]
  /\ Join(t, f, {})

(* Mounting failed: the error is Run's result. *)
NewFsFail(t) ==
  /\ pc[t] \in {"idle", "woken"}
  /\ runningCount < MaxJobCount
  /\ accepting
  /\ Usable = {}
  /\ pc' = [pc EXCEPT ![t] = "failed"]
  /\ UNCHANGED <<poolVars, output, fs, err, rep, stop, crashed>>

(* runInFuse: the process starts, or Start fails and nothing was run. *)
Start(t) ==
  /\ pc[t] = "starting"
  /\ \/ pc' = [pc EXCEPT ![t] = "running"] /\ err' = err
     \/ pc' = [pc EXCEPT ![t] = "exited"] /\ err' = [err EXCEPT ![t] = TRUE]
  /\ UNCHANGED <<poolVars, output, fs, rep, stop, crashed>>

(* The process exits, with its output in the file system. *)
Exit(t) ==
  /\ pc[t] = "running"
  /\ pc' = [pc EXCEPT ![t] = "exited"]
  /\ output' = [output EXCEPT ![fs[t]] = @ \cup {t}]
  /\ UNCHANGED <<poolVars, fs, err, rep, stop, crashed>>

(* Mutant: the test comes before the task is deleted. *)
EmptiesLate(t, f) == tasks[f] = {}

(* considerReap's condition, after it deleted the task. *)
Empties(t, f) == tasks[f] \ {t} = {}

considerReap(t) ==
  LET f == fs[t] IN
  /\ pc[t] = "exited"
  /\ tasks' = [tasks EXCEPT ![f] = @ \ {t}]
  /\ reaping' = [reaping EXCEPT ![f] = @ \/ Empties(t, f)]
  /\ pc' = [Woken(pc) EXCEPT ![t] = IF reaping'[f] THEN "reap" ELSE "return"]
  /\ stop' = Woken(stop)
  /\ UNCHANGED <<reapCount, accepting, killed, active, taskIds, made, gone,
                 output, fs, err, rep, crashed>>

(* reapFuse reads the ids without the mutex. *)
reapFuse(t) ==
  /\ pc[t] = "reap"
  /\ rep' = [rep EXCEPT ![t].ids = taskIds[fs[t]]]
  /\ pc' = [pc EXCEPT ![t] = "ids"]
  /\ UNCHANGED <<poolVars, output, fs, err, stop, crashed>>

(* Mutant: the union file system is not reset. *)
reapKeeps(t) ==
  LET f == fs[t] IN
  /\ pc[t] = "ids"
  /\ f \notin gone
  /\ rep' = [rep EXCEPT ![t] = [fset |-> TRUE, files |-> output[f], ids |-> @.ids]]
  /\ pc' = [pc EXCEPT ![t] = "reaped"]
  /\ UNCHANGED <<poolVars, output, fs, err, stop, crashed>>

(* workerFuseFs.reap moves the files to a directory in tmpDir and resets   *)
(* the union file system; without tmpDir the worker exits.                 *)
reap(t) ==
  LET f == fs[t] IN
  /\ pc[t] = "ids"
  /\ \/ /\ f \in gone
        /\ crashed' = TRUE
        /\ UNCHANGED <<rep, output, pc>>
     \/ /\ f \notin gone
        /\ rep' = [rep EXCEPT ![t] = [fset |-> TRUE, files |-> output[f], ids |-> @.ids]]
        /\ output' = [output EXCEPT ![f] = {}]
        /\ pc' = [pc EXCEPT ![t] = "reaped"]
        /\ UNCHANGED crashed
  /\ UNCHANGED <<poolVars, fs, err, stop>>

(* Mutant: the stopped file systems stay in activeFses. *)
StopFsKeep(F) ==
  /\ active' = active
  /\ gone' = gone \cup F

(* workerFuseFs.Stop: unmounted, tmpDir removed, and off the pool. *)
StopFs(F) ==
  /\ active' = active \ F
  /\ gone' = gone \cup F

(* Mirror.returnFs, by the task that reaped and by one that leaves others  *)
(* behind.  Unmounting can fail while other tasks use the mount.           *)
returnFs(t) ==
  LET f == fs[t] IN
  /\ pc[t] \in {"reaped", "return"}
  /\ reaping' = [reaping EXCEPT ![f] = FALSE]
  /\ taskIds' = [taskIds EXCEPT ![f] = IF reaping[f] THEN {} ELSE @]
  /\ LET next == IF pc[t] = "reaped" THEN "fill" ELSE "reply" IN
     \/ /\ accepting
        /\ pc' = [pc EXCEPT ![t] = next]
        /\ UNCHANGED <<active, gone, stop, crashed>>
     \/ /\ ~accepting
        /\ StopFs({f})
        /\ crashed' \in IF tasks[f] # {} THEN BOOLEAN ELSE {FALSE}
        /\ pc' = [Woken(pc) EXCEPT ![t] = next]
        /\ stop' = Woken(stop)
  /\ UNCHANGED <<reapCount, accepting, killed, tasks, made, output, fs, err, rep>>

(* The rest of fillReply hashes the files in the reap directory and        *)
(* removes it; the worker exits when they are not there any more.          *)
fillReply(t) ==
  /\ pc[t] = "fill"
  /\ \/ fs[t] \in gone /\ crashed' = TRUE /\ pc' = pc
     \/ fs[t] \notin gone /\ crashed' = crashed /\ pc' = [pc EXCEPT ![t] = "reply"]
  /\ UNCHANGED <<poolVars, output, fs, err, rep, stop>>

(* The end of Mirror.Run: an error takes the reply's place. *)
Reply(t) ==
  /\ pc[t] = "reply"
  /\ pc' = [pc EXCEPT ![t] = IF err[t] \/ killed THEN "failed" ELSE "done"]
  /\ UNCHANGED <<poolVars, output, fs, err, rep, stop, crashed>>

(* serveRpc calls Shutdown when the connection ends, the worker for all    *)
(* its mirrors, with or without killing.                                   *)
Aggressive(p) == p # "graceful"

(* Shutdown up to its wait.  Killing a task whose cmd is not yet set       *)
(* dereferences nil; "starting" is before and after cmd is set.            *)
Shutdown(p) ==
  LET idle == {f \in active : tasks[f] = {}}
      starting == {t \in Task : pc[t] = "starting" /\ fs[t] \in active} IN
  /\ stop[p] = "idle"
  /\ accepting' = FALSE
  /\ killed' = (killed \/ Aggressive(p))
  /\ StopFs(idle)
  /\ crashed' \in IF Aggressive(p) /\ starting # {} THEN BOOLEAN ELSE {FALSE}
  /\ stop' = [stop EXCEPT ![p] = IF active' = {} THEN "done" ELSE "blocked"]
  /\ UNCHANGED <<reapCount, reaping, tasks, taskIds, made, output, pc, fs, err, rep>>

ShutdownWake(p) ==
  /\ stop[p] = "woken"
  /\ stop' = [stop EXCEPT ![p] = IF active = {} THEN "done" ELSE "blocked"]
  /\ UNCHANGED <<poolVars, output, pc, fs, err, rep, crashed>>

(* What one task's goroutine does after it has its file system. *)
Leave(t) == considerReap(t) \/ reapFuse(t) \/ reap(t) \/ returnFs(t)
            \/ fillReply(t) \/ Reply(t)

newFs(t) ==
  \/ NewFsWait(t)
  \/ NewFsRefused(t)
  \/ \E f \in Fs : NewFsJoin(t, f) \/ NewFsMount(t, f)
  \/ NewFsFail(t)

Next ==
  /\ ~crashed
  /\ \/ \E t \in Task : newFs(t) \/ Start(t) \/ Exit(t) \/ Leave(t)
     \/ \E p \in Shutdowns : Shutdown(p) \/ ShutdownWake(p)

Spec == Init /\ [][Next]_vars

-----------------------------------------------------------------------------
TaskState == {"idle", "blocked", "woken", "refused", "starting", "running", "exited", "reap",
              "ids", "reaped", "return", "fill", "reply", "done", "failed"}
StopState == {"idle", "blocked", "woken", "done"}

TypeOK ==
  /\ reapCount \in ReapCounts
  /\ accepting \in BOOLEAN /\ killed \in BOOLEAN /\ crashed \in BOOLEAN
  /\ active \subseteq made /\ gone \subseteq made /\ made \subseteq Fs
  /\ active \cap gone = {}
  /\ reaping \in [Fs -> BOOLEAN]
  /\ tasks \in [Fs -> SUBSET Task]
  /\ taskIds \in [Fs -> SUBSET Task]
  /\ output \in [Fs -> SUBSET Task]
  /\ pc \in [Task -> TaskState]
  /\ fs \in [Task -> Fs \cup {NoFs}]
  /\ err \in [Task -> BOOLEAN]
  /\ rep \in [Task -> [fset : BOOLEAN, files : SUBSET Task, ids : SUBSET Task]]
  /\ stop \in [Shutdowns -> StopState]

(* The worker never runs more processes for a master than it granted jobs, *)
(* whatever file systems come and go while tasks wait in newFs.            *)
JobCap == Cardinality({t \in Task : pc[t] \in {"starting", "running"}}) <= MaxJobCount

(* With one task per file system a reply has the files of its task and of  *)
(* no other, though file systems are used again.                           *)
Isolated ==
  reapCount = 1 => \A t \in Task :
    pc[t] = "done" => rep[t] = [fset |-> TRUE, files |-> {t}, ids |-> {t}]

(* No task's files are in two replies, though the tasks of a shared file   *)
(* system may each find it marked for reaping.                             *)
FilesOnce == \A t, u \in Task : t # u => rep[t].files \cap rep[u].files = {}

(* Output does not stay behind: a mounted file system with files of a task *)
(* is in use, or a task is on its way to reap it.                          *)
OutputReaped ==
  \A f \in Fs \ gone : output[f] # {} =>
    \/ tasks[f] # {}
    \/ \E t \in Task : fs[t] = f /\ pc[t] \in {"reap", "ids"}

Closed == crashed \/ \E p \in Shutdowns : stop[p] = "done"

(* Shutdown ends: the last file system to go wakes every caller, so that   *)
(* again and again none of them is in it; each calls it once.              *)
ShutdownEnds == []<>(crashed \/ \A p \in Shutdowns : stop[p] \in {"idle", "done"})
=============================================================================
