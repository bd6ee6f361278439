------------------------- MODULE TaskPipelineProofs -------------------------
(***************************************************************************)
(* Running tasks, for any number of tasks, file systems and job slots.     *)
(*                                                                         *)
(* First the worker's end alone, FsPool: the jobs are capped, files are    *)
(* returned once, no output stays behind, and with one task per file       *)
(* system a reply has the files of its own task.  The argument: the tasks  *)
(* of the mounted file systems are those inside them, so counting the one  *)
(* counts the other; and a finished task's files are in its file system's  *)
(* output or in one reply, never in both.                                  *)
(*                                                                         *)
(* Then the master's end alone, FileSetWaiter: Wait never closes a nil     *)
(* channel, a failed fetch leaves nothing behind, and while nothing fails  *)
(* the waiter takes the steps of JobService.  The argument: the replies    *)
(* with files divide the tasks into batches, the ids of each reply.  Until *)
(* a batch has been replayed or has failed its tasks' channels are open,   *)
(* so those who wait for it still do, and every channel that was closed    *)
(* says what became of its batch.                                          *)
(*                                                                         *)
(* Then both ends, TaskPipeline.  The pipeline implements FsPool, so the   *)
(* worker's theorems hold of it.  With one task per file system (ReapCount *)
(* 1) it also implements JobService, though the connection may be lost at  *)
(* any moment.  The argument: a reply has the files and the id of its own  *)
(* task, so a task's goroutine on the master depends on no other.  The     *)
(* files are applied, by the goroutine in Wait, at most once and before it *)
(* reports, and not at all when the call or fetching contents fails.       *)
(***************************************************************************)
EXTENDS TaskPipeline, Integers, FiniteSetTheorems, TLAPS

(* The worker's end, FsPool.  Its instance counts with a Cardinality of    *)
(* its own, which is the same.                                             *)
LEMMA Counts == \A S : Worker!Cardinality(S) = Cardinality(S)
  BY Zenon DEF Worker!Cardinality, Cardinality

In(S) == {t \in Task : pc[t] \in S}

Insiders == In({"starting", "running", "exited"})          \* in a file system's tasks
Owners == In({"starting", "running", "exited", "reap", "ids", "reaped", "return", "fill",
              "reply"})                                     \* with a file system
Finished == In({"exited", "reap", "ids", "reaped", "return", "fill", "reply", "done",
                "failed"})                                  \* with nothing left to write
Reapers == In({"reap", "ids"})

Members ==
  /\ \A f \in Fs : \A t \in Task : t \in tasks[f] <=> t \in Insiders /\ fs[t] = f
  /\ \A t \in Owners : fs[t] \in made

Counted ==
  /\ accepting => \A t \in Insiders : fs[t] \in active
  /\ IsFiniteSet(Insiders)
  /\ Cardinality(Insiders) <= MaxJobCount

Places ==
  /\ \A f \in Fs : \A t \in output[f] : fs[t] = f /\ t \in Finished
  /\ \A u \in Task : rep[u].files \subseteq Finished
  /\ \A u \in Task : \A f \in Fs : output[f] \cap rep[u].files = {}

PoolInv ==
  /\ Worker!TypeOK /\ Members /\ Counted /\ Places
  /\ Worker!FilesOnce /\ Worker!OutputReaped

-----------------------------------------------------------------------------
(* What most steps leave alone.                                            *)

(* Steps that move no task into or out of a file system. *)
LEMMA MembersKept ==
  ASSUME Members, tasks' = tasks, fs' = fs, made' = made,
         Insiders' = Insiders, Owners' \subseteq Owners
  PROVE  Members'
  BY Zenon DEF Members

(* Steps that bring no task into a file system. *)
LEMMA CountedKept ==
  ASSUME Worker!PoolAssumption, Counted, fs' = fs, active' = active \/ ~accepting',
         accepting' => accepting, Insiders' \subseteq Insiders
  PROVE  Counted'
<1>1. IsFiniteSet(Insiders') /\ Cardinality(Insiders') <= Cardinality(Insiders)
  BY FS_Subset, Zenon DEF Counted
<1>2. Cardinality(Insiders) \in Nat /\ Cardinality(Insiders') \in Nat
  BY <1>1, FS_CardinalityType, Zenon DEF Counted
<1>3. Cardinality(Insiders') <= MaxJobCount
  BY <1>1, <1>2 DEF Counted, Worker!PoolAssumption
<1>4. accepting' => \A t \in Insiders' : fs'[t] \in active'
  BY Zenon DEF Counted
<1> QED
  BY <1>1, <1>3, <1>4, Zenon DEF Counted

(* A task joins: it was not counted among less than maxJobCount. *)
LEMMA CountedJoin ==
  ASSUME Worker!PoolAssumption, Worker!TypeOK, Members, Counted, accepting,
         Worker!runningCount < MaxJobCount, NEW t \in Task, Insiders' = Insiders \cup {t},
         active \subseteq active', fs'[t] \in active',
         \A u \in Task \ {t} : fs'[u] = fs[u]
  PROVE  Counted'
<1> DEFINE Pairs == {p \in active \X Task : p[2] \in tasks[p[1]]}
           g == [u \in Insiders |-> <<fs[u], u>>]
<1>1. Insiders \subseteq Task
  BY Zenon DEF Insiders, In
<1>2. \A u \in Insiders : <<fs[u], u>> \in Pairs
  <2> SUFFICES ASSUME NEW u \in Insiders PROVE <<fs[u], u>> \in Pairs
    BY Zenon
  <2>1. u \in Task /\ fs[u] \in active
    BY <1>1, Zenon DEF Counted
  <2>2. u \in tasks[fs[u]]
    BY <2>1, Zenon DEF Worker!TypeOK, Members
  <2> QED
    BY <2>1, <2>2, Zenon
<1>3. g \in Injection(Insiders, Pairs)
  BY <1>2, Zenon DEF Injection, IsInjective
<1>4. IsFiniteSet(Pairs)
  <2> DEFINE h == [p \in Pairs |-> p[2]]
  <2>1. \A p \in Pairs : p[2] \in Insiders /\ p = <<fs[p[2]], p[2]>>
    BY DEF Worker!TypeOK, Members
  <2>2. h \in Injection(Pairs, Insiders)
    BY <2>1 DEF Injection, IsInjective
  <2> QED
    BY <2>2, FS_Injection, Zenon DEF Counted
<1>5. Cardinality(Insiders) <= Cardinality(Pairs)
  BY <1>3, <1>4, FS_Injection, Zenon
<1>6. Cardinality(Insiders) < MaxJobCount /\ Cardinality(Insiders) \in Nat
  <2>1. Cardinality(Pairs) < MaxJobCount
    BY Counts, Zenon DEF Worker!runningCount
  <2>2. Cardinality(Insiders) \in Nat /\ Cardinality(Pairs) \in Nat
    BY <1>4, FS_CardinalityType, Zenon DEF Counted
  <2> QED
    BY <1>5, <2>1, <2>2 DEF Worker!PoolAssumption
<1>7. /\ IsFiniteSet(Insiders \cup {t})
      /\ Cardinality(Insiders \cup {t})
           = IF t \in Insiders THEN Cardinality(Insiders) ELSE Cardinality(Insiders) + 1
  BY FS_AddElement, Zenon DEF Counted
<1>8. Cardinality(Insiders') <= MaxJobCount
  BY <1>6, <1>7 DEF Worker!PoolAssumption
<1>9. \A u \in Insiders' : fs'[u] \in active'
  BY <1>1, Zenon DEF Counted
<1> QED
  BY <1>7, <1>8, <1>9, Zenon DEF Counted

(* Steps that move no files. *)
LEMMA PlacesKept ==
  ASSUME Places, Worker!FilesOnce, output' = output,
         \A u \in Task : rep'[u].files = rep[u].files,
         Finished \subseteq Finished', \A t \in Finished : fs'[t] = fs[t]
  PROVE  Places' /\ Worker!FilesOnce'
  BY Zenon DEF Places, Worker!FilesOnce

(* OutputReaped in terms of the set of reapers. *)
LEMMA OutputReapers ==
  Worker!OutputReaped <=>
    \A f \in Fs \ gone : output[f] # {} => tasks[f] # {} \/ \E t \in Reapers : fs[t] = f
  BY Zenon DEF Worker!OutputReaped, Reapers, In

(* Steps that neither write nor take files, and move nobody out. *)
LEMMA OutputKept ==
  ASSUME Worker!OutputReaped, output' = output, gone \subseteq gone',
         \A f \in Fs : tasks[f] \subseteq tasks'[f],
         Reapers \subseteq Reapers', \A t \in Reapers : fs'[t] = fs[t]
  PROVE  Worker!OutputReaped'
<1>1. \A f \in Fs \ gone' : output'[f] # {} => tasks'[f] # {} \/ \E t \in Reapers' : fs'[t] = f
  BY OutputReapers
<1> QED
  BY <1>1, Zenon DEF Worker!OutputReaped, Reapers, In

-----------------------------------------------------------------------------
(* The steps. *)

(* A task that waits for a job slot. *)
LEMMA NewFsWaitPreserves ==
  ASSUME Worker!PoolAssumption, PoolInv, NEW t \in Task, Worker!NewFsWait(t)
  PROVE  PoolInv'
<1>1. Worker!TypeOK'
  BY Zenon DEF PoolInv, Worker!TypeOK, Worker!TaskState, Worker!NewFsWait, Worker!poolVars
<1>2. /\ Insiders' = Insiders /\ Owners' \subseteq Owners
      /\ Reapers \subseteq Reapers' /\ Finished \subseteq Finished'
  BY Zenon DEF PoolInv, Worker!TypeOK, Insiders, Owners, Reapers, Finished, In,
               Worker!NewFsWait, Worker!poolVars
<1>3. UNCHANGED <<tasks, fs, made, output>> /\ gone \subseteq gone'
  BY Zenon DEF Worker!NewFsWait, Worker!poolVars
<1>4. \A u \in Task : rep'[u].files = rep[u].files
  BY Zenon DEF PoolInv, Worker!TypeOK, Worker!NewFsWait, Worker!poolVars
<1>5. (active' = active \/ ~accepting') /\ (accepting' => accepting)
  BY Zenon DEF Worker!NewFsWait, Worker!poolVars
<1> QED
  BY <1>1, <1>2, <1>3, <1>4, <1>5, MembersKept, CountedKept, PlacesKept, OutputKept,
         Zenon DEF PoolInv

(* A task that comes too late. *)
LEMMA NewFsRefusedPreserves ==
  ASSUME Worker!PoolAssumption, PoolInv, NEW t \in Task, Worker!NewFsRefused(t)
  PROVE  PoolInv'
<1>1. Worker!TypeOK'
  BY Zenon DEF PoolInv, Worker!TypeOK, Worker!TaskState, Worker!NewFsRefused,
               Worker!poolVars
<1>2. /\ Insiders' = Insiders /\ Owners' \subseteq Owners
      /\ Reapers \subseteq Reapers' /\ Finished \subseteq Finished'
  BY Zenon DEF PoolInv, Worker!TypeOK, Insiders, Owners, Reapers, Finished, In,
               Worker!NewFsRefused, Worker!poolVars
<1>3. UNCHANGED <<tasks, fs, made, output>> /\ gone \subseteq gone'
  BY Zenon DEF Worker!NewFsRefused, Worker!poolVars
<1>4. \A u \in Task : rep'[u].files = rep[u].files
  BY Zenon DEF PoolInv, Worker!TypeOK, Worker!NewFsRefused, Worker!poolVars
<1>5. (active' = active \/ ~accepting') /\ (accepting' => accepting)
  BY Zenon DEF Worker!NewFsRefused, Worker!poolVars
<1> QED
  BY <1>1, <1>2, <1>3, <1>4, <1>5, MembersKept, CountedKept, PlacesKept, OutputKept,
         Zenon DEF PoolInv

(* Mounting fails. *)
LEMMA NewFsFailPreserves ==
  ASSUME Worker!PoolAssumption, PoolInv, NEW t \in Task, Worker!NewFsFail(t)
  PROVE  PoolInv'
<1>1. Worker!TypeOK'
  BY Zenon DEF PoolInv, Worker!TypeOK, Worker!TaskState, Worker!NewFsFail, Worker!poolVars
<1>2. /\ Insiders' = Insiders /\ Owners' \subseteq Owners
      /\ Reapers \subseteq Reapers' /\ Finished \subseteq Finished'
  BY Zenon DEF PoolInv, Worker!TypeOK, Insiders, Owners, Reapers, Finished, In,
               Worker!NewFsFail, Worker!poolVars
<1>3. UNCHANGED <<tasks, fs, made, output>> /\ gone \subseteq gone'
  BY Zenon DEF Worker!NewFsFail, Worker!poolVars
<1>4. \A u \in Task : rep'[u].files = rep[u].files
  BY Zenon DEF PoolInv, Worker!TypeOK, Worker!NewFsFail, Worker!poolVars
<1>5. (active' = active \/ ~accepting') /\ (accepting' => accepting)
  BY Zenon DEF Worker!NewFsFail, Worker!poolVars
<1> QED
  BY <1>1, <1>2, <1>3, <1>4, <1>5, MembersKept, CountedKept, PlacesKept, OutputKept,
         Zenon DEF PoolInv

(* The process starts, or cannot. *)
LEMMA StartPreserves ==
  ASSUME Worker!PoolAssumption, PoolInv, NEW t \in Task, Worker!Start(t)
  PROVE  PoolInv'
<1>1. Worker!TypeOK'
  BY Zenon DEF PoolInv, Worker!TypeOK, Worker!TaskState, Worker!Start, Worker!poolVars
<1>2. /\ Insiders' = Insiders /\ Owners' \subseteq Owners
      /\ Reapers \subseteq Reapers' /\ Finished \subseteq Finished'
  BY DEF PoolInv, Worker!TypeOK, Insiders, Owners, Reapers, Finished, In, Worker!Start,
         Worker!poolVars
<1>3. UNCHANGED <<tasks, fs, made, output>> /\ gone \subseteq gone'
  BY Zenon DEF Worker!Start, Worker!poolVars
<1>4. \A u \in Task : rep'[u].files = rep[u].files
  BY Zenon DEF PoolInv, Worker!TypeOK, Worker!Start, Worker!poolVars
<1>5. (active' = active \/ ~accepting') /\ (accepting' => accepting)
  BY Zenon DEF Worker!Start, Worker!poolVars
<1> QED
  BY <1>1, <1>2, <1>3, <1>4, <1>5, MembersKept, CountedKept, PlacesKept, OutputKept,
         Zenon DEF PoolInv

(* The ids are read. *)
LEMMA reapFusePreserves ==
  ASSUME Worker!PoolAssumption, PoolInv, NEW t \in Task, Worker!reapFuse(t)
  PROVE  PoolInv'
<1>1. Worker!TypeOK'
  <2>1. fs[t] \in Fs
    BY Zenon DEF PoolInv, Worker!TypeOK, Members, Owners, In, Worker!reapFuse
  <2>2. rep' \in [Task -> [fset : BOOLEAN, files : SUBSET Task, ids : SUBSET Task]]
    BY <2>1, ZenonT(60) DEF PoolInv, Worker!TypeOK, Worker!reapFuse
  <2> QED
    BY <2>2, Zenon DEF PoolInv, Worker!TypeOK, Worker!TaskState, Worker!reapFuse,
                       Worker!poolVars
<1>2. /\ Insiders' = Insiders /\ Owners' \subseteq Owners
      /\ Reapers \subseteq Reapers' /\ Finished \subseteq Finished'
  BY Zenon DEF PoolInv, Worker!TypeOK, Insiders, Owners, Reapers, Finished, In,
               Worker!reapFuse, Worker!poolVars
<1>3. UNCHANGED <<tasks, fs, made, output>> /\ gone \subseteq gone'
  BY Zenon DEF Worker!reapFuse, Worker!poolVars
<1>4. \A u \in Task : rep'[u].files = rep[u].files
  BY DEF PoolInv, Worker!TypeOK, Worker!reapFuse, Worker!poolVars
<1>5. (active' = active \/ ~accepting') /\ (accepting' => accepting)
  BY Zenon DEF Worker!reapFuse, Worker!poolVars
<1> QED
  BY <1>1, <1>2, <1>3, <1>4, <1>5, MembersKept, CountedKept, PlacesKept, OutputKept,
         Zenon DEF PoolInv

(* The file system is usable again, or stopped: then nothing is accepted. *)
LEMMA returnFsPreserves ==
  ASSUME Worker!PoolAssumption, PoolInv, NEW t \in Task, Worker!returnFs(t)
  PROVE  PoolInv'
<1>1. Worker!TypeOK'
  <2>1. fs[t] \in made
    BY Zenon DEF PoolInv, Members, Owners, In, Worker!returnFs
  <2>2. reaping' \in [Fs -> BOOLEAN] /\ crashed' \in BOOLEAN
    BY Zenon DEF PoolInv, Worker!TypeOK, Worker!returnFs
  <2>3. taskIds' \in [Fs -> SUBSET Task]
    BY Zenon DEF PoolInv, Worker!TypeOK, Worker!returnFs
  <2>4. /\ active' \subseteq made' /\ gone' \subseteq made' /\ made' \subseteq Fs
        /\ active' \cap gone' = {}
    BY <2>1, Zenon DEF PoolInv, Worker!TypeOK, Worker!returnFs, Worker!StopFs,
                       Worker!Woken
  <2>5. pc' \in [Task -> Worker!TaskState] /\ stop' \in [Shutdowns -> Worker!StopState]
    BY ZenonT(60) DEF PoolInv, Worker!TypeOK, Worker!TaskState, Worker!StopState,
                      Worker!returnFs, Worker!StopFs, Worker!Woken
  <2> QED
    BY <2>2, <2>3, <2>4, <2>5, Zenon DEF PoolInv, Worker!TypeOK, Worker!returnFs
<1>2. /\ Insiders' = Insiders /\ Owners' \subseteq Owners
      /\ Reapers \subseteq Reapers' /\ Finished \subseteq Finished'
  <2>1. pc[t] \in {"reaped", "return"} /\ pc'[t] \in {"fill", "reply"}
    BY Zenon DEF PoolInv, Worker!TypeOK, Worker!returnFs, Worker!StopFs, Worker!Woken
  <2>2. \A x \in Task \ {t} : pc'[x] = pc[x] \/ (pc[x] = "blocked" /\ pc'[x] = "woken")
    BY Zenon DEF PoolInv, Worker!TypeOK, Worker!returnFs, Worker!StopFs, Worker!Woken
  <2> QED
    BY <2>1, <2>2, Zenon DEF Insiders, Owners, Reapers, Finished, In
<1>3. UNCHANGED <<tasks, fs, made, output>> /\ gone \subseteq gone'
  BY Zenon DEF Worker!returnFs, Worker!StopFs, Worker!Woken
<1>4. \A u \in Task : rep'[u].files = rep[u].files
  BY Zenon DEF PoolInv, Worker!TypeOK, Worker!returnFs, Worker!StopFs, Worker!Woken
<1>5. (active' = active \/ ~accepting') /\ (accepting' => accepting)
  BY Zenon DEF Worker!returnFs, Worker!StopFs, Worker!Woken
<1> QED
  BY <1>1, <1>2, <1>3, <1>4, <1>5, MembersKept, CountedKept, PlacesKept, OutputKept,
         Zenon DEF PoolInv

(* The files are hashed. *)
LEMMA fillReplyPreserves ==
  ASSUME Worker!PoolAssumption, PoolInv, NEW t \in Task, Worker!fillReply(t)
  PROVE  PoolInv'
<1>1. Worker!TypeOK'
  <2>1. crashed' \in BOOLEAN
    BY Zenon DEF PoolInv, Worker!TypeOK, Worker!fillReply
  <2> QED
    BY <2>1 DEF PoolInv, Worker!TypeOK, Worker!TaskState, Worker!fillReply,
                Worker!poolVars
<1>2. /\ Insiders' = Insiders /\ Owners' \subseteq Owners
      /\ Reapers \subseteq Reapers' /\ Finished \subseteq Finished'
  BY DEF PoolInv, Worker!TypeOK, Insiders, Owners, Reapers, Finished, In,
         Worker!fillReply, Worker!poolVars
<1>3. UNCHANGED <<tasks, fs, made, output>> /\ gone \subseteq gone'
  BY Zenon DEF Worker!fillReply, Worker!poolVars
<1>4. \A u \in Task : rep'[u].files = rep[u].files
  BY Zenon DEF PoolInv, Worker!TypeOK, Worker!fillReply, Worker!poolVars
<1>5. (active' = active \/ ~accepting') /\ (accepting' => accepting)
  BY ZenonT(60) DEF Worker!fillReply, Worker!poolVars
<1> QED
  BY <1>1, <1>2, <1>3, <1>4, <1>5, MembersKept, CountedKept, PlacesKept, OutputKept,
         Zenon DEF PoolInv

(* Run returns. *)
LEMMA ReplyPreserves ==
  ASSUME Worker!PoolAssumption, PoolInv, NEW t \in Task, Worker!Reply(t)
  PROVE  PoolInv'
<1>1. Worker!TypeOK'
  BY Zenon DEF PoolInv, Worker!TypeOK, Worker!TaskState, Worker!Reply, Worker!poolVars
<1>2. /\ Insiders' = Insiders /\ Owners' \subseteq Owners
      /\ Reapers \subseteq Reapers' /\ Finished \subseteq Finished'
  BY Zenon DEF PoolInv, Worker!TypeOK, Insiders, Owners, Reapers, Finished, In,
               Worker!Reply, Worker!poolVars
<1>3. UNCHANGED <<tasks, fs, made, output>> /\ gone \subseteq gone'
  BY Zenon DEF Worker!Reply, Worker!poolVars
<1>4. \A u \in Task : rep'[u].files = rep[u].files
  BY Zenon DEF PoolInv, Worker!TypeOK, Worker!Reply, Worker!poolVars
<1>5. (active' = active \/ ~accepting') /\ (accepting' => accepting)
  BY Zenon DEF Worker!Reply, Worker!poolVars
<1> QED
  BY <1>1, <1>2, <1>3, <1>4, <1>5, MembersKept, CountedKept, PlacesKept, OutputKept,
         Zenon DEF PoolInv

(* Shutdown stops file systems without tasks, and nothing is accepted any more. *)
LEMMA ShutdownPreserves ==
  ASSUME Worker!PoolAssumption, PoolInv, NEW p \in Shutdowns, Worker!Shutdown(p)
  PROVE  PoolInv'
<1>1. Worker!TypeOK'
  BY Zenon DEF PoolInv, Worker!TypeOK, Worker!StopState, Worker!Shutdown, Worker!StopFs
<1>2. /\ Insiders' = Insiders /\ Owners' \subseteq Owners
      /\ Reapers \subseteq Reapers' /\ Finished \subseteq Finished'
  BY Zenon DEF PoolInv, Worker!TypeOK, Insiders, Owners, Reapers, Finished, In,
               Worker!Shutdown, Worker!StopFs
<1>3. UNCHANGED <<tasks, fs, made, output>> /\ gone \subseteq gone'
  BY Zenon DEF Worker!Shutdown, Worker!StopFs
<1>4. \A u \in Task : rep'[u].files = rep[u].files
  BY Zenon DEF PoolInv, Worker!TypeOK, Worker!Shutdown, Worker!StopFs
<1>5. (active' = active \/ ~accepting') /\ (accepting' => accepting)
  BY ZenonT(60) DEF Worker!Shutdown, Worker!StopFs
<1> QED
  BY <1>1, <1>2, <1>3, <1>4, <1>5, MembersKept, CountedKept, PlacesKept, OutputKept,
         Zenon DEF PoolInv

(* Shutdown tests its condition again. *)
LEMMA ShutdownWakePreserves ==
  ASSUME Worker!PoolAssumption, PoolInv, NEW p \in Shutdowns, Worker!ShutdownWake(p)
  PROVE  PoolInv'
<1>1. Worker!TypeOK'
  BY Zenon DEF PoolInv, Worker!TypeOK, Worker!StopState, Worker!ShutdownWake,
               Worker!poolVars
<1>2. /\ Insiders' = Insiders /\ Owners' \subseteq Owners
      /\ Reapers \subseteq Reapers' /\ Finished \subseteq Finished'
  BY Zenon DEF PoolInv, Worker!TypeOK, Insiders, Owners, Reapers, Finished, In,
               Worker!ShutdownWake, Worker!poolVars
<1>3. UNCHANGED <<tasks, fs, made, output>> /\ gone \subseteq gone'
  BY Zenon DEF Worker!ShutdownWake, Worker!poolVars
<1>4. \A u \in Task : rep'[u].files = rep[u].files
  BY Zenon DEF PoolInv, Worker!TypeOK, Worker!ShutdownWake, Worker!poolVars
<1>5. (active' = active \/ ~accepting') /\ (accepting' => accepting)
  BY Zenon DEF Worker!ShutdownWake, Worker!poolVars
<1> QED
  BY <1>1, <1>2, <1>3, <1>4, <1>5, MembersKept, CountedKept, PlacesKept, OutputKept,
         Zenon DEF PoolInv

(* newFs gives the task one of the file systems in the pool. *)
LEMMA NewFsJoinPreserves ==
  ASSUME Worker!PoolAssumption, PoolInv, NEW t \in Task, NEW f \in Fs, Worker!NewFsJoin(t, f)
  PROVE  PoolInv'
<1>1. Worker!TypeOK'
  BY DEF PoolInv, Worker!TypeOK, Worker!TaskState, Worker!NewFsJoin, Worker!Join
<1>2. /\ Insiders' = Insiders \cup {t} /\ Owners' = Owners \cup {t}
      /\ Reapers' = Reapers /\ Finished' = Finished
      /\ t \notin Insiders /\ t \notin Reapers /\ t \notin Finished
  BY DEF PoolInv, Worker!TypeOK, Insiders, Owners, Reapers, Finished, In,
         Worker!NewFsJoin, Worker!Join
<1>3. fs'[t] = f /\ \A x \in Task \ {t} : fs'[x] = fs[x]
  BY Zenon DEF PoolInv, Worker!TypeOK, Worker!NewFsJoin, Worker!Join
<1>4. tasks'[f] = tasks[f] \cup {t} /\ \A g \in Fs \ {f} : tasks'[g] = tasks[g]
  BY Zenon DEF PoolInv, Worker!TypeOK, Worker!NewFsJoin, Worker!Join
<1>5. /\ UNCHANGED <<accepting, gone, output, rep>> /\ active' = active /\ made' = made
  BY Zenon DEF Worker!NewFsJoin, Worker!Join
<1>6. f \in active' /\ f \in made'
  BY <1>5, Zenon DEF PoolInv, Worker!TypeOK, Worker!NewFsJoin, Worker!Usable
<1>7. Insiders \subseteq Task /\ Owners \subseteq Task /\ Reapers \subseteq Task
      /\ Finished \subseteq Task
  BY Zenon DEF Insiders, Owners, Reapers, Finished, In
<1>8. Members'
  <2>1. ASSUME NEW g \in Fs, NEW x \in Task
        PROVE  x \in tasks'[g] <=> x \in Insiders' /\ fs'[x] = g
    <3>1. CASE x = t
      BY <1>2, <1>3, <1>4, <3>1, Zenon DEF PoolInv, Members
    <3>2. CASE x # t
      BY <1>2, <1>3, <1>4, <3>2, SMTT(60) DEF PoolInv, Members
    <3> QED
      BY <3>1, <3>2, Zenon
  <2>2. \A x \in Owners' : fs'[x] \in made'
    BY <1>2, <1>3, <1>5, <1>6, <1>7, Zenon DEF PoolInv, Members
  <2> QED
    BY <2>1, <2>2, Zenon DEF Members
<1>9. Counted'
  BY <1>2, <1>3, <1>5, <1>6, CountedJoin, Zenon DEF PoolInv, Worker!NewFsJoin
<1>10. Places' /\ Worker!FilesOnce'
  BY <1>2, <1>3, <1>5, <1>7, PlacesKept, Zenon DEF PoolInv
<1>11. Worker!OutputReaped'
  BY <1>2, <1>3, <1>4, <1>5, <1>7, OutputKept, ZenonT(60) DEF PoolInv
<1> QED
  BY <1>1, <1>8, <1>9, <1>10, <1>11, Zenon DEF PoolInv

(* newFs gives the task a file system that was mounted for it. *)
LEMMA NewFsMountPreserves ==
  ASSUME Worker!PoolAssumption, PoolInv, NEW t \in Task, NEW f \in Fs, Worker!NewFsMount(t, f)
  PROVE  PoolInv'
<1>1. Worker!TypeOK'
  BY DEF PoolInv, Worker!TypeOK, Worker!TaskState, Worker!NewFsMount, Worker!Join
<1>2. /\ Insiders' = Insiders \cup {t} /\ Owners' = Owners \cup {t}
      /\ Reapers' = Reapers /\ Finished' = Finished
      /\ t \notin Insiders /\ t \notin Reapers /\ t \notin Finished
  BY DEF PoolInv, Worker!TypeOK, Insiders, Owners, Reapers, Finished, In,
         Worker!NewFsMount, Worker!Join
<1>3. fs'[t] = f /\ \A x \in Task \ {t} : fs'[x] = fs[x]
  BY Zenon DEF PoolInv, Worker!TypeOK, Worker!NewFsMount, Worker!Join
<1>4. tasks'[f] = tasks[f] \cup {t} /\ \A g \in Fs \ {f} : tasks'[g] = tasks[g]
  BY Zenon DEF PoolInv, Worker!TypeOK, Worker!NewFsMount, Worker!Join
<1>5. /\ UNCHANGED <<accepting, gone, output, rep>>
      /\ made' = made \cup {f} /\ active' = active \cup {f}
  BY Zenon DEF Worker!NewFsMount, Worker!Join
<1>6. f \in active' /\ f \in made'
  BY <1>5, ZenonT(60) DEF PoolInv, Worker!TypeOK, Worker!NewFsMount
<1>7. Insiders \subseteq Task /\ Owners \subseteq Task /\ Reapers \subseteq Task
      /\ Finished \subseteq Task
  BY Zenon DEF Insiders, Owners, Reapers, Finished, In
<1>8. Members'
  <2>1. ASSUME NEW g \in Fs, NEW x \in Task
        PROVE  x \in tasks'[g] <=> x \in Insiders' /\ fs'[x] = g
    <3>1. CASE x = t
      BY <1>2, <1>3, <1>4, <3>1, Zenon DEF PoolInv, Members
    <3>2. CASE x # t
      BY <1>2, <1>3, <1>4, <3>2 DEF PoolInv, Members
    <3> QED
      BY <3>1, <3>2, Zenon
  <2>2. \A x \in Owners' : fs'[x] \in made'
    BY <1>2, <1>3, <1>5, <1>6, <1>7, ZenonT(60) DEF PoolInv, Members
  <2> QED
    BY <2>1, <2>2, Zenon DEF Members
<1>9. Counted'
  BY <1>2, <1>3, <1>5, <1>6, CountedJoin, ZenonT(60) DEF PoolInv, Worker!NewFsMount
<1>10. Places' /\ Worker!FilesOnce'
  BY <1>2, <1>3, <1>5, <1>7, PlacesKept, Zenon DEF PoolInv
<1>11. Worker!OutputReaped'
  BY <1>2, <1>3, <1>4, <1>5, <1>7, OutputKept, Zenon DEF PoolInv
<1> QED
  BY <1>1, <1>8, <1>9, <1>10, <1>11, Zenon DEF PoolInv

(* The process leaves its output in the file system its task is in. *)
LEMMA ExitPreserves ==
  ASSUME Worker!PoolAssumption, PoolInv, NEW t \in Task, Worker!Exit(t)
  PROVE  PoolInv'
<1> DEFINE f == fs[t]
<1>1. f \in Fs /\ t \in tasks[f]
  BY Zenon DEF PoolInv, Worker!TypeOK, Members, Owners, Insiders, In, Worker!Exit
<1>2. Worker!TypeOK'
  BY <1>1, Zenon DEF PoolInv, Worker!TypeOK, Worker!TaskState, Worker!Exit,
                     Worker!poolVars
<1>3. /\ Insiders' = Insiders /\ Owners' = Owners /\ Reapers' = Reapers
      /\ Finished' = Finished \cup {t} /\ t \notin Finished
  BY Zenon DEF PoolInv, Worker!TypeOK, Insiders, Owners, Reapers, Finished, In,
               Worker!Exit
<1>4. output'[f] = output[f] \cup {t} /\ \A g \in Fs \ {f} : output'[g] = output[g]
  BY <1>1, Zenon DEF PoolInv, Worker!TypeOK, Worker!Exit
<1>5. UNCHANGED <<accepting, active, tasks, made, gone, fs, rep>>
  BY Zenon DEF Worker!Exit, Worker!poolVars
<1>6. Members' /\ Counted'
  BY <1>3, <1>5, MembersKept, CountedKept, ZenonT(60) DEF PoolInv
<1>7. Places' /\ Worker!FilesOnce'
  <2>1. \A u \in Task : t \notin rep[u].files
    BY <1>3, Zenon DEF PoolInv, Places
  <2>2. \A g \in Fs : \A x \in output'[g] : fs'[x] = g /\ x \in Finished'
    BY <1>3, <1>4, <1>5 DEF PoolInv, Places
  <2>3. \A u \in Task : rep'[u].files \subseteq Finished'
    BY <1>3, <1>5, Zenon DEF PoolInv, Places
  <2>4. \A u \in Task : \A g \in Fs : output'[g] \cap rep'[u].files = {}
    BY <1>4, <1>5, <2>1 DEF PoolInv, Places
  <2> QED
    BY <1>5, <2>2, <2>3, <2>4, Zenon DEF PoolInv, Places, Worker!FilesOnce
<1>8. Worker!OutputReaped'
  <2>1. \A g \in Fs \ gone' :
          output'[g] # {} => tasks'[g] # {} \/ \E x \in Reapers' : fs'[x] = g
    BY <1>1, <1>3, <1>4, <1>5, OutputReapers, Zenon DEF PoolInv
  <2> QED
    BY <2>1, Zenon DEF Worker!OutputReaped, Reapers, In
<1> QED
  BY <1>2, <1>6, <1>7, <1>8, Zenon DEF PoolInv

(* The task that leaves a file system empty goes on to reap it. *)
LEMMA considerReapPreserves ==
  ASSUME Worker!PoolAssumption, PoolInv, NEW t \in Task, Worker!considerReap(t)
  PROVE  PoolInv'
<1> DEFINE f == fs[t]
<1>1. f \in Fs /\ t \in tasks[f]
  BY Zenon DEF PoolInv, Worker!TypeOK, Members, Owners, Insiders, In, Worker!considerReap
<1>2. /\ pc[t] = "exited" /\ pc'[t] \in {"reap", "return"}
      /\ tasks'[f] = {} => pc'[t] = "reap"
      /\ \A x \in Task \ {t} : pc'[x] = pc[x] \/ (pc[x] = "blocked" /\ pc'[x] = "woken")
  BY <1>1, Zenon DEF PoolInv, Worker!TypeOK, Worker!considerReap, Worker!Woken,
                     Worker!Empties
<1>3. Worker!TypeOK'
  BY <1>1, <1>2, ZenonT(60) DEF PoolInv, Worker!TypeOK, Worker!TaskState,
                                Worker!StopState, Worker!considerReap, Worker!Woken
<1>4. /\ Insiders' = Insiders \ {t} /\ Owners' = Owners /\ Finished' = Finished
      /\ Reapers \subseteq Reapers'
      /\ tasks'[f] = {} => t \in Reapers'
  BY <1>2 DEF Insiders, Owners, Reapers, Finished, In
<1>5. tasks'[f] = tasks[f] \ {t} /\ \A g \in Fs \ {f} : tasks'[g] = tasks[g]
  BY <1>1, ZenonT(60) DEF PoolInv, Worker!TypeOK, Worker!considerReap
<1>6. UNCHANGED <<accepting, active, made, gone, output, fs, rep>>
  BY Zenon DEF Worker!considerReap
<1>7. Members'
  <2>1. ASSUME NEW g \in Fs, NEW x \in Task
        PROVE  x \in tasks'[g] <=> x \in Insiders' /\ fs'[x] = g
    <3>1. CASE x = t
      BY <1>4, <1>5, <1>6, <3>1, ZenonT(60) DEF PoolInv, Members
    <3>2. CASE x # t
      BY <1>4, <1>5, <1>6, <3>2, Zenon DEF PoolInv, Members
    <3> QED
      BY <3>1, <3>2, Zenon
  <2>2. \A x \in Owners' : fs'[x] \in made'
    BY <1>4, <1>6, Zenon DEF PoolInv, Members
  <2> QED
    BY <2>1, <2>2, Zenon DEF Members
<1>8. Counted'
  BY <1>4, <1>6, CountedKept, Zenon DEF PoolInv
<1>9. Places' /\ Worker!FilesOnce'
  BY <1>4, <1>6, PlacesKept, Zenon DEF PoolInv
<1>10. Worker!OutputReaped'
  <2>1. \A g \in Fs \ gone' :
          output'[g] # {} => tasks'[g] # {} \/ \E x \in Reapers' : fs'[x] = g
    <3> SUFFICES ASSUME NEW g \in Fs \ gone, output[g] # {}
                 PROVE  tasks'[g] # {} \/ \E x \in Reapers' : fs[x] = g
      BY <1>6, Zenon
    <3>1. tasks[g] # {} \/ \E x \in Reapers : fs[x] = g
      BY OutputReapers, Zenon DEF PoolInv
    <3>2. CASE tasks[g] # {} /\ tasks'[g] = {}
      <4>1. g = f
        BY <1>5, <3>2, Zenon
      <4>2. t \in Reapers'
        BY <1>4, <3>2, <4>1, Zenon
      <4> QED
        BY <4>1, <4>2, Zenon
    <3> QED
      BY <1>4, <3>1, <3>2, ZenonT(60)
  <2> QED
    BY <2>1, Zenon DEF Worker!OutputReaped, Reapers, In
<1> QED
  BY <1>3, <1>7, <1>8, <1>9, <1>10, ZenonT(60) DEF PoolInv

(* The files move to the reply, all of them. *)
LEMMA reapPreserves ==
  ASSUME Worker!PoolAssumption, PoolInv, NEW t \in Task, Worker!reap(t)
  PROVE  PoolInv'
<1> DEFINE f == fs[t]
<1>1. f \in Fs
  BY Zenon DEF PoolInv, Worker!TypeOK, Members, Owners, In, Worker!reap
<1>2. UNCHANGED <<accepting, active, tasks, made, gone, fs, reapCount, killed, reaping,
                  taskIds, err, stop>>
  BY ZenonT(60) DEF Worker!reap, Worker!poolVars
<1>3. CASE f \in gone
  <2>1. crashed' = TRUE /\ UNCHANGED <<rep, output, pc>>
    BY <1>3, Zenon DEF Worker!reap
  <2>2. Worker!TypeOK'
    BY <1>2, <2>1, Zenon DEF PoolInv, Worker!TypeOK
  <2>3. UNCHANGED <<Insiders, Owners, Reapers, Finished>>
    BY <2>1, Zenon DEF Insiders, Owners, Reapers, Finished, In
  <2> QED
    BY <1>2, <2>1, <2>2, <2>3, MembersKept, CountedKept, PlacesKept, OutputKept,
           ZenonT(60) DEF PoolInv
<1>4. CASE f \notin gone
  <2>1. /\ pc' = [pc EXCEPT ![t] = "reaped"]
        /\ crashed' = crashed
        /\ output' = [output EXCEPT ![f] = {}]
        /\ rep' = [rep EXCEPT ![t] = [fset |-> TRUE, files |-> output[f], ids |-> @.ids]]
    BY <1>4, Zenon DEF Worker!reap
  <2>2. /\ output'[f] = {} /\ \A g \in Fs \ {f} : output'[g] = output[g]
        /\ rep'[t].files = output[f] /\ \A u \in Task \ {t} : rep'[u].files = rep[u].files
    BY <1>1, <2>1, Zenon DEF PoolInv, Worker!TypeOK
  <2>3. Worker!TypeOK'
    <3>1. rep' \in [Task -> [fset : BOOLEAN, files : SUBSET Task, ids : SUBSET Task]]
      <4>1. output[f] \in SUBSET Task
        BY <1>1, Zenon DEF PoolInv, Worker!TypeOK
      <4> QED
        BY <2>1, <4>1, Zenon DEF PoolInv, Worker!TypeOK
    <3>2. pc' \in [Task -> Worker!TaskState] /\ output' \in [Fs -> SUBSET Task]
      BY <2>1, Zenon DEF PoolInv, Worker!TypeOK, Worker!TaskState
    <3> QED
      BY <1>2, <2>1, <3>1, <3>2, Zenon DEF PoolInv, Worker!TypeOK
  <2>4. /\ Insiders' = Insiders /\ Owners' \subseteq Owners /\ Reapers' = Reapers \ {t}
        /\ Finished' = Finished
    BY <2>1, Zenon DEF PoolInv, Worker!TypeOK, Insiders, Owners, Reapers, Finished, In,
                       Worker!reap
  <2>5. Members' /\ Counted'
    BY <1>2, <2>4, MembersKept, CountedKept, Zenon DEF PoolInv
  <2>6. Places'
    <3>1. \A g \in Fs : \A x \in output'[g] : fs'[x] = g /\ x \in Finished'
      BY <1>2, <2>2, <2>4, ZenonT(60) DEF PoolInv, Places
    <3>2. \A u \in Task : rep'[u].files \subseteq Finished'
      <4>1. output[f] \subseteq Finished
        BY <1>1, ZenonT(60) DEF PoolInv, Places
      <4> QED
        BY <2>2, <2>4, <4>1, ZenonT(60) DEF PoolInv, Places
    <3>3. \A g \in Fs \ {f} : output[g] \cap output[f] = {}
      <4>1. \A g \in Fs : \A x \in output[g] : fs[x] = g
        BY ZenonT(60) DEF PoolInv, Places
      <4> QED
        BY <1>1, <4>1, SMTT(60)
    <3>4. ASSUME NEW u \in Task, NEW g \in Fs PROVE output'[g] \cap rep'[u].files = {}
      <4>1. CASE g = f
        BY <2>2, <4>1, SMTT(60)
      <4>2. CASE g # f /\ u = t
        <5>1. output'[g] = output[g] /\ rep'[u].files = output[f]
          BY <2>2, <4>2, ZenonT(60)
        <5> QED
          BY <3>3, <4>2, <5>1, ZenonT(60)
      <4>3. CASE g # f /\ u # t
        <5>1. output[g] \cap rep[u].files = {}
          BY ZenonT(60) DEF PoolInv, Places
        <5> QED
          BY <2>2, <4>3, <5>1, ZenonT(60)
      <4> QED
        BY <4>1, <4>2, <4>3, ZenonT(60)
    <3> QED
      BY <3>1, <3>2, <3>4, ZenonT(60) DEF Places
  <2>7. Worker!FilesOnce'
    <3>1. \A u \in Task : output[f] \cap rep[u].files = {}
      BY <1>1, ZenonT(60) DEF PoolInv, Places
    <3>2. \A u, v \in Task : u # v => rep[u].files \cap rep[v].files = {}
      BY ZenonT(60) DEF PoolInv, Worker!FilesOnce
    <3>3. \A u, v \in Task : u # v => rep'[u].files \cap rep'[v].files = {}
      BY <2>2, <3>1, <3>2, SMTT(60)
    <3> QED
      BY <3>3, ZenonT(60) DEF Worker!FilesOnce
  <2>8. Worker!OutputReaped'
    <3>1. \A g \in Fs \ gone' :
            output'[g] # {} => tasks'[g] # {} \/ \E x \in Reapers' : fs'[x] = g
      BY <1>1, <1>2, <2>2, <2>4, OutputReapers, Zenon DEF PoolInv
    <3> QED
      BY <3>1, Zenon DEF Worker!OutputReaped, Reapers, In
  <2> QED
    BY <2>3, <2>5, <2>6, <2>7, <2>8, Zenon DEF PoolInv
<1> QED
  BY <1>3, <1>4, ZenonT(60)

-----------------------------------------------------------------------------
(* An idle mirror. *)
LEMMA PoolInit == Worker!PoolAssumption /\ Worker!Init => PoolInv
<1> SUFFICES ASSUME Worker!PoolAssumption, Worker!Init PROVE PoolInv
  BY Zenon
<1>1. Worker!TypeOK
  BY Zenon DEF Worker!Init, Worker!TypeOK, Worker!TaskState, Worker!StopState,
               Worker!NoReply
<1>2. Insiders = {} /\ Owners = {} /\ Finished = {}
  BY Zenon DEF Worker!Init, Insiders, Owners, Finished, In
<1>3. Members /\ Places /\ Worker!FilesOnce /\ Worker!OutputReaped
  BY <1>2, Zenon DEF Worker!Init, Members, Places, Worker!FilesOnce, Worker!OutputReaped,
                     Worker!NoReply
<1>4. Counted
  BY <1>2, FS_EmptySet DEF Counted, Worker!PoolAssumption
<1> QED
  BY <1>1, <1>3, <1>4, Zenon DEF PoolInv

(* Every step of a task or of Shutdown keeps the invariant. *)
LEMMA PoolNext == Worker!PoolAssumption /\ PoolInv /\ [Worker!Next]_Worker!vars => PoolInv'
<1> SUFFICES ASSUME Worker!PoolAssumption, PoolInv, [Worker!Next]_Worker!vars PROVE PoolInv'
  BY Zenon
<1>1. CASE UNCHANGED Worker!vars
  <2>1. Worker!TypeOK' /\ Worker!FilesOnce' /\ Worker!OutputReaped'
    BY <1>1, Zenon DEF Worker!vars, Worker!poolVars, PoolInv, Worker!TypeOK,
                       Worker!FilesOnce, Worker!OutputReaped
  <2>2. UNCHANGED <<Insiders, Owners, Finished>>
    BY <1>1, ZenonT(60) DEF Worker!vars, Insiders, Owners, Finished, In
  <2>3. Members' /\ Counted' /\ Places'
    BY <1>1, <2>2, ZenonT(60) DEF Worker!vars, Worker!poolVars, PoolInv, Members, Counted,
                                  Places
  <2> QED
    BY <2>1, <2>3, ZenonT(60) DEF PoolInv
<1>2. ASSUME NEW t \in Task, Worker!newFs(t) PROVE PoolInv'
  BY Zenon, <1>2, NewFsWaitPreserves, NewFsRefusedPreserves, NewFsJoinPreserves,
     NewFsMountPreserves, NewFsFailPreserves DEF Worker!newFs
<1>3. ASSUME NEW t \in Task, Worker!Start(t) \/ Worker!Exit(t) PROVE PoolInv'
  BY <1>3, StartPreserves, ExitPreserves, Zenon
<1>4. ASSUME NEW t \in Task, Worker!Leave(t) PROVE PoolInv'
  BY Zenon, <1>4, considerReapPreserves, reapFusePreserves, reapPreserves,
         returnFsPreserves, fillReplyPreserves, ReplyPreserves DEF Worker!Leave
<1>5. ASSUME NEW p \in Shutdowns, Worker!Shutdown(p) \/ Worker!ShutdownWake(p)
      PROVE  PoolInv'
  BY <1>5, ShutdownPreserves, ShutdownWakePreserves, Zenon
<1> QED
  BY <1>1, <1>2, <1>3, <1>4, <1>5, Zenon DEF Worker!Next

(* The invariant of the pool, whatever the tasks, file systems, job slots, *)
(* reap counts and callers of Shutdown.                                    *)
THEOREM PoolInvariant ==
  ASSUME Worker!PoolAssumption
  PROVE  Worker!Spec => []PoolInv
<1>1. Worker!Init => PoolInv
  BY PoolInit, Zenon
<1>2. PoolInv /\ [Worker!Next]_Worker!vars => PoolInv'
  BY PoolNext, Zenon
<1> QED
  BY <1>1, <1>2, PTL DEF Worker!Spec

(* The worker never runs more processes for a master than it granted jobs. *)
THEOREM JobsCapped ==
  ASSUME Worker!PoolAssumption
  PROVE  Worker!Spec => []Worker!JobCap
<1>1. PoolInv => Worker!JobCap
  <2> SUFFICES ASSUME PoolInv PROVE Worker!JobCap
    BY Zenon
  <2> DEFINE Busy == {t \in Task : pc[t] \in {"starting", "running"}}
  <2>1. Busy \in SUBSET Insiders /\ IsFiniteSet(Insiders)
    BY Zenon DEF Insiders, In, PoolInv, Counted
  <2>2. IsFiniteSet(Busy) /\ Cardinality(Busy) <= Cardinality(Insiders)
    BY <2>1, FS_Subset, Zenon
  <2>3. Cardinality(Busy) \in Nat /\ Cardinality(Insiders) \in Nat
    BY <2>1, <2>2, FS_CardinalityType, Zenon
  <2> QED
    <3>1. Cardinality(Busy) <= MaxJobCount
      BY <2>2, <2>3 DEF PoolInv, Counted, Worker!PoolAssumption
    <3> QED
      BY <3>1, Counts, Zenon DEF Worker!JobCap
<1> QED
  BY <1>1, PoolInvariant, PTL

(* No file is in two replies. *)
THEOREM FilesReturnedOnce ==
  ASSUME Worker!PoolAssumption
  PROVE  Worker!Spec => []Worker!FilesOnce
<1>1. PoolInv => Worker!FilesOnce
  BY Zenon DEF PoolInv
<1> QED
  BY <1>1, PoolInvariant, PTL

(* No output stays behind in a mounted file system that nobody uses. *)
THEOREM OutputIsReaped ==
  ASSUME Worker!PoolAssumption
  PROVE  Worker!Spec => []Worker!OutputReaped
<1>1. PoolInv => Worker!OutputReaped
  BY Zenon DEF PoolInv
<1> QED
  BY <1>1, PoolInvariant, PTL

-----------------------------------------------------------------------------
(***************************************************************************)
(* FsPool with one task per file system (ReapCount 1): a reply has the     *)
(* files of its task and of no other, though file systems are used again   *)
(* and Shutdown runs at any moment.                                        *)
(*                                                                         *)
(* The argument: from newFs to returnFs the ids of a file system are those *)
(* of the task that has it.  So newFs gives it to nobody else, considerReap*)
(* finds it empty, and what reap finds in it are that task's files.        *)
(***************************************************************************)

Own(t) == [fset |-> TRUE, files |-> {t}, ids |-> {t}]

Holders == In({"starting", "running", "exited", "reap", "ids", "reaped"})
Unreaped == In({"exited", "reap", "ids"})
Reaped == In({"reaped", "fill", "reply"})

Solo ==
  /\ \A t \in Holders : taskIds[fs[t]] = {t}
  /\ In({"return"}) = {}
  /\ \A f \in Fs : output[f] \subseteq Unreaped
  /\ \A t \in Unreaped : err[t] \/ t \in output[fs[t]]
  /\ \A t \in In({"ids"}) : rep[t].ids = {t}
  /\ \A t \in Reaped : err[t] \/ rep[t] = Own(t)
  /\ \A t \in In({"done"}) : rep[t] = Own(t)

IdsFinite == \A f \in Fs : IsFiniteSet(taskIds[f])

SoloInv == IdsFinite /\ (reapCount = 1 => Solo)

-----------------------------------------------------------------------------
(* What the tasks have in common.                                          *)

(* Two tasks do not have the same file system. *)
LEMMA OneHolder ==
  ASSUME Solo, NEW t \in Holders, NEW u \in Holders, fs[t] = fs[u]
  PROVE  t = u
  BY Zenon DEF Solo

(* Steps that only move tasks outside of a file system. *)
LEMMA SoloKept ==
  ASSUME Solo, UNCHANGED <<taskIds, fs, output, err, rep>>,
         Holders' = Holders, In({"return"})' = In({"return"}), Unreaped' = Unreaped,
         In({"ids"})' = In({"ids"}), Reaped' \subseteq Reaped, In({"done"})' = In({"done"})
  PROVE  Solo'
  BY Zenon DEF Solo, Own

(* newFs, for a file system that no task has. *)
LEMMA SoloJoin ==
  ASSUME PoolInv, Solo, NEW t \in Task, NEW f \in Fs, Worker!Join(t, f, {}),
         pc[t] \in {"idle", "woken"}, \A u \in Holders : fs[u] # f
  PROVE  Solo'
<1>1. /\ Holders' = Holders \cup {t} /\ t \notin Holders
      /\ In({"return"})' = In({"return"}) /\ Unreaped' = Unreaped
      /\ In({"ids"})' = In({"ids"}) /\ Reaped' = Reaped /\ In({"done"})' = In({"done"})
  BY Zenon DEF PoolInv, Worker!TypeOK, Worker!Join, Holders, Unreaped, Reaped, In
<1>2. fs'[t] = f /\ \A x \in Task \ {t} : fs'[x] = fs[x]
  BY Zenon DEF PoolInv, Worker!TypeOK, Worker!Join
<1>3. taskIds'[f] = {t} /\ \A g \in Fs \ {f} : taskIds'[g] = taskIds[g]
  BY Zenon DEF PoolInv, Worker!TypeOK, Worker!Join
<1>4. UNCHANGED <<output, err, rep>>
  BY Zenon DEF Worker!Join
<1>5. Holders \subseteq Task /\ Unreaped \subseteq Holders /\ \A u \in Holders : fs[u] \in Fs
  BY Zenon DEF Holders, Unreaped, In, PoolInv, Worker!TypeOK, Members, Owners
<1>6. \A u \in Holders' : taskIds'[fs'[u]] = {u}
  BY <1>1, <1>2, <1>3, <1>5 DEF Solo
<1>7. \A u \in Unreaped' : err'[u] \/ u \in output'[fs'[u]]
  BY <1>1, <1>2, <1>4, <1>5 DEF Solo
<1> QED
  BY <1>1, <1>4, <1>6, <1>7 DEF Solo, Own

(* A file system without ids is no task's, and neither is an unmounted one. *)
LEMMA JoinSolo ==
  ASSUME PoolInv, IdsFinite, Solo, reapCount = 1, NEW t \in Task, NEW f \in Fs,
         Worker!NewFsJoin(t, f) \/ Worker!NewFsMount(t, f)
  PROVE  Solo'
<1>1. pc[t] \in {"idle", "woken"}
  BY Zenon DEF Worker!NewFsJoin, Worker!NewFsMount
<1>2. \A u \in Holders : fs[u] \in made
  BY Zenon DEF PoolInv, Members, Holders, Owners, In
<1>3. CASE Worker!NewFsJoin(t, f)
  <2>1. IsFiniteSet(taskIds[f]) /\ Cardinality(taskIds[f]) < 1
    BY <1>3, Counts, Zenon DEF Worker!NewFsJoin, Worker!Usable, IdsFinite
  <2>2. taskIds[f] = {}
    BY <2>1, FS_EmptySet, FS_CardinalityType
  <2>3. \A u \in Holders : fs[u] # f
    BY <2>2, Zenon DEF Solo
  <2> QED
    BY <1>1, <1>3, <2>2, <2>3, SoloJoin, Zenon DEF Worker!NewFsJoin
<1>4. CASE Worker!NewFsMount(t, f)
  BY <1>1, <1>2, <1>4, SoloJoin, Zenon DEF Worker!NewFsMount
<1> QED
  BY <1>3, <1>4, Zenon

(* The process starts; one that does not is an error, and leaves nothing. *)
LEMMA StartSolo ==
  ASSUME PoolInv, Solo, NEW t \in Task, Worker!Start(t)
  PROVE  Solo'
<1>1. CASE pc' = [pc EXCEPT ![t] = "running"] /\ err' = err
  <2>1. /\ Holders' = Holders /\ In({"return"})' = In({"return"}) /\ Unreaped' = Unreaped
        /\ In({"ids"})' = In({"ids"}) /\ Reaped' = Reaped /\ In({"done"})' = In({"done"})
    BY <1>1 DEF PoolInv, Worker!TypeOK, Worker!Start, Holders, Unreaped, Reaped, In
  <2> QED
    BY <1>1, <2>1, SoloKept, Zenon DEF Worker!Start, Worker!poolVars
<1>2. CASE pc' = [pc EXCEPT ![t] = "exited"] /\ err' = [err EXCEPT ![t] = TRUE]
  <2>1. /\ Holders' = Holders /\ In({"return"})' = In({"return"})
        /\ Unreaped' = Unreaped \cup {t} /\ t \notin Reaped
        /\ In({"ids"})' = In({"ids"}) /\ Reaped' = Reaped /\ In({"done"})' = In({"done"})
    BY <1>2 DEF PoolInv, Worker!TypeOK, Worker!Start, Holders, Unreaped, Reaped, In
  <2>2. err'[t] = TRUE /\ \A x \in Task \ {t} : err'[x] = err[x]
    BY <1>2, Zenon DEF PoolInv, Worker!TypeOK
  <2>3. UNCHANGED <<taskIds, fs, output, rep>>
    BY Zenon DEF Worker!Start, Worker!poolVars
  <2>4. Unreaped \subseteq Task /\ Reaped \subseteq Task
    BY Zenon DEF Unreaped, Reaped, In
  <2>5. \A u \in Unreaped' : err'[u] \/ u \in output'[fs'[u]]
    BY <2>1, <2>2, <2>3, <2>4, Zenon DEF Solo
  <2>6. \A u \in Reaped' : err'[u] \/ rep'[u] = Own(u)
    BY <2>1, <2>2, <2>3, <2>4, Zenon DEF Solo
  <2> QED
    BY <2>1, <2>3, <2>5, <2>6, Zenon DEF Solo, Own
<1> QED
  BY <1>1, <1>2, Zenon DEF Worker!Start

(* The process leaves its files. *)
LEMMA ExitSolo ==
  ASSUME PoolInv, Solo, NEW t \in Task, Worker!Exit(t)
  PROVE  Solo'
<1> DEFINE f == fs[t]
<1>1. f \in Fs
  BY Zenon DEF PoolInv, Worker!TypeOK, Members, Owners, In, Worker!Exit
<1>2. /\ Holders' = Holders /\ In({"return"})' = In({"return"})
      /\ Unreaped' = Unreaped \cup {t}
      /\ In({"ids"})' = In({"ids"}) /\ Reaped' = Reaped /\ In({"done"})' = In({"done"})
  BY DEF PoolInv, Worker!TypeOK, Worker!Exit, Holders, Unreaped, Reaped, In
<1>3. output'[f] = output[f] \cup {t} /\ \A g \in Fs \ {f} : output'[g] = output[g]
  BY <1>1, Zenon DEF PoolInv, Worker!TypeOK, Worker!Exit
<1>4. UNCHANGED <<taskIds, fs, err, rep>>
  BY Zenon DEF Worker!Exit, Worker!poolVars
<1>5. \A u \in Unreaped : fs[u] \in Fs
  BY Zenon DEF PoolInv, Worker!TypeOK, Members, Owners, Unreaped, In
<1>6. \A g \in Fs : output'[g] \subseteq Unreaped'
  BY <1>2, <1>3, Zenon DEF Solo
<1>7. \A u \in Unreaped' : err'[u] \/ u \in output'[fs'[u]]
  BY <1>1, <1>2, <1>3, <1>4, <1>5, ZenonT(60) DEF Solo
<1> QED
  BY <1>2, <1>4, <1>6, <1>7, Zenon DEF Solo, Own

(* The file system has no other task, so it is reaped. *)
LEMMA considerReapSolo ==
  ASSUME PoolInv, Solo, NEW t \in Task, Worker!considerReap(t)
  PROVE  Solo'
<1> DEFINE f == fs[t]
<1>1. f \in Fs /\ t \in Holders /\ Insiders \subseteq Holders
  BY Zenon DEF PoolInv, Worker!TypeOK, Members, Owners, Insiders, Holders, In,
               Worker!considerReap
<1>2. tasks[f] \ {t} = {}
  <2>1. \A u \in tasks[f] : u \in Holders /\ fs[u] = f
    BY <1>1, Zenon DEF PoolInv, Worker!TypeOK, Members
  <2> QED
    BY <1>1, <2>1, OneHolder, Zenon
<1>3. /\ pc[t] = "exited" /\ pc'[t] = "reap"
      /\ \A x \in Task \ {t} : pc'[x] = pc[x] \/ (pc[x] = "blocked" /\ pc'[x] = "woken")
  BY <1>1, <1>2, Zenon DEF PoolInv, Worker!TypeOK, Worker!considerReap, Worker!Woken,
                           Worker!Empties
<1>4. /\ Holders' = Holders /\ In({"return"})' = In({"return"}) /\ Unreaped' = Unreaped
      /\ In({"ids"})' = In({"ids"}) /\ Reaped' = Reaped /\ In({"done"})' = In({"done"})
  BY <1>3, Zenon DEF Holders, Unreaped, Reaped, In
<1> QED
  BY <1>4, SoloKept, Zenon DEF Worker!considerReap

(* The ids are the task's own. *)
LEMMA reapFuseSolo ==
  ASSUME PoolInv, Solo, NEW t \in Task, Worker!reapFuse(t)
  PROVE  Solo'
<1>1. t \in Holders /\ t \notin Reaped /\ t \notin In({"done"})
  BY Zenon DEF Holders, Reaped, In, Worker!reapFuse
<1>2. /\ Holders' = Holders /\ In({"return"})' = In({"return"}) /\ Unreaped' = Unreaped
      /\ In({"ids"})' = In({"ids"}) \cup {t}
      /\ Reaped' = Reaped /\ In({"done"})' = In({"done"})
  BY DEF PoolInv, Worker!TypeOK, Worker!reapFuse, Holders, Unreaped, Reaped, In
<1>3. rep'[t].ids = {t} /\ \A x \in Task \ {t} : rep'[x] = rep[x]
  <2>1. rep' = [rep EXCEPT ![t].ids = {t}]
    BY <1>1, ZenonT(60) DEF Solo, Worker!reapFuse
  <2> QED
    BY <2>1 DEF PoolInv, Worker!TypeOK
<1>4. UNCHANGED <<taskIds, fs, output, err>>
  BY Zenon DEF Worker!reapFuse, Worker!poolVars
<1>5. In({"ids"}) \subseteq Task /\ Reaped \subseteq Task /\ In({"done"}) \subseteq Task
  BY Zenon DEF Reaped, In
<1>6. \A u \in In({"ids"})' : rep'[u].ids = {u}
  BY <1>2, <1>3, <1>5, Zenon DEF Solo
<1>7. /\ \A u \in Reaped' : err'[u] \/ rep'[u] = Own(u)
      /\ \A u \in In({"done"})' : rep'[u] = Own(u)
  BY <1>1, <1>2, <1>3, <1>4, <1>5, Zenon DEF Solo
<1> QED
  BY <1>2, <1>4, <1>6, <1>7, Zenon DEF Solo, Own

(* The files are the task's own. *)
LEMMA reapSolo ==
  ASSUME PoolInv, Solo, NEW t \in Task, Worker!reap(t)
  PROVE  Solo'
<1> DEFINE f == fs[t]
<1>1. f \in Fs /\ t \in Unreaped /\ t \in Holders /\ t \in In({"ids"})
  BY Zenon DEF PoolInv, Worker!TypeOK, Members, Owners, Unreaped, Holders, In, Worker!reap
<1>2. UNCHANGED <<taskIds, fs, err>>
  BY Zenon DEF Worker!reap, Worker!poolVars
<1>3. CASE f \in gone
  <2>1. UNCHANGED <<rep, output, pc>>
    BY <1>3, Zenon DEF Worker!reap
  <2>2. UNCHANGED <<Holders, In({"return"}), Unreaped, In({"ids"}), Reaped, In({"done"})>>
    BY <2>1, ZenonT(60) DEF Holders, Unreaped, Reaped, In
  <2> QED
    BY <1>2, <2>1, <2>2, SoloKept, Zenon
<1>4. CASE f \notin gone
  <2>1. /\ pc' = [pc EXCEPT ![t] = "reaped"]
        /\ output' = [output EXCEPT ![f] = {}]
        /\ rep' = [rep EXCEPT ![t] = [fset |-> TRUE, files |-> output[f], ids |-> @.ids]]
    BY <1>4, Zenon DEF Worker!reap
  <2>2. output[f] \subseteq {t} /\ (err[t] \/ output[f] = {t})
    <3>1. \A u \in output[f] : u \in Holders /\ fs[u] = f
      BY <1>1 DEF PoolInv, Places, Solo, Unreaped, Holders, In
    <3>2. output[f] \subseteq {t}
      BY <1>1, <3>1, OneHolder, Zenon
    <3> QED
      BY <1>1, <3>2 DEF Solo
  <2>3. /\ output'[f] = {} /\ \A g \in Fs \ {f} : output'[g] = output[g]
        /\ rep'[t] = [fset |-> TRUE, files |-> output[f], ids |-> {t}]
        /\ \A u \in Task \ {t} : rep'[u] = rep[u]
    BY <1>1, <2>1, Zenon DEF PoolInv, Worker!TypeOK, Solo
  <2>4. /\ Holders' = Holders /\ In({"return"})' = In({"return"})
        /\ Unreaped' = Unreaped \ {t} /\ In({"ids"})' = In({"ids"}) \ {t}
        /\ Reaped' = Reaped \cup {t} /\ In({"done"})' = In({"done"}) /\ t \notin In({"done"})
    BY <2>1 DEF PoolInv, Worker!TypeOK, Worker!reap, Holders, Unreaped, Reaped, In
  <2>5. /\ Unreaped \subseteq Holders /\ In({"ids"}) \subseteq Task /\ Reaped \subseteq Task
        /\ In({"done"}) \subseteq Task
        /\ \A u \in Unreaped : fs[u] \in Fs
    BY ZenonT(60) DEF PoolInv, Worker!TypeOK, Members, Owners, Unreaped, Holders, Reaped,
                      In
  <2>6. ASSUME NEW g \in Fs PROVE output'[g] \subseteq Unreaped'
    <3>1. CASE g = f
      BY <2>3, <3>1, SMTT(60)
    <3>2. CASE g # f
      <4>1. t \notin output[g] /\ output[g] \subseteq Unreaped
        BY <1>1, <3>2, ZenonT(60) DEF PoolInv, Places, Solo
      <4> QED
        BY <2>3, <2>4, <3>2, <4>1, ZenonT(60)
    <3> QED
      BY <3>1, <3>2, ZenonT(60)
  <2>7. \A u \in Unreaped' : err'[u] \/ u \in output'[fs'[u]]
    <3>1. \A u \in Unreaped \ {t} : fs[u] # f
      BY <1>1, <2>5, OneHolder, ZenonT(60)
    <3> QED
      BY <1>2, <2>3, <2>4, <2>5, <3>1, Zenon DEF Solo
  <2>8. \A u \in In({"ids"})' : rep'[u].ids = {u}
    BY <2>3, <2>4, <2>5, Zenon DEF Solo
  <2>9. \A u \in Reaped' : err'[u] \/ rep'[u] = Own(u)
    BY <1>2, <2>2, <2>3, <2>4, <2>5, Zenon DEF Solo, Own
  <2>10. \A u \in In({"done"})' : rep'[u] = Own(u)
    BY <2>3, <2>4, <2>5, ZenonT(60) DEF Solo
  <2> QED
    BY <1>2, <2>4, <2>6, <2>7, <2>8, <2>9, <2>10, Zenon DEF Solo
<1> QED
  BY <1>3, <1>4, Zenon

(* The file system is given back: nobody else has it. *)
LEMMA returnFsSolo ==
  ASSUME PoolInv, Solo, NEW t \in Task, Worker!returnFs(t)
  PROVE  Solo'
<1> DEFINE f == fs[t]
<1>1. t \notin In({"return"})
  BY Zenon DEF Solo
<1>2. pc[t] = "reaped" /\ t \in Holders /\ t \in Reaped /\ f \in Fs
  BY <1>1, Zenon DEF PoolInv, Worker!TypeOK, Members, Owners, Holders, Reaped, In,
                     Worker!returnFs
<1>3. /\ pc'[t] = "fill"
      /\ \A x \in Task \ {t} : pc'[x] = pc[x] \/ (pc[x] = "blocked" /\ pc'[x] = "woken")
  BY <1>2, Zenon DEF PoolInv, Worker!TypeOK, Worker!returnFs, Worker!Woken
<1>4. /\ Holders' = Holders \ {t} /\ In({"return"})' = In({"return"}) /\ Unreaped' = Unreaped
      /\ In({"ids"})' = In({"ids"}) /\ Reaped' = Reaped /\ In({"done"})' = In({"done"})
  BY <1>2, <1>3, Zenon DEF Holders, Unreaped, Reaped, In
<1>5. \A g \in Fs \ {f} : taskIds'[g] = taskIds[g]
  BY <1>2, Zenon DEF PoolInv, Worker!TypeOK, Worker!returnFs
<1>6. UNCHANGED <<fs, output, err, rep>>
  BY Zenon DEF Worker!returnFs
<1>7. \A u \in Holders' : taskIds'[fs'[u]] = {u}
  <2>1. \A u \in Holders' : fs[u] \in Fs \ {f}
    <3>1. \A u \in Holders : fs[u] \in Fs
      BY Zenon DEF PoolInv, Worker!TypeOK, Members, Owners, Holders, In
    <3> QED
      BY <1>2, <1>4, <3>1, OneHolder, Zenon
  <2> QED
    BY <1>4, <1>5, <1>6, <2>1, Zenon DEF Solo
<1> QED
  BY <1>4, <1>6, <1>7 DEF Solo, Own

(* fillReply and the end of Run leave the reply as it is. *)
LEMMA ReplySolo ==
  ASSUME PoolInv, Solo, NEW t \in Task, Worker!fillReply(t) \/ Worker!Reply(t)
  PROVE  Solo'
<1>1. UNCHANGED <<taskIds, fs, output, err, rep>>
  BY Zenon DEF Worker!fillReply, Worker!Reply, Worker!poolVars
<1>2. CASE Worker!fillReply(t)
  <2>1. pc' = pc \/ (pc[t] = "fill" /\ pc' = [pc EXCEPT ![t] = "reply"])
    BY <1>2, Zenon DEF Worker!fillReply
  <2>2. /\ Holders' = Holders /\ In({"return"})' = In({"return"}) /\ Unreaped' = Unreaped
        /\ In({"ids"})' = In({"ids"}) /\ Reaped' = Reaped /\ In({"done"})' = In({"done"})
    BY <2>1, ZenonT(60) DEF PoolInv, Worker!TypeOK, Holders, Unreaped, Reaped, In
  <2> QED
    BY <1>1, <2>2, SoloKept, ZenonT(60)
<1>3. CASE Worker!Reply(t)
  <2>1. t \in Reaped /\ (pc'[t] = "failed" \/ (pc'[t] = "done" /\ ~err[t]))
    BY <1>3, Zenon DEF PoolInv, Worker!TypeOK, Worker!Reply, Reaped, In
  <2>2. \A x \in Task \ {t} : pc'[x] = pc[x]
    BY <1>3, Zenon DEF PoolInv, Worker!TypeOK, Worker!Reply
  <2>3. /\ Holders' = Holders /\ In({"return"})' = In({"return"}) /\ Unreaped' = Unreaped
        /\ In({"ids"})' = In({"ids"}) /\ Reaped' \subseteq Reaped
    BY <1>3, <2>1, <2>2, Zenon DEF Worker!Reply, Holders, Unreaped, Reaped, In
  <2>4. \A u \in In({"done"})' : u \in In({"done"}) \/ (u = t /\ ~err[t])
    BY <2>1, <2>2, ZenonT(60) DEF In
  <2>5. \A u \in In({"done"})' : rep'[u] = Own(u)
    BY <1>1, <2>1, <2>4, Zenon DEF Solo
  <2> QED
    BY <1>1, <2>3, <2>5, Zenon DEF Solo, Own
<1> QED
  BY <1>2, <1>3, Zenon

(* Steps that change nothing of a task with a file system. *)
LEMMA OtherSolo ==
  ASSUME PoolInv, Solo,
         \/ \E t \in Task : Worker!NewFsWait(t) \/ Worker!NewFsRefused(t) \/ Worker!NewFsFail(t)
         \/ \E p \in Shutdowns : Worker!Shutdown(p) \/ Worker!ShutdownWake(p)
         \/ UNCHANGED Worker!vars
  PROVE  Solo'
<1>1. UNCHANGED <<taskIds, fs, output, err, rep>>
  BY Zenon DEF Worker!NewFsWait, Worker!NewFsRefused, Worker!NewFsFail, Worker!Shutdown,
               Worker!ShutdownWake, Worker!poolVars, Worker!vars
<1>2. \/ pc' = pc
      \/ \E t \in Task, q \in {"blocked", "refused", "failed"} :
           pc[t] \in {"idle", "woken"} /\ pc' = [pc EXCEPT ![t] = q]
  BY Zenon DEF Worker!NewFsWait, Worker!NewFsRefused, Worker!NewFsFail, Worker!Shutdown,
               Worker!ShutdownWake, Worker!vars
<1>3. /\ Holders' = Holders /\ In({"return"})' = In({"return"}) /\ Unreaped' = Unreaped
      /\ In({"ids"})' = In({"ids"}) /\ Reaped' = Reaped /\ In({"done"})' = In({"done"})
  BY <1>2 DEF PoolInv, Worker!TypeOK, Holders, Unreaped, Reaped, In
<1> QED
  BY <1>1, <1>3, SoloKept, Zenon

-----------------------------------------------------------------------------
(* A file system's ids are finitely many. *)
LEMMA IdsStayFinite ==
  ASSUME Worker!TypeOK, IdsFinite, [Worker!Next]_Worker!vars
  PROVE  IdsFinite'
<1>1. CASE taskIds' = taskIds
  BY <1>1, Zenon DEF IdsFinite
<1>2. ASSUME NEW f, NEW S, IsFiniteSet(S), taskIds' = [taskIds EXCEPT ![f] = S]
      PROVE  IdsFinite'
  BY <1>2, Zenon DEF Worker!TypeOK, IdsFinite
<1>3. ASSUME NEW t \in Task, NEW f \in Fs, Worker!NewFsJoin(t, f) PROVE IdsFinite'
  <2>1. IsFiniteSet(taskIds[f] \cup {t})
    BY FS_AddElement, Zenon DEF IdsFinite
  <2> QED
    BY <1>2, <1>3, <2>1, Zenon DEF Worker!NewFsJoin, Worker!Join
<1>4. ASSUME NEW t \in Task, NEW f \in Fs, Worker!NewFsMount(t, f) PROVE IdsFinite'
  <2>1. IsFiniteSet({} \cup {t})
    BY FS_AddElement, FS_EmptySet, Zenon
  <2> QED
    BY <1>2, <1>4, <2>1, Zenon DEF Worker!NewFsMount, Worker!Join
<1>5. ASSUME NEW t \in Task, Worker!newFs(t) PROVE IdsFinite'
  BY <1>1, <1>3, <1>4, <1>5, Zenon DEF Worker!newFs, Worker!NewFsWait,
                                       Worker!NewFsRefused, Worker!NewFsFail,
                                       Worker!poolVars
<1>6. ASSUME NEW t \in Task, Worker!Start(t) \/ Worker!Exit(t) PROVE IdsFinite'
  BY <1>1, <1>6, Zenon DEF Worker!Start, Worker!Exit, Worker!poolVars
<1>7. ASSUME NEW t \in Task, Worker!returnFs(t) PROVE IdsFinite'
  <2>1. taskIds' = [taskIds EXCEPT ![fs[t]] = {}] \/ taskIds' = taskIds
    BY <1>7, Zenon DEF Worker!TypeOK, Worker!returnFs
  <2> QED
    BY <1>1, <1>2, <2>1, FS_EmptySet, Zenon
<1>8. ASSUME NEW t \in Task,
             \/ Worker!considerReap(t) \/ Worker!reapFuse(t) \/ Worker!reap(t)
             \/ Worker!fillReply(t) \/ Worker!Reply(t)
      PROVE  IdsFinite'
  BY <1>1, <1>8, Zenon DEF Worker!considerReap, Worker!reapFuse, Worker!reap,
                           Worker!fillReply, Worker!Reply, Worker!poolVars
<1>9. ASSUME NEW p \in Shutdowns, Worker!Shutdown(p) \/ Worker!ShutdownWake(p)
      PROVE  IdsFinite'
  BY <1>1, <1>9, Zenon DEF Worker!Shutdown, Worker!ShutdownWake, Worker!poolVars
<1>10. CASE UNCHANGED Worker!vars
  BY <1>1, <1>10, Zenon DEF Worker!vars, Worker!poolVars
<1> QED
  BY <1>5, <1>6, <1>7, <1>8, <1>9, <1>10, Zenon DEF Worker!Next, Worker!Leave

(* Every step keeps the tasks alone. *)
LEMMA SoloNext ==
  ASSUME PoolInv, SoloInv, [Worker!Next]_Worker!vars
  PROVE  SoloInv'
<1>1. IdsFinite'
  BY IdsStayFinite, Zenon DEF PoolInv, SoloInv
<1>2. reapCount' = reapCount
  BY ZenonT(60)
     DEF Worker!Next, Worker!newFs, Worker!NewFsWait, Worker!NewFsRefused,
         Worker!NewFsJoin, Worker!NewFsMount, Worker!NewFsFail, Worker!Join,
         Worker!Start, Worker!Exit, Worker!Leave, Worker!considerReap,
         Worker!reapFuse, Worker!reap, Worker!returnFs, Worker!fillReply,
         Worker!Reply, Worker!Shutdown, Worker!ShutdownWake, Worker!poolVars, Worker!vars
<1>3. ASSUME reapCount = 1 PROVE Solo'
  <2>1. Solo /\ IdsFinite
    BY <1>3, Zenon DEF SoloInv
  <2>2. ASSUME NEW t \in Task, Worker!newFs(t) PROVE Solo'
    BY <1>3, <2>1, <2>2, JoinSolo, OtherSolo, Zenon DEF Worker!newFs
  <2>3. ASSUME NEW t \in Task, Worker!Start(t) \/ Worker!Exit(t) PROVE Solo'
    BY <2>1, <2>3, StartSolo, ExitSolo, Zenon
  <2>4. ASSUME NEW t \in Task, Worker!Leave(t) PROVE Solo'
    BY <2>1, <2>4, considerReapSolo, reapFuseSolo, reapSolo, returnFsSolo, ReplySolo,
           Zenon DEF Worker!Leave
  <2>5. ASSUME NEW p \in Shutdowns, Worker!Shutdown(p) \/ Worker!ShutdownWake(p) PROVE Solo'
    BY <2>1, <2>5, OtherSolo, Zenon
  <2>6. CASE UNCHANGED Worker!vars
    BY <2>1, <2>6, OtherSolo, Zenon
  <2> QED
    BY <2>2, <2>3, <2>4, <2>5, <2>6, Zenon DEF Worker!Next
<1> QED
  BY <1>1, <1>2, <1>3, Zenon DEF SoloInv

(* With one task per file system a reply has the files of its task and of  *)
(* no other, whatever file systems are used again, and whoever shuts down. *)
THEOREM TasksIsolated ==
  ASSUME Worker!PoolAssumption
  PROVE  Worker!Spec => []Worker!Isolated
<1>1. Worker!Init => SoloInv
  BY FS_EmptySet, Zenon DEF Worker!Init, SoloInv, IdsFinite, Solo, Holders, Unreaped,
                            Reaped, In
<1>2. PoolInv /\ SoloInv /\ [Worker!Next]_Worker!vars => SoloInv'
  BY SoloNext, Zenon
<1>3. SoloInv => Worker!Isolated
  BY Zenon DEF SoloInv, Solo, Worker!Isolated, In, Own
<1> QED
  BY <1>1, <1>2, <1>3, PoolInvariant, PTL DEF Worker!Spec

-----------------------------------------------------------------------------
(* The master's end, FileSetWaiter, which has besides the variables of the *)
(* pipeline the fault that can happen, the answers given and the tasks     *)
(* whose files were left behind.                                           *)
CONSTANT Faults
VARIABLES fault, answer, left

Waiter == INSTANCE FileSetWaiter

(* What the worker's answer says of where a task's goroutine is. *)
Answers ==
  \A t \in Task :
    /\ answer[t] = "no" =>
         wpc[t] \in {"idle", "calling"} /\ ids[t] = {} /\ t \notin replayed
    /\ answer[t] = "none" => wpc[t] \in {"calling", "waiting", "ok", "err"} /\ ids[t] = {}
    /\ answer[t] = "files" =>
         wpc[t] \in {"calling", "process", "signal", "ok", "err"} /\ t \in ids[t]

(* A task answered without files is in one batch, or is yet to be in one. *)
Batches ==
  /\ \A t, u \in Task : u \in ids[t] /\ u # t => answer[u] = "none"
  /\ \A t, u \in Task : t # u => ids[t] \cap ids[u] = {}
  /\ \A t \in Task : left \cap ids[t] = {}
  /\ \A t \in Task : todo[t] \subseteq ids[t] \ {t}
  /\ \A t \in Task : wpc[t] # "signal" => todo[t] = {}

Ahead(t) == wpc[t] \in {"calling", "process"}

(* Channels are open until the batch is over. *)
Channels ==
  /\ \A t \in Task : wpc[t] = "idle" => ch[t] = "none"
  /\ \A t \in Task : wpc[t] = "calling" /\ answer[t] = "no" => ch[t] = "open"
  /\ \A u \in left : ch[u] = "open"
  /\ \A t, u \in Task : Ahead(t) /\ u \in ids[t] /\ u # t => ch[u] = "open"
  /\ \A t \in Task : \A u \in todo[t] : ch[u] = "open"
  /\ \A u \in Task : answer[u] = "none" => ch[u] # "none"
  /\ \A u \in Task : answer[u] = "none" /\ ch[u] = "open" /\ fault # "call" =>
       wpc[u] \in {"calling", "waiting"}

(* A batch is replayed as a whole, once, unless fetching fails. *)
Replays ==
  /\ \A u \in left : u \notin replayed
  /\ \A t \in Task : Ahead(t) => ids[t] \cap replayed = {}
  /\ \A t \in Task : wpc[t] = "signal" =>
       IF failed[t] THEN fault = "fetch" /\ ids[t] \cap replayed = {}
                    ELSE ids[t] \subseteq replayed

(* What a closed channel says. *)
Closings ==
  \A u \in Task : answer[u] = "none" =>
    /\ ch[u] = "signalled" => u \in replayed
    /\ ch[u] = "flushed" => fault = "fetch" /\ u \notin replayed

WaiterInv ==
  /\ Waiter!TypeOK /\ Waiter!NoPanic /\ Waiter!ErrMeansNotReplayed
  /\ Answers /\ Batches /\ Channels /\ Replays /\ Closings

-----------------------------------------------------------------------------
(* Prepare registers a channel for a task that has none: no second one. *)
LEMMA PrepareKeeps ==
  ASSUME WaiterInv, NEW t \in Task,
         Waiter!Prepare(t), UNCHANGED <<answer, left>>, ~panicked
  PROVE  WaiterInv'
<1>1. (Waiter!TypeOK /\ Waiter!ErrMeansNotReplayed /\ Answers /\ Batches /\ Closings)'
  BY DEF WaiterInv, Waiter!Prepare, Waiter!TypeOK, Waiter!ErrMeansNotReplayed, Answers,
         Batches, Closings
<1>2. Waiter!NoPanic'
  BY Zenon DEF WaiterInv, Channels, Waiter!Prepare, Waiter!NoPanic
<1>3. Channels'
  BY DEF WaiterInv, Waiter!TypeOK, Answers, Ahead, Waiter!Prepare, Channels
<1>4. Replays'
  BY DEF WaiterInv, Waiter!TypeOK, Answers, Ahead, Waiter!Prepare, Replays
<1> QED
  BY <1>1, <1>2, <1>3, <1>4, Zenon DEF WaiterInv

(* A lost reply only ends its own task's wait. *)
LEMMA ReplyLostKeeps ==
  ASSUME WaiterInv, NEW t \in Task,
         Waiter!ReplyLost(t), UNCHANGED <<answer, left>>, ~panicked
  PROVE  WaiterInv'
  BY DEF WaiterInv, Waiter!ReplyLost, Waiter!CallError, Ahead, Waiter!TypeOK,
         Waiter!NoPanic, Waiter!ErrMeansNotReplayed, Answers, Batches, Channels,
         Replays, Closings

(* WaitFind changes nothing but where the goroutine is. *)
LEMMA WaitFindKeeps ==
  ASSUME WaiterInv, NEW t \in Task,
         Waiter!WaitFind(t), answer[t] = "none", UNCHANGED <<answer, left>>, ~panicked
  PROVE  WaiterInv'
  BY DEF WaiterInv, Waiter!WaitFind, Ahead, Waiter!TypeOK, Waiter!NoPanic,
         Waiter!ErrMeansNotReplayed, Answers, Batches, Channels, Replays, Closings

(* WaitFiles: the batch is about to be replayed. *)
LEMMA WaitFilesKeeps ==
  ASSUME WaiterInv, NEW t \in Task,
         Waiter!WaitFiles(t, ids[t]), answer[t] = "files",
         UNCHANGED <<answer, left>>, ~panicked
  PROVE  WaiterInv'
  BY DEF WaiterInv, Waiter!WaitFiles, Ahead, Waiter!TypeOK, Waiter!NoPanic,
         Waiter!ErrMeansNotReplayed, Answers, Batches, Channels, Replays, Closings

(* Process replays the batch, none of whose tasks has been reported, or nothing. *)
LEMMA ProcessKeeps ==
  ASSUME WaiterInv, NEW t \in Task, NEW fails \in {FALSE, fault = "fetch"},
         Waiter!Process(t, ids[t], fails), UNCHANGED <<answer, left>>, ~panicked
  PROVE  WaiterInv'
<1>1. (Waiter!TypeOK /\ Waiter!NoPanic)'
  BY Zenon DEF WaiterInv, Waiter!Process, Waiter!TypeOK, Waiter!NoPanic
<1>2. Waiter!ErrMeansNotReplayed'
  BY DEF WaiterInv, Batches, Channels, Ahead, Waiter!Process, Waiter!ErrMeansNotReplayed
<1>3. Answers'
  BY DEF WaiterInv, Batches, Waiter!Process, Answers
<1>4. Batches'
  BY DEF WaiterInv, Waiter!TypeOK, Waiter!Process, Batches
<1>5. Channels'
  BY DEF WaiterInv, Waiter!TypeOK, Ahead, Waiter!Process, Channels
<1>6. Replays'
  <2>1. fails \in BOOLEAN /\ (fails => fault = "fetch")
    BY Zenon
  <2>2. CASE fails
    BY <2>1, <2>2 DEF WaiterInv, Waiter!TypeOK, Answers, Batches, Replays, Ahead,
                      Waiter!Process
  <2>3. CASE ~fails
    BY <2>1, <2>3 DEF WaiterInv, Waiter!TypeOK, Answers, Batches, Replays, Ahead,
                      Waiter!Process
  <2> QED
    BY <2>1, <2>2, <2>3, Zenon
<1>7. Closings'
  BY Zenon DEF WaiterInv, Answers, Channels, Ahead, Waiter!Process, Closings
<1> QED
  BY <1>1, <1>2, <1>3, <1>4, <1>5, <1>6, <1>7, Zenon DEF WaiterInv

(* signal closes the channel of a task whose batch was replayed. *)
LEMMA signalKeeps ==
  ASSUME WaiterInv, NEW t \in Task, NEW u \in Task,
         Waiter!signal(t, u), UNCHANGED <<answer, left>>, ~panicked
  PROVE  WaiterInv'
<1>1. (Waiter!TypeOK /\ Waiter!NoPanic /\ Waiter!ErrMeansNotReplayed
       /\ Answers /\ Batches /\ Replays)'
  BY DEF WaiterInv, Waiter!signal, Ahead, Waiter!TypeOK, Waiter!NoPanic,
         Waiter!ErrMeansNotReplayed, Answers, Batches, Replays
<1>2. Channels'
  BY DEF WaiterInv, Waiter!TypeOK, Batches, Ahead, Waiter!signal, Channels
<1>3. Closings'
  BY DEF WaiterInv, Batches, Replays, Waiter!signal, Closings
<1> QED
  BY <1>1, <1>2, <1>3, Zenon DEF WaiterInv

(* flush closes an open channel, of a task whose batch was not replayed. *)
LEMMA flushKeeps ==
  ASSUME WaiterInv, NEW t \in Task, NEW u \in Task,
         Waiter!flush(t, u), UNCHANGED <<answer, left>>, ~panicked
  PROVE  WaiterInv'
<1>1. (Waiter!TypeOK /\ Waiter!ErrMeansNotReplayed /\ Answers /\ Batches /\ Replays)'
  BY DEF WaiterInv, Waiter!flush, Ahead, Waiter!TypeOK, Waiter!ErrMeansNotReplayed,
         Answers, Batches, Replays
<1>2. Waiter!NoPanic'
  BY Zenon DEF WaiterInv, Channels, Waiter!flush, Waiter!NoPanic
<1>3. Channels'
  BY DEF WaiterInv, Waiter!TypeOK, Batches, Ahead, Waiter!flush, Channels
<1>4. Closings'
  BY DEF WaiterInv, Batches, Replays, Waiter!flush, Closings
<1> QED
  BY <1>1, <1>2, <1>3, <1>4, Zenon DEF WaiterInv

(* WaitDone reports what became of the batch. *)
LEMMA WaitDoneKeeps ==
  ASSUME WaiterInv, NEW t \in Task,
         Waiter!WaitDone(t), UNCHANGED <<answer, left>>, ~panicked
  PROVE  WaiterInv'
<1>1. (Waiter!TypeOK /\ Waiter!NoPanic /\ Answers /\ Batches /\ Replays /\ Closings)'
  BY DEF WaiterInv, Waiter!WaitDone, Ahead, Waiter!TypeOK, Waiter!NoPanic, Answers,
         Batches, Replays, Closings
<1>2. Waiter!ErrMeansNotReplayed'
  BY DEF WaiterInv, Waiter!TypeOK, Answers, Replays, Waiter!WaitDone,
         Waiter!ErrMeansNotReplayed
<1>3. Channels'
  BY DEF WaiterInv, Waiter!TypeOK, Answers, Batches, Ahead, Waiter!WaitDone, Channels
<1> QED
  BY <1>1, <1>2, <1>3, Zenon DEF WaiterInv

(* Receive reports what the closed channel says. *)
LEMMA ReceiveKeeps ==
  ASSUME WaiterInv, NEW t \in Task,
         Waiter!Receive(t), UNCHANGED <<answer, left>>, ~panicked
  PROVE  WaiterInv'
<1>1. (Waiter!TypeOK /\ Waiter!NoPanic
       /\ Answers /\ Batches /\ Channels /\ Replays /\ Closings)'
  BY DEF WaiterInv, Waiter!Receive, Ahead, Waiter!TypeOK, Waiter!NoPanic, Answers,
         Batches, Channels, Replays, Closings
<1>2. Waiter!ErrMeansNotReplayed'
  BY Zenon DEF WaiterInv, Waiter!TypeOK, Answers, Closings, Waiter!Receive,
               Waiter!ErrMeansNotReplayed
<1> QED
  BY <1>1, <1>2, Zenon DEF WaiterInv

(* The worker answers without files: the task will be in the next batch. *)
LEMMA RunNoneKeeps ==
  ASSUME WaiterInv, NEW t \in Task,
         Waiter!RunNone(t), ~panicked
  PROVE  WaiterInv'
<1>1. (Waiter!TypeOK /\ Waiter!NoPanic /\ Waiter!ErrMeansNotReplayed
       /\ Answers /\ Channels)'
  BY DEF WaiterInv, Waiter!RunNone, Waiter!waitVars, Waiter!Running, Ahead,
         Waiter!TypeOK, Waiter!NoPanic, Waiter!ErrMeansNotReplayed, Answers, Channels
<1>2. Batches'
  BY DEF WaiterInv, Answers, Waiter!RunNone, Waiter!Running, Waiter!waitVars, Batches
<1>3. Replays'
  BY Zenon DEF WaiterInv, Answers, Ahead, Waiter!RunNone, Waiter!Running,
               Waiter!waitVars, Replays
<1>4. Closings'
  BY DEF WaiterInv, Channels, Waiter!RunNone, Waiter!Running, Waiter!waitVars, Closings
<1> QED
  BY <1>1, <1>2, <1>3, <1>4, Zenon DEF WaiterInv

(* The worker answers with files: a new batch of tasks that wait. *)
LEMMA RunFilesKeeps ==
  ASSUME WaiterInv, NEW t \in Task,
         Waiter!RunFiles(t), ~panicked
  PROVE  WaiterInv'
<1>1. (Waiter!TypeOK /\ Waiter!NoPanic /\ Waiter!ErrMeansNotReplayed
       /\ Channels /\ Closings)'
  BY DEF WaiterInv, Waiter!RunFiles, Ahead, Waiter!TypeOK, Waiter!NoPanic,
         Waiter!ErrMeansNotReplayed, Channels, Closings
<1>2. Answers'
  BY DEF WaiterInv, Waiter!TypeOK, Waiter!RunFiles, Waiter!Running, Answers
<1>3. Batches'
  BY DEF WaiterInv, Waiter!TypeOK, Waiter!RunFiles, Waiter!Running, Batches
<1>4. Replays'
  BY DEF WaiterInv, Answers, Ahead, Waiter!RunFiles, Waiter!Running, Replays
<1> QED
  BY <1>1, <1>2, <1>3, <1>4, Zenon DEF WaiterInv

-----------------------------------------------------------------------------
(* Before the first Prepare. *)
LEMMA WaiterInit == Waiter!Init => WaiterInv
<1> SUFFICES ASSUME Waiter!Init PROVE WaiterInv
  BY Zenon
<1>1. Waiter!TypeOK /\ Waiter!NoPanic
  BY Zenon DEF Waiter!Init, Waiter!WaitInit, Waiter!TypeOK, Waiter!NoPanic
<1>2. Waiter!ErrMeansNotReplayed /\ Answers /\ Batches
  BY Zenon DEF Waiter!Init, Waiter!WaitInit, Waiter!ErrMeansNotReplayed, Answers,
               Batches
<1>3. Channels /\ Replays /\ Closings
  BY Zenon DEF Waiter!Init, Waiter!WaitInit, Channels, Replays, Closings, Ahead
<1> QED
  BY <1>1, <1>2, <1>3, Zenon DEF WaiterInv

(* Every step of a goroutine or of the worker keeps the invariant. *)
LEMMA WaiterNext == WaiterInv /\ [Waiter!Next]_Waiter!vars => WaiterInv'
<1> SUFFICES ASSUME WaiterInv, [Waiter!Next]_Waiter!vars PROVE WaiterInv'
  BY Zenon
<1>1. CASE UNCHANGED Waiter!vars
  BY <1>1 DEF Waiter!vars, Waiter!waitVars, WaiterInv, Waiter!TypeOK, Waiter!NoPanic,
              Waiter!ErrMeansNotReplayed, Answers, Batches, Channels, Replays, Closings,
              Ahead
<1>2. CASE Waiter!Next
  <2>1. PICK t \in Task :
          \/ Waiter!RunNone(t) \/ Waiter!RunFiles(t)
          \/ /\ Waiter!Prepare(t) \/ Waiter!ReplyLost(t) \/ Waiter!Step(t)
             /\ UNCHANGED <<answer, left>>
    BY <1>2, Zenon DEF Waiter!Next
  <2>2. ~panicked
    BY <1>2, Zenon DEF Waiter!Next
  <2>3. CASE Waiter!RunNone(t) \/ Waiter!RunFiles(t)
    BY <2>2, <2>3, RunNoneKeeps, RunFilesKeeps, Zenon
  <2>4. CASE (Waiter!Prepare(t) \/ Waiter!ReplyLost(t)) /\ UNCHANGED <<answer, left>>
    BY <2>2, <2>4, PrepareKeeps, ReplyLostKeeps, Zenon
  <2>5. CASE Waiter!Step(t) /\ UNCHANGED <<answer, left>>
    <3>1. CASE answer[t] = "none" /\ Waiter!WaitFind(t)
      BY <2>2, <2>5, <3>1, WaitFindKeeps, Zenon
    <3>2. CASE answer[t] = "files" /\ Waiter!WaitFiles(t, ids[t])
      BY <2>2, <2>5, <3>2, WaitFilesKeeps, Zenon
    <3>3. CASE \E fails \in {FALSE, fault = "fetch"} : Waiter!Process(t, ids[t], fails)
      BY <2>2, <2>5, <3>3, ProcessKeeps, Zenon
    <3>4. CASE Waiter!Signals(t)
      BY <2>2, <2>5, <3>4, signalKeeps, flushKeeps, Zenon DEF Waiter!Signals
    <3>5. CASE Waiter!WaitDone(t) \/ Waiter!Receive(t)
      BY <2>2, <2>5, <3>5, WaitDoneKeeps, ReceiveKeeps, Zenon
    <3> QED
      BY <2>5, <3>1, <3>2, <3>3, <3>4, <3>5, Zenon DEF Waiter!Step
  <2> QED
    BY <2>1, <2>3, <2>4, <2>5, Zenon
<1> QED
  BY <1>1, <1>2, Zenon

(* The invariant of the waiter: batches are replayed whole and once, and   *)
(* channels are closed after that.                                         *)
THEOREM WaiterInvariant == Waiter!Spec => []WaiterInv
  BY WaiterInit, WaiterNext, PTL DEF Waiter!Spec

(* Wait never closes a nil channel and Prepare never finds one of its id,  *)
(* for any number of tasks, with lost replies and failing fetches.         *)
THEOREM NeverPanics == Waiter!Spec => []Waiter!NoPanic
<1>1. WaiterInv => Waiter!NoPanic
  BY Zenon DEF WaiterInv
<1> QED
  BY <1>1, WaiterInvariant, PTL

(* A task that got an error because fetching failed has left nothing in    *)
(* the master's file system.                                               *)
THEOREM ErrorsLeaveNothing == Waiter!Spec => []Waiter!ErrMeansNotReplayed
<1>1. WaiterInv => Waiter!ErrMeansNotReplayed
  BY Zenon DEF WaiterInv
<1> QED
  BY <1>1, WaiterInvariant, PTL

(* A goroutine that says ok, of a task whose files were replayed, takes    *)
(* the step Report of JobService.                                          *)
LEMMA OkReports ==
  ASSUME NEW t \in Task, Waiter!TypeOK, wpc[t] \notin {"ok", "err"}, t \in replayed,
         wpc' = [wpc EXCEPT ![t] = "ok"], replayed' = replayed
  PROVE  Waiter!Job!Next
<1>1. Waiter!job' = [Waiter!job EXCEPT ![t] = "ok"] /\ Waiter!job[t] = "sent"
  BY Zenon DEF Waiter!TypeOK, Waiter!job
<1> QED
  BY <1>1, Zenon DEF Waiter!Job!Next, Waiter!Job!Report

(* While nothing fails, a step of the waiter applies a batch of jobs,      *)
(* reports one job, or is none of JobService's business.                   *)
LEMMA StepsOfJobs ==
  ASSUME WaiterInv, Waiter!Next, fault = "none"
  PROVE  Waiter!Job!Next \/ UNCHANGED <<Waiter!job, replayed>>
<1>1. PICK t \in Task :
        \/ Waiter!RunNone(t) \/ Waiter!RunFiles(t)
        \/ /\ Waiter!Prepare(t) \/ Waiter!ReplyLost(t) \/ Waiter!Step(t)
           /\ UNCHANGED <<answer, left>>
  BY Zenon DEF Waiter!Next
<1>2. CASE Waiter!RunNone(t) \/ Waiter!RunFiles(t)
  BY <1>2, Zenon DEF Waiter!RunNone, Waiter!RunFiles, Waiter!waitVars, Waiter!job
<1>3. CASE Waiter!Prepare(t)
  BY <1>3, Zenon DEF WaiterInv, Waiter!TypeOK, Waiter!Prepare, Waiter!job
<1>4. CASE Waiter!ReplyLost(t)
  BY <1>4, Zenon DEF Waiter!ReplyLost
<1>5. CASE answer[t] = "none" /\ Waiter!WaitFind(t)
  <2>1. CASE ch[t] = "open"
    BY <1>5, <2>1, Zenon DEF WaiterInv, Waiter!TypeOK, Waiter!WaitFind, Waiter!job
  <2>2. CASE ch[t] # "open"
    <3>1. ch[t] = "signalled" /\ t \in replayed
      BY <1>5, <2>2, Zenon DEF WaiterInv, Waiter!TypeOK, Channels, Closings
    <3>2. wpc' = [wpc EXCEPT ![t] = "ok"] /\ replayed' = replayed /\ wpc[t] = "calling"
      BY <1>5, <2>2, Zenon DEF Waiter!WaitFind
    <3> QED
      BY <3>1, <3>2, OkReports, Zenon DEF WaiterInv
  <2> QED
    BY <2>1, <2>2, Zenon
<1>6. CASE Waiter!WaitFiles(t, ids[t])
  BY <1>6, Zenon DEF WaiterInv, Waiter!TypeOK, Waiter!WaitFiles, Waiter!job
<1>7. CASE \E fails \in {FALSE, fault = "fetch"} : Waiter!Process(t, ids[t], fails)
  <2>1. Waiter!Process(t, ids[t], FALSE)
    BY <1>7, Zenon
  <2>2. ids[t] \in SUBSET Task /\ ids[t] \cap replayed = {}
    BY <2>1, Zenon DEF WaiterInv, Waiter!TypeOK, Replays, Ahead, Waiter!Process
  <2>3. \A u \in ids[t] : Waiter!job[u] = "sent"
    BY <2>1, <2>2, Zenon DEF WaiterInv, Waiter!TypeOK, Batches, Channels, Ahead,
                             Waiter!Process, Waiter!job
  <2>4. replayed' = replayed \cup ids[t]
    BY <2>1, Zenon DEF Waiter!Process
  <2>5. Waiter!job' = Waiter!job
    BY <2>1, Zenon DEF WaiterInv, Waiter!TypeOK, Waiter!Process, Waiter!job
  <2> QED
    BY <2>2, <2>3, <2>4, <2>5, Zenon DEF Waiter!Job!Next, Waiter!Job!Apply
<1>8. CASE Waiter!Signals(t)
  BY <1>8, Zenon DEF Waiter!Signals, Waiter!signal, Waiter!flush, Waiter!job
<1>9. CASE Waiter!WaitDone(t)
  <2>1. ~failed[t] /\ t \in replayed
    BY <1>9, Zenon DEF WaiterInv, Waiter!TypeOK, Answers, Replays, Waiter!WaitDone
  <2>2. wpc' = [wpc EXCEPT ![t] = "ok"] /\ replayed' = replayed /\ wpc[t] = "signal"
    BY <1>9, <2>1, Zenon DEF Waiter!WaitDone
  <2> QED
    BY <2>1, <2>2, OkReports, Zenon DEF WaiterInv
<1>10. CASE Waiter!Receive(t)
  <2>1. ch[t] = "signalled" /\ t \in replayed
    BY <1>10, Zenon DEF WaiterInv, Waiter!TypeOK, Answers, Closings, Waiter!Receive
  <2>2. wpc' = [wpc EXCEPT ![t] = "ok"] /\ replayed' = replayed /\ wpc[t] = "waiting"
    BY <1>10, <2>1, Zenon DEF Waiter!Receive
  <2> QED
    BY <2>1, <2>2, OkReports, Zenon DEF WaiterInv
<1> QED
  BY <1>1, <1>2, <1>3, <1>4, <1>5, <1>6, <1>7, <1>8, <1>9, <1>10, Zenon DEF Waiter!Step

(* The waiter implements JobService while nothing fails: files are applied *)
(* at most once, and a task is reported as run only after its files were,  *)
(* in whatever order replies and signals arrive.                           *)
THEOREM TakesJobSteps == Waiter!Spec => Waiter!JobSteps
<1>1. Waiter!Init => Waiter!Job!Init
  BY Zenon DEF Waiter!Init, Waiter!WaitInit, Waiter!Job!Init, Waiter!job
<1>2. WaiterInv /\ [Waiter!Next]_Waiter!vars
      => [fault = "none" => Waiter!Job!Next]_<<Waiter!job, replayed>>
  <2> SUFFICES ASSUME WaiterInv, [Waiter!Next]_Waiter!vars, fault = "none"
               PROVE  Waiter!Job!Next \/ UNCHANGED <<Waiter!job, replayed>>
    BY Zenon
  <2>1. CASE UNCHANGED Waiter!vars
    BY <2>1, Zenon DEF Waiter!vars, Waiter!waitVars, Waiter!job
  <2> QED
    BY <2>1, StepsOfJobs, Zenon
<1> QED
  BY <1>1, <1>2, WaiterInvariant, PTL DEF Waiter!Spec, Waiter!JobSteps

-----------------------------------------------------------------------------
(* JobService's job, in the refinement mapping of TaskPipeline. *)
JobOf == [t \in Task |-> IF wpc[t] \in {"ok", "err"} THEN wpc[t] ELSE "sent"]

MasterTypes ==
  /\ wpc \in [Task -> {"idle", "calling", "waiting", "process", "signal", "ok", "err"}]
  /\ ids \in [Task -> SUBSET Task] /\ todo \in [Task -> SUBSET Task]
  /\ failed \in [Task -> BOOLEAN]
  /\ replayed \subseteq Task
  /\ dropped \in BOOLEAN

(* No goroutine waits for another task's reply; what Wait has in hand are  *)
(* the files of its own task; and they are in the master's file system     *)
(* exactly when replaying them succeeded.                                  *)
Alone ==
  \A t \in Task :
    /\ wpc[t] # "waiting"
    /\ wpc[t] \in {"process", "signal"} => pc[t] = "done" /\ ids[t] = {t}
    /\ wpc[t] = "signal" => todo[t] = {} /\ (t \in replayed <=> ~failed[t])
    /\ wpc[t] = "ok" => t \in replayed
    /\ wpc[t] \in {"idle", "calling", "process", "err"} => t \notin replayed

PipeInv == MasterTypes /\ Alone

(* A reply with all of the task's files and no others. *)
Served(t) == pc[t] = "done" => rep[t] = [fset |-> TRUE, files |-> {t}, ids |-> {t}]

(* What JobSpec relies on of the worker. *)
WorkerInv ==
  /\ pc \in [Task -> Worker!TaskState]
  /\ \A t \in Task : Served(t)

(* The worker is done with a task for good. *)
LEMMA DoneStays ==
  ASSUME WorkerInv, [Next]_vars, NEW t \in Task, pc[t] = "done"
  PROVE  pc'[t] = "done"
<1>1. CASE UNCHANGED pc
  BY <1>1, Zenon
<1>2. ASSUME NEW u \in Task, Worker!newFs(u) \/ Worker!Start(u) \/ Worker!Exit(u)
      PROVE  pc'[t] = "done"
  BY <1>2, Zenon DEF WorkerInv, Worker!newFs, Worker!NewFsWait, Worker!NewFsRefused,
       Worker!NewFsJoin, Worker!NewFsMount, Worker!NewFsFail, Worker!Join, Worker!Start,
       Worker!Exit
<1>3. ASSUME NEW u \in Task, Worker!Leave(u)
      PROVE  pc'[t] = "done"
  BY <1>3, Zenon DEF WorkerInv, Worker!Leave, Worker!considerReap, Worker!reapFuse,
       Worker!reap, Worker!returnFs, Worker!fillReply, Worker!Reply, Worker!Woken
<1>4. ASSUME NEW p \in Shutdowns, WorkerStop(p)
      PROVE  UNCHANGED pc
  BY <1>4, Zenon DEF WorkerStop, Worker!Shutdown, Worker!ShutdownWake
<1>5. ASSUME NEW u \in Task, Submit(u) \/ MasterStep(u) \/ Drop(u)
      PROVE  UNCHANGED pc
  BY <1>5, Zenon DEF Submit, MasterStep, Drop, workerVars
<1>6. CASE UNCHANGED vars
  BY <1>1, <1>6, Zenon DEF vars, workerVars
<1> QED
  BY <1>1, <1>2, <1>3, <1>4, <1>5, <1>6, Zenon DEF Next, WorkerTask

(* The reply that Wait gets has files, and only its own. *)
LEMMA ReplyFields ==
  ASSUME WorkerInv, NEW t \in Task, pc[t] = "done"
  PROVE  rep[t].fset /\ rep[t].files = {t} /\ rep[t].ids = {t}
<1>1. rep[t] = [fset |-> TRUE, files |-> {t}, ids |-> {t}]
  BY Zenon DEF WorkerInv, Served
<1> QED
  BY <1>1

(* While the master does nothing but drop the connection, no job changes. *)
LEMMA WorkerKeeps ==
  ASSUME WorkerInv, PipeInv, [Next]_vars,
         UNCHANGED <<wpc, ids, todo, failed, replayed>>, dropped' \in BOOLEAN
  PROVE  PipeInv' /\ UNCHANGED <<JobOf, replayed>>
<1>1. \A t \in Task : pc[t] = "done" => pc'[t] = "done"
  BY DoneStays, Zenon
<1>2. MasterTypes'
  BY Zenon DEF PipeInv, MasterTypes
<1>3. Alone'
  BY <1>1, Zenon DEF PipeInv, Alone
<1> QED
  BY <1>2, <1>3, Zenon DEF PipeInv, JobOf

(* A call starts, returns files, or reports an error before any file was   *)
(* applied.                                                                *)
LEMMA CallReturns ==
  ASSUME WorkerInv, PipeInv, NEW t \in Task, UNCHANGED <<workerVars, dropped>>,
         Returns(t) \/ Master!Prepare(t)
  PROVE  PipeInv' /\ (Job!Next \/ UNCHANGED <<JobOf, replayed>>)
<1> USE DEF PipeInv, MasterTypes, Alone
<1>0. UNCHANGED pc
  BY Zenon DEF workerVars
<1>1. CASE Master!Prepare(t)
  <2>1. PipeInv'
    BY <1>0, <1>1, Zenon DEF Master!Prepare
  <2>2. UNCHANGED <<JobOf, replayed>>
    BY <1>1, Zenon DEF Master!Prepare, JobOf
  <2> QED
    BY <2>1, <2>2, Zenon
<1>2. CASE pc[t] = "done" /\ ~rep[t].fset /\ Master!WaitFind(t)
  BY <1>2, ReplyFields, Zenon
<1>3. CASE pc[t] = "done" /\ rep[t].fset /\ Master!WaitFiles(t, rep[t].ids)
  <2>1. rep[t].ids = {t}
    BY <1>3, ReplyFields, Zenon
  <2>2. PipeInv'
    BY <1>0, <1>3, <2>1 DEF Master!WaitFiles
  <2>3. UNCHANGED <<JobOf, replayed>>
    BY <1>3, Zenon DEF Master!WaitFiles, JobOf
  <2> QED
    BY <2>2, <2>3, Zenon
<1>4. CASE Master!CallError(t)
  <2>1. PipeInv'
    BY <1>0, <1>4, Zenon DEF Master!CallError
  <2>2. JobOf[t] = "sent" /\ JobOf' = [JobOf EXCEPT ![t] = "err"]
    BY <1>4, Zenon DEF Master!CallError, JobOf
  <2>3. t \notin replayed /\ UNCHANGED replayed
    BY <1>4, Zenon DEF Master!CallError
  <2>4. Job!Report(t)
    BY <2>2, <2>3, Zenon DEF Job!Report, JobOf
  <2> QED
    BY <2>1, <2>4, Zenon DEF Job!Next
<1> QED
  BY <1>1, <1>2, <1>3, <1>4, Zenon DEF Returns

(* replay applies the files of the one job, all or none. *)
LEMMA FilesApplied ==
  ASSUME WorkerInv, PipeInv, NEW t \in Task, UNCHANGED <<workerVars, dropped>>, Replay(t)
  PROVE  PipeInv' /\ (Job!Next \/ UNCHANGED <<JobOf, replayed>>)
<1>0. UNCHANGED pc
  BY Zenon DEF workerVars
<1>1. PICK fails \in {FALSE, Lost} : Master!Process(t, rep[t].files, fails)
  BY Zenon DEF Replay
<1>2. fails \in BOOLEAN
  BY Zenon DEF Lost
<1>3. rep[t].files = {t} /\ ids[t] = {t} /\ t \notin replayed
  BY <1>1, ReplyFields, Zenon DEF Master!Process, PipeInv, Alone
<1>4. UNCHANGED JobOf
  BY <1>1, Zenon DEF Master!Process, PipeInv, MasterTypes, JobOf
<1>5. PipeInv'
  BY <1>0, <1>1, <1>2, <1>3, Zenon DEF Master!Process, PipeInv, MasterTypes, Alone
<1>6. replayed' = replayed \/ replayed' = replayed \cup {t}
  BY <1>1, <1>2, <1>3, Zenon DEF Master!Process
<1>7. JobOf[t] = "sent"
  BY <1>1, Zenon DEF Master!Process, JobOf
<1>8. CASE replayed' = replayed \cup {t}
  <2>1. Job!Apply({t})
    BY <1>3, <1>4, <1>7, <1>8, Zenon DEF Job!Apply, JobOf
  <2> QED
    BY <2>1, <1>5, Zenon DEF Job!Next
<1> QED
  BY <1>4, <1>5, <1>6, <1>8, Zenon

(* The end of Wait reports what replay did; there is nobody to signal. *)
LEMMA WaitEnds ==
  ASSUME WorkerInv, PipeInv, NEW t \in Task, UNCHANGED <<workerVars, dropped>>,
         Master!Signals(t) \/ Master!WaitDone(t) \/ Master!Receive(t)
  PROVE  PipeInv' /\ (Job!Next \/ UNCHANGED <<JobOf, replayed>>)
<1> USE DEF PipeInv, MasterTypes, Alone
<1>0. UNCHANGED pc
  BY Zenon DEF workerVars
<1>1. CASE Master!Signals(t)
  BY <1>1, Zenon DEF Master!Signals, Master!signal, Master!flush
<1>2. CASE Master!Receive(t)
  BY <1>2, Zenon DEF Master!Receive
<1>3. CASE Master!WaitDone(t)
  <2>1. PipeInv'
    BY <1>0, <1>3, Zenon DEF Master!WaitDone
  <2>2. JobOf[t] = "sent" /\ JobOf' = [JobOf EXCEPT ![t] = IF failed[t] THEN "err" ELSE "ok"]
    BY <1>3, Zenon DEF Master!WaitDone, JobOf
  <2>3. t \in replayed <=> ~failed[t]
    BY <1>3, Zenon DEF Master!WaitDone
  <2>4. UNCHANGED replayed
    BY <1>3, Zenon DEF Master!WaitDone
  <2>5. Job!Report(t)
    BY <2>2, <2>3, <2>4, Zenon DEF Job!Report, JobOf
  <2> QED
    BY <2>1, <2>5, Zenon DEF Job!Next
<1> QED
  BY <1>1, <1>2, <1>3, Zenon

(* Every step applies one job, reports one job, or is none of JobService's *)
(* business.                                                               *)
LEMMA PipeStep ==
  ASSUME WorkerInv, PipeInv, [Next]_vars
  PROVE  PipeInv' /\ [Job!Next]_<<JobOf, replayed>>
<1>1. CASE UNCHANGED vars
  BY <1>1, WorkerKeeps, Zenon DEF vars, masterVars, PipeInv, MasterTypes
<1>2. ASSUME NEW t \in Task, WorkerTask(t) \/ Drop(t)
      PROVE  PipeInv' /\ UNCHANGED <<JobOf, replayed>>
  BY <1>2, WorkerKeeps, Zenon DEF WorkerTask, Drop, masterVars, PipeInv, MasterTypes
<1>3. ASSUME NEW p \in Shutdowns, WorkerStop(p)
      PROVE  PipeInv' /\ UNCHANGED <<JobOf, replayed>>
  BY <1>3, WorkerKeeps, Zenon DEF WorkerStop, masterVars, PipeInv, MasterTypes
<1>4. ASSUME NEW t \in Task, Submit(t) \/ MasterStep(t)
      PROVE  PipeInv' /\ (Job!Next \/ UNCHANGED <<JobOf, replayed>>)
  BY <1>4, CallReturns, FilesApplied, WaitEnds, Zenon DEF Submit, MasterStep
<1> QED
  BY <1>1, <1>2, <1>3, <1>4, Zenon DEF Next

-----------------------------------------------------------------------------
(* What the master does leaves the worker as it is. *)
LEMMA PoolStep == [Next]_vars => [Worker!Next]_Worker!vars
<1> SUFFICES ASSUME [Next]_vars PROVE Worker!Next \/ UNCHANGED Worker!vars
  BY Zenon
<1>1. CASE UNCHANGED workerVars
  BY <1>1, Zenon DEF workerVars, Worker!vars, Worker!poolVars
<1>2. ASSUME NEW t \in Task, WorkerTask(t)
      PROVE  Worker!Next
  BY <1>2, Zenon DEF WorkerTask, Worker!Next
<1>3. ASSUME NEW p \in Shutdowns, WorkerStop(p)
      PROVE  Worker!Next
  BY <1>3, Zenon DEF WorkerStop, Worker!Next
<1>4. ASSUME NEW t \in Task, Submit(t) \/ MasterStep(t) \/ Drop(t)
      PROVE  UNCHANGED workerVars
  BY <1>4, Zenon DEF Submit, MasterStep, Drop
<1>5. CASE UNCHANGED vars
  BY <1>1, <1>5, Zenon DEF vars
<1> QED
  BY <1>1, <1>2, <1>3, <1>4, <1>5, Zenon DEF Next

(* The worker implements FsPool under the calls this master makes: a call  *)
(* arrives over a working connection only.                                 *)
LEMMA PoolSpec == Spec => Worker!Spec
<1>1. Init => Worker!Init
  BY Zenon DEF Init
<1> QED
  BY <1>1, PoolStep, PTL DEF Spec, Worker!Spec

(* newFs never lets more processes run than the worker granted jobs,       *)
(* whatever the master submits, and whoever drops the connection.          *)
THEOREM WorkerJobsCapped == Spec => []JobCap
  BY PoolSpec, WorkerAssumption, JobsCapped, PTL DEF JobCap

(* No output stays behind in a mounted file system that nobody uses, when  *)
(* the master that waits for it is gone too (considerReap).                *)
THEOREM WorkerOutputReaped == Spec => []OutputReaped
  BY PoolSpec, WorkerAssumption, OutputIsReaped, PTL DEF OutputReaped

(* With one task per file system Mirror.Run returns the files of its task  *)
(* and of no other, though newFs uses file systems again.                  *)
THEOREM WorkerIsolates == Spec => []Isolated
  BY PoolSpec, WorkerAssumption, TasksIsolated, PTL DEF Isolated

(* The pipeline implements JobService with one task per file system: a job *)
(* is reported as run only with its files applied, they are applied once,  *)
(* and a job reported as failed has left nothing behind, whether the call, *)
(* the fetching of contents or the worker failed (runOnMirror).            *)
THEOREM JobsServed ==
  ASSUME ReapCounts = {1}
  PROVE  Spec => JobSpec
<1>1. Init => PipeInv
  BY Zenon DEF Init, Master!WaitInit, PipeInv, MasterTypes, Alone
<1>2. Init => Job!Init
  BY Zenon DEF Init, Master!WaitInit, Job!Init
<1>3. Worker!Spec => [](PoolInv /\ Worker!Isolated)
  BY WorkerAssumption, PoolInvariant, TasksIsolated, PTL
<1>4. PoolInv /\ Worker!Isolated => WorkerInv
  BY Zenon DEF PoolInv, Worker!TypeOK, Worker!Isolated, WorkerInv, Served
<1>5. WorkerInv /\ PipeInv /\ [Next]_vars
      => /\ PipeInv'
         /\ [Job!Next]_<<[t \in Task |-> IF wpc[t] \in {"ok", "err"} THEN wpc[t] ELSE "sent"],
                         replayed>>
  BY PipeStep, Zenon DEF JobOf
<1> QED
  BY <1>1, <1>2, <1>3, <1>4, <1>5, PoolSpec, PTL DEF Spec, JobSpec, Job!Spec
=============================================================================
