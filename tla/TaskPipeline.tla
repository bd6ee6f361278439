---------------------------- MODULE TaskPipeline ----------------------------
(***************************************************************************)
(* Tasks of one master on one worker, end to end: runOnMirror and Wait on  *)
(* the master (FileSetWaiter), Mirror.Run on the worker (FsPool), and the  *)
(* connection between them, which a task that got an error closes          *)
(* (mirrorConnections.drop), and which may break at any time.              *)
(***************************************************************************)
EXTENDS FiniteSets

CONSTANTS Task, Fs, NoFs, MaxJobCount, ReapCounts, Shutdowns

VARIABLES
  reapCount, accepting, killed, active, reaping, tasks, taskIds, output, made, gone,
  pc, fs, err, rep, stop, crashed,
  ch, wpc, ids, todo, failed, replayed, panicked,
  dropped  \* the master has closed the connection

workerVars == <<reapCount, accepting, killed, active, reaping, tasks, taskIds,
                output, made, gone, pc, fs, err, rep, stop, crashed>>
masterVars == <<ch, wpc, ids, todo, failed, replayed, panicked>>
vars == <<workerVars, masterVars, dropped>>

Worker == INSTANCE FsPool
Master == INSTANCE FileSetWaiter
            WITH Faults <- {}, fault <- "none",
                 answer <- [t \in Task |-> "no"], left <- {}

(* What the worker's theorems (TaskPipelineProofs) take for granted. *)
ASSUME WorkerAssumption == Worker!PoolAssumption

Init ==
  /\ Worker!Init
  /\ Master!WaitInit
  /\ dropped = FALSE

(* The connection is over, for one of these reasons. *)
Lost == dropped \/ Worker!Closed \/ \E p \in Shutdowns : p = "serveRpc" /\ stop[p] # "idle"

(* The worker's goroutine for one call, which reaches it over a working    *)
(* connection only.                                                        *)
WorkerTask(t) ==
  /\ ~crashed
  /\ pc[t] = "idle" => wpc[t] = "calling" /\ ~Lost
  /\ Worker!newFs(t) \/ Worker!Start(t) \/ Worker!Exit(t) \/ Worker!Leave(t)
  /\ UNCHANGED <<masterVars, dropped>>

WorkerStop(p) ==
  /\ ~crashed
  /\ Worker!Shutdown(p) \/ Worker!ShutdownWake(p)
  /\ UNCHANGED <<masterVars, dropped>>

(* The call of Mirror.Run returns, with the worker's reply or an error. *)
Returns(t) ==
  \/ pc[t] = "done" /\ ~rep[t].fset /\ Master!WaitFind(t)
  \/ pc[t] = "done" /\ rep[t].fset /\ Master!WaitFiles(t, rep[t].ids)
  \/ (pc[t] = "failed" \/ Lost) /\ Master!CallError(t)

(* Fetching contents fails only when the connection is lost. *)
Replay(t) == \E fails \in {FALSE, Lost} : Master!Process(t, rep[t].files, fails)

MasterStep(t) ==
  /\ ~panicked
  /\ Returns(t) \/ Replay(t) \/ Master!Signals(t) \/ Master!WaitDone(t) \/ Master!Receive(t)
  /\ UNCHANGED <<workerVars, dropped>>

(* runOnce drops the mirror after an error. *)
Drop(t) ==
  /\ wpc[t] = "err" /\ ~dropped
  /\ dropped' = TRUE
  /\ UNCHANGED <<workerVars, masterVars>>

Submit(t) == Master!Prepare(t) /\ UNCHANGED <<workerVars, dropped>>

Next ==
  \/ \E t \in Task : WorkerTask(t) \/ Submit(t) \/ MasterStep(t) \/ Drop(t)
  \/ \E p \in Shutdowns : WorkerStop(p)

Spec == Init /\ [][Next]_vars

(* The pipeline does not stop while a goroutine of either side can go on,  *)
(* a job runs or a call has to fail.  Nobody has to call Shutdown or Run.  *)
Progress ==
  \/ \E t \in Task : WorkerTask(t) \/ MasterStep(t) \/ Drop(t)
  \/ \E p \in Shutdowns : stop[p] # "idle" /\ WorkerStop(p)

FairSpec == Spec /\ WF_vars(Progress)

-----------------------------------------------------------------------------
(* A job is reported as run only with its files applied, they are applied  *)
(* at most once, and a job reported as failed has left nothing behind, so  *)
(* that a retry on another worker runs it for the first time as far as the *)
(* master's file system is concerned.                                      *)
Job == INSTANCE JobService
         WITH job <- [t \in Task |-> IF wpc[t] \in {"ok", "err"} THEN wpc[t] ELSE "sent"],
              applied <- replayed
JobSpec == Job!Spec

(* Every task sent to a worker is reported to its caller: none waits in    *)
(* newFs, or is refused, or waits for a reply, for ever.  (Again and again *)
(* none is under way; a task is sent once.)                                *)
TaskReturns == []<>(\A t \in Task : wpc[t] \in {"idle", "ok", "err"})

(* Mirror.Shutdown ends, whoever calls it: the last file system to go      *)
(* wakes every caller.                                                     *)
ShutdownEnds == Worker!ShutdownEnds

(* The worker's promises, under the calls this master makes.  With one     *)
(* task per file system Mirror.Run returns the files of its task and of no *)
(* other, though newFs uses file systems again.                            *)
Isolated == Worker!Isolated

(* newFs never lets more processes run than the worker granted jobs,       *)
(* whatever file systems come and go while tasks wait for a slot.          *)
JobCap == Worker!JobCap

(* Output does not stay behind: a mounted file system with files of a task *)
(* is in use, or a task is on its way to reap it (considerReap).           *)
OutputReaped == Worker!OutputReaped
=============================================================================
