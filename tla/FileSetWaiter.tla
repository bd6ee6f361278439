---------------------------- MODULE FileSetWaiter ----------------------------
(***************************************************************************)
(* The master's side of running tasks on one worker (termite/master.go,    *)
(* runOnMirror, and attr/filesetwaiter.go).  A task's goroutine registers  *)
(* a channel for its id, calls Mirror.Run, and hands the reply to Wait:    *)
(* with files it replays them and signals the other tasks they belong to;  *)
(* without, it waits for such a signal.                                    *)
(*                                                                         *)
(* The worker is abstracted to its contract for one file system, RunNone   *)
(* and RunFiles; TaskPipeline takes the replies from FsPool instead.       *)
(***************************************************************************)
EXTENDS FiniteSets

CONSTANTS
  Task,   \* task ids
  Faults  \* what may go wrong: "fetch", replaying a reply fails to fetch
          \* contents; "call", a call of Mirror.Run returns an error

VARIABLES
  fault,     \* the kind of failure of this behaviour, or "none"
  ch,        \* channels[id]: "open" while in the map, then how it was closed
  wpc,       \* where each task's goroutine is in runOnMirror
  ids,       \* rep.TaskIds
  todo,      \* ids that Wait has yet to signal or flush
  failed,    \* Wait's local err, from process
  replayed,  \* history: tasks whose files were replayed
  panicked,  \* the master died: closing a nil channel, a second Prepare
  answer,    \* the worker: "no", without files ("none"), or with files
  left       \* the worker: tasks answered without files, to be announced

waitVars == <<fault, ch, wpc, ids, todo, failed, replayed, panicked>>
vars == <<waitVars, answer, left>>

WaitInit ==
  /\ fault \in Faults \cup {"none"}
  /\ ch = [t \in Task |-> "none"]
  /\ wpc = [t \in Task |-> "idle"]
  /\ ids = [t \in Task |-> {}]
  /\ todo = [t \in Task |-> {}]
  /\ failed = [t \in Task |-> FALSE]
  /\ replayed = {}
  /\ panicked = FALSE

Prepare(t) ==
  /\ wpc[t] = "idle"
  /\ panicked' = (ch[t] = "open")
  /\ ch' = [ch EXCEPT ![t] = "open"]
  /\ wpc' = [wpc EXCEPT ![t] = "calling"]
  /\ UNCHANGED <<fault, ids, todo, failed, replayed>>

(* Mirror.Run returned an error: the channel stays in the map. *)
CallError(t) ==
  /\ wpc[t] = "calling"
  /\ wpc' = [wpc EXCEPT ![t] = "err"]
  /\ UNCHANGED <<fault, ch, ids, todo, failed, replayed, panicked>>

(* Wait, for a reply without files: findChannel, and drop when it is nil. *)
WaitFind(t) ==
  /\ wpc[t] = "calling"
  /\ wpc' = [wpc EXCEPT ![t] = IF ch[t] = "open" THEN "waiting" ELSE "ok"]
  /\ UNCHANGED <<fault, ch, ids, todo, failed, replayed, panicked>>

(* Wait, for a reply with files: before process. *)
WaitFiles(t, is) ==
  /\ wpc[t] = "calling"
  /\ wpc' = [wpc EXCEPT ![t] = "process"]
  /\ ids' = [ids EXCEPT ![t] = is]
  /\ UNCHANGED <<fault, ch, todo, failed, replayed, panicked>>

(* Mutant: files are replayed as their contents arrive. *)
ProcessHalf(t, files, fails) ==
  /\ wpc[t] = "process"
  /\ wpc' = [wpc EXCEPT ![t] = "signal"]
  /\ failed' = [failed EXCEPT ![t] = fails]
  /\ replayed' = replayed \cup files
  /\ todo' = [todo EXCEPT ![t] = ids[t] \ {t}]
  /\ UNCHANGED <<fault, ch, ids, panicked>>

(* mirrorConnection.replay: contents are fetched before anything changes. *)
Process(t, files, fails) ==
  /\ wpc[t] = "process"
  /\ wpc' = [wpc EXCEPT ![t] = "signal"]
  /\ failed' = [failed EXCEPT ![t] = fails]
  /\ replayed' = IF fails THEN replayed ELSE replayed \cup files
  /\ todo' = [todo EXCEPT ![t] = ids[t] \ {t}]
  /\ UNCHANGED <<fault, ch, ids, panicked>>

signal(t, u) ==
  /\ wpc[t] = "signal" /\ u \in todo[t] /\ ~failed[t]
  /\ ch' = [ch EXCEPT ![u] = IF @ = "open" THEN "signalled" ELSE @]
  /\ todo' = [todo EXCEPT ![t] = @ \ {u}]
  /\ UNCHANGED <<fault, wpc, ids, failed, replayed, panicked>>

(* flush closes the channel unconditionally: a missing one is nil. *)
flush(t, u) ==
  /\ wpc[t] = "signal" /\ u \in todo[t] /\ failed[t]
  /\ panicked' = (ch[u] # "open")
  /\ ch' = [ch EXCEPT ![u] = "flushed"]
  /\ todo' = [todo EXCEPT ![t] = @ \ {u}]
  /\ UNCHANGED <<fault, wpc, ids, failed, replayed>>

(* The end of Wait for the task that had the files, with drop. *)
WaitDone(t) ==
  /\ wpc[t] = "signal" /\ todo[t] = {}
  /\ wpc' = [wpc EXCEPT ![t] = IF failed[t] THEN "err" ELSE "ok"]
  /\ ch' = [ch EXCEPT ![t] = "none"]
  /\ UNCHANGED <<fault, ids, todo, failed, replayed, panicked>>

(* The receive on the completion channel. *)
Receive(t) ==
  /\ wpc[t] = "waiting" /\ ch[t] \in {"signalled", "flushed"}
  /\ wpc' = [wpc EXCEPT ![t] = IF ch[t] = "flushed" THEN "err" ELSE "ok"]
  /\ UNCHANGED <<fault, ch, ids, todo, failed, replayed, panicked>>

Signals(t) == \E u \in Task : signal(t, u) \/ flush(t, u)

-----------------------------------------------------------------------------
(* The worker as its contract: of the tasks it has, the last one to finish *)
(* is answered with the files and the ids of all since the last reaping,   *)
(* the others without files.                                               *)
Running == {t \in Task : wpc[t] = "calling" /\ answer[t] = "no"}

RunNone(t) ==
  /\ t \in Running /\ Running # {t}
  /\ answer' = [answer EXCEPT ![t] = "none"]
  /\ left' = left \cup {t}
  /\ UNCHANGED waitVars

RunFiles(t) ==
  /\ Running = {t}
  /\ answer' = [answer EXCEPT ![t] = "files"]
  /\ ids' = [ids EXCEPT ![t] = left \cup {t}]
  /\ left' = {}
  /\ UNCHANGED <<fault, ch, wpc, todo, failed, replayed, panicked>>

Init ==
  /\ WaitInit
  /\ answer = [t \in Task |-> "no"]
  /\ left = {}

(* What goroutine t does with its reply. *)
Step(t) ==
  \/ answer[t] = "none" /\ WaitFind(t)
  \/ answer[t] = "files" /\ WaitFiles(t, ids[t])
  \/ \E fails \in {FALSE, fault = "fetch"} : Process(t, ids[t], fails)
  \/ Signals(t) \/ WaitDone(t) \/ Receive(t)

(* A reply is lost once the task has finished on the worker. *)
ReplyLost(t) == fault = "call" /\ answer[t] # "no" /\ CallError(t)

Next ==
  /\ ~panicked
  /\ \E t \in Task :
       \/ RunNone(t) \/ RunFiles(t)
       \/ (Prepare(t) \/ ReplyLost(t) \/ Step(t)) /\ UNCHANGED <<answer, left>>

Spec == Init /\ [][Next]_vars

-----------------------------------------------------------------------------
TypeOK ==
  /\ fault \in Faults \cup {"none"}
  /\ ch \in [Task -> {"none", "open", "signalled", "flushed"}]
  /\ wpc \in [Task -> {"idle", "calling", "waiting", "process", "signal", "ok", "err"}]
  /\ ids \in [Task -> SUBSET Task] /\ todo \in [Task -> SUBSET Task]
  /\ failed \in [Task -> BOOLEAN]
  /\ replayed \subseteq Task
  /\ panicked \in BOOLEAN
  /\ answer \in [Task -> {"no", "none", "files"}]
  /\ left \subseteq {t \in Task : answer[t] = "none"}

(* No id is signalled or flushed when its channel is gone, and none is     *)
(* registered twice: Wait never closes a nil channel.                      *)
NoPanic == ~panicked

(* A task is reported as run only once its files are in the master's file  *)
(* system, whether its own reply, the files' reply or the signal came      *)
(* first.                                                                  *)
OkMeansReplayed == \A t \in Task : wpc[t] = "ok" => t \in replayed

(* A task that got an error because fetching failed has left nothing in    *)
(* the master's file system: it may be run again.  (A task whose own reply *)
(* is lost may have had its files replayed from another reply.)            *)
ErrMeansNotReplayed == fault # "call" => \A t \in Task : wpc[t] = "err" => t \notin replayed

(* While nothing fails the waiter implements the promise of JobService, in *)
(* whatever order the replies of the tasks of a file system and the        *)
(* signals arrive.                                                         *)
job == [t \in Task |-> IF wpc[t] \in {"ok", "err"} THEN wpc[t] ELSE "sent"]
Job == INSTANCE JobService WITH applied <- replayed
JobSteps == Job!Init /\ [][fault = "none" => Job!Next]_<<job, replayed>>
=============================================================================
