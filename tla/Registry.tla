------------------------------ MODULE Registry ------------------------------
(***************************************************************************)
(* How masters come to know workers: the coordinator's registrations       *)
(* (termite/coordinator.go), the workers that report to it, restart and    *)
(* shut down (termite/worker.go), and the masters' list of workers         *)
(* (termite/mirrorconnection.go: fetchWorkers, refreshWorkers).            *)
(*                                                                         *)
(* Time stamps are only compared, and always differ: LastReported with the *)
(* start of a check (recent), lastChange with a master's last (unseen).    *)
(*                                                                         *)
(* A dial of the coordinator always fails at a dead worker, and may fail   *)
(* at a live one too (the network, the machine's limits): a check then     *)
(* deletes it, and it is back with its next report.  Register's own dial   *)
(* that fails changes nothing, and the worker reports again.               *)
(***************************************************************************)
EXTENDS Naturals

CONSTANTS
  Addr, Master,
  Check,       \* goroutines in checkReachable: PeriodicCheck's, and those of the
               \* HTTP handlers that kill workers
  Periodic,    \* PeriodicCheck's
  MaxFaults    \* bound: dials of checks that fail at a live worker

ASSUME CheckAssumption == Periodic \in Check /\ MaxFaults \in Nat

VARIABLES
  life,        \* worker at each address: "down", "up", or "lame": shut down,
               \* no longer accepting, but still listening
  reports,     \* addresses whose Register has dialled back, but not stored
  running,     \* the coordinator runs
  workers,     \* Coordinator.workers
  recent,      \* for each check, those with LastReported after it began
  unseen,      \* masters whose Latest is before lastChange
  check,       \* where each check is: "idle", "dial"
  addrs,       \* addresses it has still to dial
  toDelete,    \* those it could not reach
  pc,          \* each master: "idle", "wait" in List, "woken", "reply" on its way
  rep,         \* ListResponse
  known,       \* mirrorConnections.workers
  gaveUp,      \* history: those tryConnect deleted since the last response
  missed,      \* history: addresses a check failed to reach since they registered
  faults       \* history: failed dials to live workers

checkVars == <<check, addrs, toDelete, missed, faults>>
masterVars == <<pc, rep, known, gaveUp>>
coordVars == <<reports, running, workers, recent, unseen>>
vars == <<life, coordVars, checkVars, masterVars>>

NoneFor(S) == [x \in S |-> {}]

Init ==
  /\ life = [a \in Addr |-> "down"]
  /\ running = TRUE /\ reports = {} /\ workers = {} /\ unseen = {}
  /\ check = [k \in Check |-> "idle"]
  /\ recent = NoneFor(Check) /\ addrs = NoneFor(Check) /\ toDelete = NoneFor(Check)
  /\ pc = [m \in Master |-> "idle"] /\ rep = NoneFor(Master)
  /\ known = NoneFor(Master) /\ gaveUp = NoneFor(Master)
  /\ missed = {} /\ faults = 0

-----------------------------------------------------------------------------
(* Worker.  One is started by hand, or downloaded and started by another   *)
(* that restarts, on the next free port.                                   *)
Start(a) ==
  /\ life[a] = "down"
  /\ life' = [life EXCEPT ![a] = "up"]
  /\ UNCHANGED <<coordVars, checkVars, masterVars>>

(* accepting = false, for a restart or not, and the mirrors shut down. *)
shutdown(a) ==
  /\ life[a] = "up"
  /\ life' = [life EXCEPT ![a] = "lame"]
  /\ UNCHANGED <<coordVars, checkVars, masterVars>>

(* The listener is closed, or the worker dies. *)
Exit(a) ==
  /\ life[a] # "down"
  /\ life' = [life EXCEPT ![a] = "down"]
  /\ UNCHANGED <<coordVars, checkVars, masterVars>>

(* Report; the coordinator dials back before it takes its mutex. *)
Report(a) ==
  /\ life[a] = "up" /\ running /\ a \notin reports
  /\ reports' = reports \cup {a}
  /\ UNCHANGED <<life, running, workers, recent, unseen, checkVars, masterVars>>

-----------------------------------------------------------------------------
(* Coordinator. *)
NoBroadcast == pc' = pc
Broadcast == pc' = [m \in Master |-> IF pc[m] = "wait" THEN "woken" ELSE pc[m]]

(* Mutant: a worker that registers again is no news. *)
RegisterOnce(a) ==
  /\ a \in reports
  /\ reports' = reports \ {a}
  /\ workers' = workers \cup {a}
  /\ recent' = [k \in Check |-> IF check[k] = "dial" THEN recent[k] \cup {a} ELSE {}]
  /\ unseen' = IF a \in workers THEN unseen ELSE Master
  /\ Broadcast
  /\ missed' = missed \ {a}
  /\ UNCHANGED <<life, running, check, addrs, toDelete, faults, rep, known, gaveUp>>

Register(a) ==
  /\ a \in reports
  /\ reports' = reports \ {a}
  /\ workers' = workers \cup {a}
  /\ recent' = [k \in Check |-> IF check[k] = "dial" THEN recent[k] \cup {a} ELSE {}]
  /\ unseen' = Master
  /\ Broadcast
  /\ missed' = missed \ {a}
  /\ UNCHANGED <<life, running, check, addrs, toDelete, faults, rep, known, gaveUp>>

checkReachable(k) ==
  /\ running /\ check[k] = "idle"
  /\ check' = [check EXCEPT ![k] = "dial"]
  /\ addrs' = [addrs EXCEPT ![k] = workers]
  /\ UNCHANGED <<life, coordVars, toDelete, missed, faults, masterVars>>

(* Any error of the dial, or of the authentication, will do. *)
checkFails(k, a) ==
  /\ check[k] = "dial" /\ a \in addrs[k]
  /\ life[a] = "down" \/ faults < MaxFaults
  /\ addrs' = [addrs EXCEPT ![k] = @ \ {a}]
  /\ toDelete' = [toDelete EXCEPT ![k] = @ \cup {a}]
  /\ missed' = missed \cup {a}
  /\ faults' = IF life[a] = "down" THEN faults ELSE faults + 1
  /\ UNCHANGED <<life, coordVars, check, masterVars>>

checkReaches(k, a) ==
  /\ check[k] = "dial" /\ a \in addrs[k]
  /\ life[a] # "down"
  /\ addrs' = [addrs EXCEPT ![k] = @ \ {a}]
  /\ UNCHANGED <<life, coordVars, check, toDelete, missed, faults, masterVars>>

(* Mutant: without a look at LastReported. *)
checkDeleteAll(k) ==
  /\ check[k] = "dial" /\ addrs[k] = {}
  /\ check' = [check EXCEPT ![k] = "idle"]
  /\ workers' = workers \ toDelete[k]
  /\ unseen' = IF toDelete[k] = {} THEN unseen ELSE Master
  /\ toDelete' = [toDelete EXCEPT ![k] = {}] /\ recent' = [recent EXCEPT ![k] = {}]
  /\ NoBroadcast
  /\ UNCHANGED <<life, reports, running, addrs, missed, faults, rep, known, gaveUp>>

(* Mutant: the time stamps compared the wrong way round. *)
checkDeleteSwapped(k) ==
  /\ check[k] = "dial" /\ addrs[k] = {}
  /\ check' = [check EXCEPT ![k] = "idle"]
  /\ workers' = workers \ (toDelete[k] \cap recent[k])
  /\ unseen' = IF toDelete[k] = {} THEN unseen ELSE Master
  /\ toDelete' = [toDelete EXCEPT ![k] = {}] /\ recent' = [recent EXCEPT ![k] = {}]
  /\ NoBroadcast
  /\ UNCHANGED <<life, reports, running, addrs, missed, faults, rep, known, gaveUp>>

(* Those not reached go, unless they have reported meanwhile.  Nobody in   *)
(* List is woken.                                                          *)
checkDelete(k) ==
  /\ check[k] = "dial" /\ addrs[k] = {}
  /\ check' = [check EXCEPT ![k] = "idle"]
  /\ workers' = workers \ (toDelete[k] \ recent[k])
  /\ unseen' = IF toDelete[k] = {} THEN unseen ELSE Master
  /\ toDelete' = [toDelete EXCEPT ![k] = {}] /\ recent' = [recent EXCEPT ![k] = {}]
  /\ NoBroadcast
  /\ UNCHANGED <<life, reports, running, addrs, missed, faults, rep, known, gaveUp>>

(* The coordinator dies, and every call to it fails; a new one knows no    *)
(* workers, and its lastChange is older than any master's.                 *)
Die ==
  /\ running
  /\ running' = FALSE
  /\ reports' = {} /\ workers' = {} /\ unseen' = {}
  /\ check' = [k \in Check |-> "idle"]
  /\ recent' = NoneFor(Check) /\ addrs' = NoneFor(Check) /\ toDelete' = NoneFor(Check)
  /\ pc' = [m \in Master |-> "idle"] /\ rep' = NoneFor(Master)
  /\ UNCHANGED <<life, known, gaveUp, missed, faults>>

NewCoordinator ==
  /\ ~running
  /\ running' = TRUE
  /\ UNCHANGED <<life, reports, workers, recent, unseen, checkVars, masterVars>>

(* List, called by fetchWorkers or woken in it. *)
List(m) ==
  /\ running /\ pc[m] \in {"idle", "woken"}
  /\ pc' = [pc EXCEPT ![m] = IF m \in unseen THEN "reply" ELSE "wait"]
  /\ rep' = [rep EXCEPT ![m] = IF m \in unseen THEN workers ELSE {}]
  /\ unseen' = unseen \ {m}
  /\ UNCHANGED <<life, reports, running, workers, recent, checkVars, known, gaveUp>>

-----------------------------------------------------------------------------
(* Master. *)
refreshWorkers(m) ==
  /\ pc[m] = "reply"
  /\ pc' = [pc EXCEPT ![m] = "idle"]
  /\ rep' = [rep EXCEPT ![m] = {}]
  /\ known' = [known EXCEPT ![m] = rep[m]]
  /\ gaveUp' = [gaveUp EXCEPT ![m] = {}]
  /\ UNCHANGED <<life, coordVars, checkVars>>

(* tryConnect forgets a worker that is dead, shutting down, or full. *)
tryConnect(m, a) ==
  /\ a \in known[m]
  /\ known' = [known EXCEPT ![m] = @ \ {a}]
  /\ gaveUp' = [gaveUp EXCEPT ![m] = @ \cup {a}]
  /\ UNCHANGED <<life, coordVars, checkVars, pc, rep>>

Next ==
  \/ \E a \in Addr : Start(a) \/ shutdown(a) \/ Exit(a) \/ Report(a) \/ Register(a)
  \/ \E k \in Check : \/ checkReachable(k) \/ checkDelete(k)
                      \/ \E a \in Addr : checkFails(k, a) \/ checkReaches(k, a)
  \/ Die \/ NewCoordinator
  \/ \E m \in Master : List(m) \/ refreshWorkers(m) \/ \E a \in Addr : tryConnect(m, a)

Spec == Init /\ [][Next]_vars

(* Workers report, PeriodicCheck checks and masters ask in endless loops,  *)
(* one goroutine each, and RPCs end.  Nothing makes workers start or stop, *)
(* the coordinator, or the checks of the HTTP handlers.                    *)
FairSpec ==
  /\ Spec
  /\ WF_vars(\/ checkReachable(Periodic) \/ checkDelete(Periodic)
             \/ \E a \in Addr : checkFails(Periodic, a) \/ checkReaches(Periodic, a))
  /\ \A a \in Addr : WF_vars(Report(a) \/ Register(a))
  /\ \A m \in Master : WF_vars(List(m) \/ refreshWorkers(m))

-----------------------------------------------------------------------------
TypeOK ==
  /\ life \in [Addr -> {"down", "up", "lame"}]
  /\ reports \subseteq Addr /\ running \in BOOLEAN
  /\ workers \subseteq Addr /\ unseen \subseteq Master
  /\ check \in [Check -> {"idle", "dial"}] /\ recent \in [Check -> SUBSET Addr]
  /\ addrs \in [Check -> SUBSET Addr] /\ toDelete \in [Check -> SUBSET Addr]
  /\ pc \in [Master -> {"idle", "wait", "woken", "reply"}]
  /\ rep \in [Master -> SUBSET Addr] /\ known \in [Master -> SUBSET Addr]
  /\ gaveUp \in [Master -> SUBSET Addr] /\ missed \subseteq Addr /\ faults \in Nat

(* However many checks run at the same time, with their dials outside the  *)
(* mutex, checkReachable deletes no worker that was reached by every dial  *)
(* since its last registration was stored.  A dial that fails may delete a *)
(* live worker, but never on the strength of a dial that is older than the *)
(* registration.                                                           *)
DeletesOnlyUnreached ==
  [][running' => \A a \in workers \ workers' : a \in missed]_vars

(* A master that hangs in List has every registered worker in its list,    *)
(* except those it gave up itself: it may miss removals, never a newcomer. *)
MissesNoWorker ==
  \A m \in Master : pc[m] = "wait" => workers \subseteq known[m] \cup gaveUp[m]

(* A dead worker does not stay registered, even if its last registration   *)
(* is stored after its death.                                              *)
DeadDeleted ==
  \A a \in Addr : (a \in workers /\ life[a] = "down") ~> (a \notin workers \/ life[a] # "down")

(* A master learns of every worker that keeps running, and again of one it *)
(* gave up or a check deleted, while there is a coordinator and the dials  *)
(* to live workers do not fail for ever.                                   *)
LiveKnown ==
  \A m \in Master, a \in Addr :
    (life[a] = "up" /\ a \notin known[m]) ~> (a \in known[m] \/ life[a] # "up" \/ ~running)
=============================================================================
