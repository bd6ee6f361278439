-------------------------- MODULE MirrorConnections --------------------------
(***************************************************************************)
(* The master's connections to its workers (termite/mirrorconnection.go),  *)
(* the retry loop that uses them (termite/master.go: createMirror,         *)
(* runOnMirror, runOnce, run) and the worker's grant of job slots          *)
(* (termite/mirrors.go).  A task picks a connection, opening new ones      *)
(* while none has a free slot, sends pending attributes, runs, and drops   *)
(* the connection after an error.  The list of workers is refreshed and    *)
(* idle connections are closed concurrently.                               *)
(*                                                                         *)
(* An action is a section under mirrorConnections.Mutex, which tryConnect  *)
(* releases while it creates a mirror, or one call outside of it.          *)
(***************************************************************************)
EXTENDS Integers, FiniteSets

CONSTANTS
  Addr, NoAddr,   \* worker addresses
  Mc, NoMc,       \* mirrorConnection objects: the bound on connections made
  Task,           \* calls of Master.run
  Named,          \* those with WorkRequest.Worker set
  Jobs,           \* WorkerOptions.Jobs, of each worker
  wantedMaxJobs,
  RetryCount,     \* MasterOptions.RetryCount
  MaxRefresh      \* bound on the coordinator's answers

ASSUME ConnectionsAssumption ==
  /\ NoAddr \notin Addr /\ NoMc \notin Mc /\ Named \subseteq Task
  /\ IsFiniteSet(Mc) /\ IsFiniteSet(Task)
  /\ Jobs \in Nat \ {0} /\ wantedMaxJobs \in Nat \ {0}
  /\ RetryCount \in Nat /\ MaxRefresh \in Nat

VARIABLES
  workers,    \* mirrorConnections.workers
  mirrors,    \* mirrorConnections.mirrors, by address
  clients,    \* AttributeCache.clients, by address
  addr,       \* mirrorConnection.workerAddr
  max,        \* mirrorConnection.maxJobs
  avail,      \* mirrorConnection.availableJobs
  open,       \* connections whose end on the master is open
  up,         \* connections whose Mirror exists on the worker
  pc,         \* where each task is in Master.run
  at,         \* the task's mirrorConnection
  dial,       \* tryConnect's addr
  wanted,     \* tryConnect's wanted
  tries,      \* run's i
  owes,       \* history: tasks that took a slot of a connection that they
              \* have neither dropped nor called jobDone for
  refreshes,
  crashed     \* "no", or the assertion that failed

connVars == <<workers, mirrors, clients, addr, max, avail, open, up>>
taskVars == <<pc, at, dial, wanted, tries, owes>>
vars == <<connVars, taskVars, refreshes, crashed>>

Init ==
  /\ workers \in SUBSET Addr
  /\ mirrors = [a \in Addr |-> NoMc]
  /\ clients = [a \in Addr |-> NoMc]
  /\ addr = [m \in Mc |-> NoAddr]
  /\ max = [m \in Mc |-> 0]
  /\ avail = [m \in Mc |-> 0]
  /\ open = {} /\ up = {}
  /\ pc = [t \in Task |-> "idle"]
  /\ at = [t \in Task |-> NoMc]
  /\ dial = [t \in Task |-> NoAddr]
  /\ wanted = [t \in Task |-> 0]
  /\ tries = [t \in Task |-> 0]
  /\ owes = {}
  /\ refreshes = 0
  /\ crashed = "no"

(* The values of the map M. *)
InMap(M) == {M[a] : a \in Addr} \ {NoMc}

(* Sums over connections count slots, of which m has n[m], or none when    *)
(* n[m] is negative.                                                       *)
Slots(S, n) == UNION {{m} \X (1 .. n[m]) : m \in S}

availableJobs(M) == Cardinality(Slots(InMap(M), avail))
maxJobs(M) == Cardinality(Slots(InMap(M), max))

Working(m) == m \in open \cap up

(* run's loop: another runOnce, or the error is the result. *)
Retry(t) ==
  \/ /\ tries[t] < RetryCount
     /\ tries' = [tries EXCEPT ![t] = @ + 1]
     /\ pc' = [pc EXCEPT ![t] = "pick"]
  \/ /\ tries[t] = RetryCount
     /\ pc' = [pc EXCEPT ![t] = "failed"]
     /\ UNCHANGED tries

(* Mutant: the slot is not taken. *)
TakeFree(t, m) ==
  /\ at' = [at EXCEPT ![t] = m]
  /\ owes' = owes \cup {t}
  /\ pc' = [pc EXCEPT ![t] = "picked"]
  /\ UNCHANGED avail

Take(t, m) ==
  /\ avail' = [avail EXCEPT ![m] = @ - 1]
  /\ at' = [at EXCEPT ![t] = m]
  /\ owes' = owes \cup {t}
  /\ pc' = [pc EXCEPT ![t] = "picked"]

(* The connections pick may return: one with a free slot, in any order, or *)
(* else one with the best ratio of free slots.                             *)
Candidates(M) ==
  LET free == {m \in InMap(M) : avail[m] > 0} IN
  IF free # {} THEN free
  ELSE {m \in InMap(M) : \A n \in InMap(M) : avail[m] * max[n] >= avail[n] * max[m]}

(* The end of pick. *)
PickEnds(t, M) ==
  /\ \/ InMap(M) = {} /\ Retry(t) /\ UNCHANGED <<avail, at, owes>>
     \/ \E m \in Candidates(M) : Take(t, m) /\ UNCHANGED tries
  /\ dial' = [dial EXCEPT ![t] = NoAddr]
  /\ wanted' = [wanted EXCEPT ![t] = 0]

(* The head of tryConnect's loop, up to the unlock, or the end of pick. *)
Connect(t, M, W, n) ==
  LET idle == {a \in W : M[a] = NoMc} IN
  \/ \E a \in idle :
       /\ dial' = [dial EXCEPT ![t] = a]
       /\ wanted' = [wanted EXCEPT ![t] = n]
       /\ pc' = [pc EXCEPT ![t] = "dial"]
       /\ UNCHANGED <<avail, at, owes, tries>>
  \/ idle = {} /\ PickEnds(t, M)

pick(t) ==
  LET n == wantedMaxJobs - maxJobs(mirrors) IN
  /\ t \notin Named /\ pc[t] \in {"idle", "pick"}
  /\ IF availableJobs(mirrors) <= 0 /\ n > 0
     THEN Connect(t, mirrors, workers, n)
     ELSE PickEnds(t, mirrors)
  /\ UNCHANGED <<workers, mirrors, clients, addr, max, open, up, refreshes, crashed>>

(* run for a named worker: there is none, or its connection is used. *)
find(t) ==
  /\ t \in Named /\ pc[t] = "idle"
  /\ \E a \in Addr :
       \/ mirrors[a] # NoMc /\ Take(t, mirrors[a])
       \/ mirrors[a] = NoMc /\ pc' = [pc EXCEPT ![t] = "failed"] /\ UNCHANGED <<avail, at, owes>>
  /\ UNCHANGED <<workers, mirrors, clients, addr, max, open, up, dial, wanted,
                 tries, refreshes, crashed>>

(* WorkerMirrors.getMirror: what is left of the worker's slots. *)
Remaining(a) == Jobs - Cardinality(Slots({m \in up : addr[m] = a}, max))

(* createMirror: the worker cannot be reached or has no slots, ... *)
DialFails(t) ==
  /\ pc[t] = "dial"
  /\ pc' = [pc EXCEPT ![t] = "refused"]
  /\ UNCHANGED <<connVars, at, dial, wanted, tries, owes, refreshes, crashed>>

(* ... or it grants what it can of the jobs wanted. *)
getMirror(t, m) ==
  LET a == dial[t]
      granted == IF Remaining(a) < wanted[t] THEN Remaining(a) ELSE wanted[t] IN
  /\ pc[t] = "dial" /\ addr[m] = NoAddr
  /\ Remaining(a) > 0
  /\ addr' = [addr EXCEPT ![m] = a]
  /\ max' = [max EXCEPT ![m] = granted]
  /\ avail' = [avail EXCEPT ![m] = granted]
  /\ open' = open \cup {m} /\ up' = up \cup {m}
  /\ at' = [at EXCEPT ![t] = m]
  /\ pc' = [pc EXCEPT ![t] = "granted"]
  /\ UNCHANGED <<workers, mirrors, clients, dial, wanted, tries, owes, refreshes, crashed>>

(* Mutant: the worker that failed stays in the list. *)
RefusedKeeps(t) ==
  /\ pc[t] = "refused"
  /\ Connect(t, mirrors, workers, wanted[t])
  /\ UNCHANGED <<workers, mirrors, clients, addr, max, open, up, refreshes, crashed>>

(* Back under the lock in tryConnect, after an error ... *)
Refused(t) ==
  /\ pc[t] = "refused"
  /\ workers' = workers \ {dial[t]}
  /\ Connect(t, mirrors, workers', wanted[t])
  /\ UNCHANGED <<mirrors, clients, addr, max, open, up, refreshes, crashed>>

(* ... and with a new mirror: two assertions, AddClient's included. *)
Granted(t) ==
  LET a == dial[t] IN
  /\ pc[t] = "granted"
  /\ \/ /\ mirrors[a] # NoMc
        /\ crashed' = "HaveMirror"
        /\ UNCHANGED <<mirrors, clients, avail, taskVars>>
     \/ /\ mirrors[a] = NoMc /\ clients[a] # NoMc
        /\ crashed' = "HaveClient"
        /\ UNCHANGED <<mirrors, clients, avail, taskVars>>
     \/ /\ mirrors[a] = NoMc /\ clients[a] = NoMc
        /\ mirrors' = [mirrors EXCEPT ![a] = at[t]]
        /\ clients' = [clients EXCEPT ![a] = at[t]]
        /\ Connect(t, mirrors', workers, wanted[t])
        /\ UNCHANGED crashed
  /\ UNCHANGED <<workers, addr, max, open, up, refreshes>>

(* AttributeCache.Send, see AttrSync: over the connection registered for   *)
(* the address, and only when something is pending.  After an error        *)
(* runOnMirror returns without jobDone.                                    *)
Send(t) ==
  LET c == clients[addr[at[t]]] IN
  /\ pc[t] = "picked"
  /\ \/ c # NoMc /\ pc' = [pc EXCEPT ![t] = "running"]
     \/ ~Working(c) /\ pc' = [pc EXCEPT ![t] = IF t \in Named THEN "leaked" ELSE "error"]
  /\ UNCHANGED <<connVars, at, dial, wanted, tries, owes, refreshes, crashed>>

(* Mutant: jobDone is called for tasks that succeed only. *)
jobDoneOnSuccess(t) ==
  IF Working(at[t])
  THEN avail' = [avail EXCEPT ![at[t]] = @ + 1] /\ owes' = owes \ {t}
  ELSE UNCHANGED <<avail, owes>>

(* runOnMirror's deferred call. *)
jobDone(t) ==
  /\ avail' = [avail EXCEPT ![at[t]] = @ + 1]
  /\ owes' = owes \ {t}

RunOk(t) ==
  /\ pc[t] = "running" /\ Working(at[t])
  /\ jobDone(t)
  /\ at' = [at EXCEPT ![t] = NoMc]
  /\ pc' = [pc EXCEPT ![t] = "done"]
  /\ UNCHANGED <<workers, mirrors, clients, addr, max, open, up, dial, wanted, tries,
                 refreshes, crashed>>

(* The call, the stdin connection or the file set fails. *)
RunFails(t) ==
  /\ pc[t] = "running"
  /\ jobDone(t)
  /\ pc' = [pc EXCEPT ![t] = IF t \in Named THEN "failed" ELSE "error"]
  /\ UNCHANGED <<workers, mirrors, clients, addr, max, open, up, at, dial, wanted,
                 tries, refreshes, crashed>>

(* drop, first under the lock of the attributes only: by address, ... *)
RmClient(t) ==
  /\ pc[t] = "error"
  /\ clients' = [clients EXCEPT ![addr[at[t]]] = NoMc]
  /\ pc' = [pc EXCEPT ![t] = "removed"]
  /\ UNCHANGED <<workers, mirrors, addr, max, avail, open, up, at, dial, wanted, tries,
                 owes, refreshes, crashed>>

(* ... then under the mutex, also by address. *)
drop(t) ==
  LET a == addr[at[t]] IN
  /\ pc[t] = "removed"
  /\ open' = open \ {at[t]}
  /\ mirrors' = [mirrors EXCEPT ![a] = NoMc]
  /\ workers' = workers \ {a}
  /\ at' = [at EXCEPT ![t] = NoMc]
  /\ owes' = owes \ {t}
  /\ Retry(t)
  /\ UNCHANGED <<clients, addr, max, avail, up, dial, wanted, refreshes, crashed>>

(* The guard of maybeDropConnections: no slot is taken, and no job was     *)
(* done within keepAlive (a minute), which is taken to be longer than a    *)
(* task's way from jobDone to the end of drop.                             *)
Idle ==
  /\ InMap(mirrors) # {}
  /\ availableJobs(mirrors) >= maxJobs(mirrors)
  /\ \A t \in Task : pc[t] \notin {"error", "removed"}

maybeDropConnections ==
  /\ Idle
  /\ open' = open \ InMap(mirrors)
  /\ clients' = [a \in Addr |-> IF mirrors[a] # NoMc THEN NoMc ELSE clients[a]]
  /\ mirrors' = [a \in Addr |-> NoMc]
  /\ UNCHANGED <<workers, addr, max, avail, up, taskVars, refreshes, crashed>>

(* The coordinator's answer replaces the list. *)
refreshWorkers ==
  /\ refreshes < MaxRefresh
  /\ refreshes' = refreshes + 1
  /\ workers' \in SUBSET Addr
  /\ UNCHANGED <<mirrors, clients, addr, max, avail, open, up, taskVars, crashed>>

(* The worker's Mirror ends: the connection was closed or broke, or the    *)
(* worker was shut down.  DropMirror gives its slots back.                 *)
DropMirror(m) ==
  /\ m \in up
  /\ up' = up \ {m}
  /\ UNCHANGED <<workers, mirrors, clients, addr, max, avail, open, taskVars,
                 refreshes, crashed>>

createMirror(t) == DialFails(t) \/ \E m \in Mc : getMirror(t, m)

(* Master.run, one step. *)
run(t) ==
  \/ pick(t) \/ find(t) \/ createMirror(t) \/ Refused(t) \/ Granted(t)
  \/ Send(t) \/ RunOk(t) \/ RunFails(t) \/ RmClient(t) \/ drop(t)

Next ==
  /\ crashed = "no"
  /\ \/ \E t \in Task : run(t)
     \/ maybeDropConnections
     \/ refreshWorkers
     \/ \E m \in Mc : DropMirror(m)

Spec == Init /\ [][Next]_vars

(* While a call can return, a goroutine can go on or the periodic          *)
(* householding has something to do, the master does not stop.             *)
Progress ==
  /\ crashed = "no"
  /\ maybeDropConnections \/ \E t \in Task : pc[t] # "idle" /\ run(t)

FairSpec == Spec /\ WF_vars(Progress)

-----------------------------------------------------------------------------
Ended(t) == pc[t] \in {"done", "failed", "leaked"}

Place == {"idle", "pick", "dial", "refused", "granted", "picked", "running",
          "error", "removed", "done", "failed", "leaked"}

TypeOK ==
  /\ workers \subseteq Addr
  /\ mirrors \in [Addr -> Mc \cup {NoMc}] /\ clients \in [Addr -> Mc \cup {NoMc}]
  /\ addr \in [Mc -> Addr \cup {NoAddr}]
  /\ max \in [Mc -> 0 .. Jobs]
  /\ avail \in [Mc -> Int] /\ \A m \in Mc : avail[m] <= max[m]
  /\ open \subseteq Mc /\ up \subseteq Mc
  /\ pc \in [Task -> Place]
  /\ at \in [Task -> Mc \cup {NoMc}] /\ dial \in [Task -> Addr \cup {NoAddr}]
  /\ wanted \in [Task -> 0 .. wantedMaxJobs]
  /\ tries \in [Task -> 0 .. RetryCount]
  /\ owes \subseteq Task
  /\ refreshes \in 0 .. MaxRefresh
  /\ crashed \in {"no", "HaveMirror", "HaveClient"}

(* The free slots of a connection in use are those granted less those of   *)
(* the tasks that hold one, also with more tasks than slots, after errors  *)
(* and when connections are replaced; a slot is lost only with its         *)
(* connection, or by a named task that could not send attributes.          *)
SlotAccounting ==
  \A m \in InMap(mirrors) : avail[m] = max[m] - Cardinality({t \in owes : at[t] = m})

(* Closing idle connections never takes one from a task that has picked it *)
(* and is not done.                                                        *)
IdleDropSafe ==
  [][pc' = pc => \A m \in open \ open' : \A t \in owes : at[t] # m]_vars

(* Every run of a task ends: connecting gives up on workers that fail, and *)
(* a task on a broken connection moves on.  (Each task runs once, so when  *)
(* all are at rest each one that started has ended.)                       *)
RunReturns ==
  (\E t \in Task : pc[t] # "idle" /\ ~Ended(t))
    ~> (\A t \in Task : pc[t] = "idle" \/ Ended(t)) \/ crashed # "no"

(* Once all tasks have ended, unless one has lost a slot, the connections  *)
(* are given up: slots are not miscounted for ever.                        *)
IdleClosed ==
  (\A t \in Task : pc[t] \in {"done", "failed"})
    ~> InMap(mirrors) = {} \/ crashed # "no"

(* AddClient's assertion: no address is registered with the attributes     *)
(* twice.                                                                  *)
ClientUnique == crashed # "HaveClient"
=============================================================================
