--------------------------- MODULE RegistryProofs ---------------------------
(* Proofs about Registry, for any set of workers, masters and checks. *)
EXTENDS Registry, TLAPS

(* What a master has been told: the response on its way, or its list with  *)
(* the workers it gave up since.                                           *)
Told(m) == IF pc[m] = "reply" THEN rep[m] ELSE known[m] \cup gaveUp[m]

(* A master whose time stamp is that of the last change has been told of   *)
(* every registered worker.                                                *)
ListInv ==
  /\ \A m \in Master \ unseen : workers \subseteq Told(m)
  /\ MissesNoWorker

(* What a check is about to delete was missed by a dial after it           *)
(* registered last, or has registered since that check began.              *)
CheckInv ==
  \A k \in Check :
    /\ toDelete[k] \subseteq missed \cup recent[k]
    /\ check[k] = "idle" => toDelete[k] = {} /\ addrs[k] = {}

(* The type invariant is inductive: every handler of coordinator, worker   *)
(* and master keeps each variable in its set.                              *)
THEOREM TypeCorrect == Spec => []TypeOK
<1>1. Init => TypeOK
  BY SMTT(60) DEF Init, NoneFor, TypeOK
<1>2. TypeOK /\ [Next]_vars => TypeOK'
  <2> SUFFICES ASSUME TypeOK, [Next]_vars PROVE TypeOK'
    BY Zenon
  <2> USE DEF TypeOK, NoneFor, coordVars, checkVars, masterVars
  <2>1. ASSUME NEW a \in Addr, Start(a) PROVE TypeOK'
    BY <2>1, Zenon DEF Start
  <2>2. ASSUME NEW a \in Addr, shutdown(a) PROVE TypeOK'
    BY <2>2, Zenon DEF shutdown
  <2>3. ASSUME NEW a \in Addr, Exit(a) PROVE TypeOK'
    BY <2>3, Zenon DEF Exit
  <2>4. ASSUME NEW a \in Addr, Report(a) PROVE TypeOK'
    BY <2>4, Zenon DEF Report
  <2>5. ASSUME NEW a \in Addr, Register(a) PROVE TypeOK'
    BY <2>5, Zenon DEF Register, Broadcast
  <2>6. ASSUME NEW k \in Check, NEW a \in Addr, checkFails(k, a) PROVE TypeOK'
    <3>1. faults' \in Nat
      BY <2>6, SMTT(60) DEF checkFails
    <3> QED
      BY <2>6, <3>1, Zenon DEF checkFails
  <2>15. ASSUME NEW k \in Check, NEW a \in Addr, checkReaches(k, a) PROVE TypeOK'
    BY <2>15, Zenon DEF checkReaches
  <2>7. ASSUME NEW k \in Check, checkReachable(k) PROVE TypeOK'
    BY <2>7, Zenon DEF checkReachable
  <2>8. ASSUME NEW k \in Check, checkDelete(k) PROVE TypeOK'
    BY <2>8, Zenon DEF checkDelete, NoBroadcast
  <2>9. CASE Die
    BY <2>9, Zenon DEF Die
  <2>10. CASE NewCoordinator
    BY <2>10, Zenon DEF NewCoordinator
  <2>11. ASSUME NEW m \in Master, List(m) PROVE TypeOK'
    BY <2>11, Zenon DEF List
  <2>12. ASSUME NEW m \in Master, refreshWorkers(m) PROVE TypeOK'
    BY <2>12, Zenon DEF refreshWorkers
  <2>13. ASSUME NEW m \in Master, NEW a \in Addr, tryConnect(m, a) PROVE TypeOK'
    BY <2>13, Zenon DEF tryConnect
  <2>14. CASE UNCHANGED vars
    BY <2>14, Zenon DEF vars
  <2> QED
    BY <2>1, <2>2, <2>3, <2>4, <2>5, <2>6, <2>7, <2>8, <2>9, <2>10, <2>11, <2>12, <2>13,
       <2>14, <2>15, ZenonT(60) DEF Next
<1> QED
  BY <1>1, <1>2, PTL DEF Spec

(* List, Register and checkReachable together: a master hangs in List only *)
(* if it has every registered worker or has given it up.  Proved from      *)
(* ListInv: Register makes every time stamp old and wakes everybody, and   *)
(* checkReachable, which does not wake, only takes workers away.           *)
THEOREM NoWorkerMissed == Spec => []MissesNoWorker
<1>1. Init => ListInv
  BY SMTT(60) DEF Init, NoneFor, ListInv, MissesNoWorker, Told
<1>2. TypeOK /\ ListInv /\ [Next]_vars => ListInv'
  <2> SUFFICES ASSUME TypeOK, ListInv, [Next]_vars PROVE ListInv'
    BY Zenon
  <2> USE DEF TypeOK, ListInv, MissesNoWorker, Told, NoneFor, coordVars, checkVars, masterVars
  <2>1. ASSUME NEW a \in Addr, Start(a) PROVE ListInv'
    BY <2>1, Zenon DEF Start
  <2>2. ASSUME NEW a \in Addr, shutdown(a) PROVE ListInv'
    BY <2>2, Zenon DEF shutdown
  <2>3. ASSUME NEW a \in Addr, Exit(a) PROVE ListInv'
    BY <2>3, Zenon DEF Exit
  <2>4. ASSUME NEW a \in Addr, Report(a) PROVE ListInv'
    BY <2>4, Zenon DEF Report
  <2>5. ASSUME NEW a \in Addr, Register(a) PROVE ListInv'
    BY <2>5, Zenon DEF Register, Broadcast
  <2>6. ASSUME NEW k \in Check, NEW a \in Addr, checkFails(k, a) PROVE ListInv'
    BY <2>6, Zenon DEF checkFails
  <2>15. ASSUME NEW k \in Check, NEW a \in Addr, checkReaches(k, a) PROVE ListInv'
    BY <2>15, Zenon DEF checkReaches
  <2>7. ASSUME NEW k \in Check, checkReachable(k) PROVE ListInv'
    BY <2>7, Zenon DEF checkReachable
  <2>8. ASSUME NEW k \in Check, checkDelete(k) PROVE ListInv'
    BY <2>8, Zenon DEF checkDelete, NoBroadcast
  <2>9. CASE Die
    BY <2>9, Zenon DEF Die
  <2>10. CASE NewCoordinator
    BY <2>10, Zenon DEF NewCoordinator
  <2>11. ASSUME NEW m \in Master, List(m) PROVE ListInv'
    BY <2>11, Zenon DEF List
  <2>12. ASSUME NEW m \in Master, refreshWorkers(m) PROVE ListInv'
    BY <2>12, Zenon DEF refreshWorkers
  <2>13. ASSUME NEW m \in Master, NEW a \in Addr, tryConnect(m, a) PROVE ListInv'
    BY <2>13, Zenon DEF tryConnect
  <2>14. CASE UNCHANGED vars
    BY <2>14, Zenon DEF vars
  <2> QED
    BY <2>1, <2>2, <2>3, <2>4, <2>5, <2>6, <2>7, <2>8, <2>9, <2>10, <2>11, <2>12, <2>13,
       <2>14, <2>15, ZenonT(60) DEF Next
<1>3. ListInv => MissesNoWorker
  BY Zenon DEF ListInv
<1> QED
  BY <1>1, <1>2, <1>3, TypeCorrect, PTL DEF Spec

(* The invariant of the checks: the dials and the deletion are separate    *)
(* steps, other checks and registrations come in between, and CheckInv is  *)
(* what carries over from the one to the other.                            *)
THEOREM CheckInvariant == Spec => []CheckInv
<1>1. Init => CheckInv
  BY SMTT(60) DEF Init, NoneFor, CheckInv
<1>2. TypeOK /\ CheckInv /\ [Next]_vars => CheckInv'
  <2> SUFFICES ASSUME TypeOK, CheckInv, [Next]_vars PROVE CheckInv'
    BY Zenon
  <2> USE DEF TypeOK, CheckInv, NoneFor, coordVars, checkVars, masterVars
  <2>1. ASSUME NEW a \in Addr, Start(a) PROVE CheckInv'
    BY <2>1, Zenon DEF Start
  <2>2. ASSUME NEW a \in Addr, shutdown(a) PROVE CheckInv'
    BY <2>2, Zenon DEF shutdown
  <2>3. ASSUME NEW a \in Addr, Exit(a) PROVE CheckInv'
    BY <2>3, Zenon DEF Exit
  <2>4. ASSUME NEW a \in Addr, Report(a) PROVE CheckInv'
    BY <2>4, Zenon DEF Report
  <2>5. ASSUME NEW a \in Addr, Register(a) PROVE CheckInv'
    BY <2>5, Zenon DEF Register, Broadcast
  <2>6. ASSUME NEW k \in Check, NEW a \in Addr, checkFails(k, a) PROVE CheckInv'
    BY <2>6, Zenon DEF checkFails
  <2>15. ASSUME NEW k \in Check, NEW a \in Addr, checkReaches(k, a) PROVE CheckInv'
    BY <2>15, Zenon DEF checkReaches
  <2>7. ASSUME NEW k \in Check, checkReachable(k) PROVE CheckInv'
    BY <2>7, Zenon DEF checkReachable
  <2>8. ASSUME NEW k \in Check, checkDelete(k) PROVE CheckInv'
    BY <2>8, Zenon DEF checkDelete, NoBroadcast
  <2>9. CASE Die
    BY <2>9, Zenon DEF Die
  <2>10. CASE NewCoordinator
    BY <2>10, Zenon DEF NewCoordinator
  <2>11. ASSUME NEW m \in Master, List(m) PROVE CheckInv'
    BY <2>11, Zenon DEF List
  <2>12. ASSUME NEW m \in Master, refreshWorkers(m) PROVE CheckInv'
    BY <2>12, Zenon DEF refreshWorkers
  <2>13. ASSUME NEW m \in Master, NEW a \in Addr, tryConnect(m, a) PROVE CheckInv'
    BY <2>13, Zenon DEF tryConnect
  <2>14. CASE UNCHANGED vars
    BY <2>14, Zenon DEF vars
  <2> QED
    BY <2>1, <2>2, <2>3, <2>4, <2>5, <2>6, <2>7, <2>8, <2>9, <2>10, <2>11, <2>12, <2>13,
       <2>14, <2>15, ZenonT(60) DEF Next
<1> QED
  BY <1>1, <1>2, TypeCorrect, PTL DEF Spec

(* checkReachable deletes no worker that every dial has reached since its  *)
(* last registration was stored, with any number of checks at a time.      *)
THEOREM OnlyUnreachedDeleted == Spec => DeletesOnlyUnreached
<1>1. CheckInv /\ [Next]_vars => [running' => \A a \in workers \ workers' : a \in missed]_vars
  <2> SUFFICES ASSUME CheckInv, Next, running', NEW a \in workers \ workers'
               PROVE  a \in missed
    BY Zenon
  <2>1. ASSUME NEW k \in Check, checkDelete(k) PROVE a \in missed
    BY <2>1, Zenon DEF checkDelete, CheckInv
  <2>2. CASE Die
    BY <2>2, SMTT(60) DEF Die
  <2>3. \/ workers' = workers
        \/ \E b \in Addr : workers' = workers \cup {b}
        \/ \E k \in Check : checkDelete(k)
        \/ Die
    BY Zenon DEF Next, Start, shutdown, Exit, Report, Register, checkFails, checkReaches,
           checkReachable, NewCoordinator, List, refreshWorkers, tryConnect, coordVars
  <2> QED
    BY <2>1, <2>2, <2>3, Zenon
<1> QED
  BY <1>1, CheckInvariant, PTL DEF Spec, DeletesOnlyUnreached
=============================================================================
