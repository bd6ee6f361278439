------------------------ MODULE MirrorConnectionsProofs ------------------------
(***************************************************************************)
(* MirrorConnections, for any workers, tasks, connections, grants and      *)
(* retries: types, the accounting of job slots, and that closing idle      *)
(* connections takes none from a task.                                     *)
(*                                                                         *)
(* The argument: a connection loses slots for good when a task drops it    *)
(* without jobDone, so in general its free slots are at most those granted *)
(* less those held.  The task that drops a connection takes it out of the  *)
(* map, where it is under its own address, and only a connection that is   *)
(* new comes into the map: those in the map have lost none.                *)
(***************************************************************************)
EXTENDS MirrorConnections, FiniteSetTheorems, TLAPS

Holders(m) == {t \in owes : at[t] = m}

(* Where a task can be with a slot, and without one. *)
TaskInv ==
  \A t \in Task :
    /\ t \in owes => pc[t] \in {"picked", "running", "error", "removed", "leaked"}
    /\ pc[t] \in {"picked", "running"} => t \in owes
    /\ pc[t] \in {"picked", "running", "error", "removed", "granted", "leaked"} =>
         at[t] \in Mc /\ addr[at[t]] \in Addr
    /\ pc[t] \in {"dial", "refused", "granted"} => wanted[t] > 0 /\ dial[t] \in Addr

(* A connection in the map is under its address, and has been granted. *)
MapInv ==
  /\ \A a \in Addr : mirrors[a] # NoMc => addr[mirrors[a]] = a
  /\ \A m \in Mc : addr[m] = NoAddr => max[m] = 0 /\ avail[m] = 0
  /\ \A m \in Mc : addr[m] # NoAddr => max[m] > 0

(* A connection that createMirror has just made is nobody else's. *)
NewInv ==
  \A t \in Task : pc[t] = "granted" =>
    /\ addr[at[t]] = dial[t] /\ avail[at[t]] = max[at[t]]
    /\ at[t] \notin InMap(mirrors)
    /\ \A u \in owes : at[u] # at[t]
    /\ \A u \in Task : pc[u] = "granted" /\ at[u] = at[t] => u = t

(* A connection has no more free slots than those that nobody holds. *)
SlotBound == \A m \in Mc : avail[m] <= max[m] - Cardinality(Holders(m))

SlotInv == TypeOK /\ TaskInv /\ MapInv /\ NewInv /\ SlotBound /\ SlotAccounting

(* Tasks that hold a slot can be counted. *)
LEMMA HoldersFinite ==
  ASSUME owes \subseteq Task
  PROVE  \A m : IsFiniteSet(Holders(m)) /\ Cardinality(Holders(m)) \in Nat
<1>1. \A m : Holders(m) \subseteq Task
  BY Zenon DEF Holders
<1>2. IsFiniteSet(Task)
  BY ConnectionsAssumption, Zenon
<1> QED
  BY <1>1, <1>2, FS_Subset, FS_CardinalityType, Zenon

(* What a step leaves of the connections in the map: each under its        *)
(* address, without a lost slot, and none that another task t has made.    *)
MapStep(t) ==
  /\ workers' \subseteq Addr
  /\ mirrors' \in [Addr -> Mc \cup {NoMc}] /\ clients' \in [Addr -> Mc \cup {NoMc}]
  /\ open' \subseteq Mc /\ up' \subseteq Mc
  /\ UNCHANGED <<addr, max>>
  /\ refreshes' \in 0 .. MaxRefresh
  /\ crashed' \in {"no", "HaveMirror", "HaveClient"}
  /\ \A a \in Addr : mirrors'[a] # NoMc => addr[mirrors'[a]] = a
  /\ \A m \in InMap(mirrors') : avail[m] = max[m] - Cardinality(Holders(m))
  /\ \A u \in Task \ {t} : pc[u] = "granted" => at[u] \notin InMap(mirrors')

(* The locals of a task. *)
LocalStep(t, p) ==
  /\ pc' = [pc EXCEPT ![t] = p]
  /\ \E a \in Addr \cup {NoAddr} : dial' = [dial EXCEPT ![t] = a]
  /\ \E n \in 0 .. wantedMaxJobs : wanted' = [wanted EXCEPT ![t] = n]
  /\ tries' \in [Task -> 0 .. RetryCount]
  /\ p \in {"dial", "refused"} => wanted'[t] > 0 /\ dial'[t] \in Addr

(* A task goes on without taking or giving back a slot. *)
LEMMA MoveInv ==
  ASSUME SlotInv, NEW t \in Task, NEW p \in Place \ {"granted"},
         MapStep(t), LocalStep(t, p), UNCHANGED <<avail, at, owes>>,
         t \in owes => p \in {"picked", "running", "error", "removed", "leaked"},
         p \in {"picked", "running"} => t \in owes,
         p \in {"picked", "running", "error", "removed", "leaked"} =>
           at[t] \in Mc /\ addr[at[t]] \in Addr
  PROVE  SlotInv'
<1>1. \A u \in Task : u # t => pc'[u] = pc[u] /\ dial'[u] = dial[u] /\ wanted'[u] = wanted[u]
  BY Zenon DEF SlotInv, TypeOK, LocalStep
<1>2. pc'[t] = p
  BY Zenon DEF SlotInv, TypeOK, LocalStep
<1>3. TypeOK'
  BY DEF SlotInv, TypeOK, LocalStep, MapStep
<1>4. TaskInv'
  BY <1>1, <1>2 DEF SlotInv, TaskInv, LocalStep, MapStep
<1>5. MapInv'
  BY Zenon DEF SlotInv, MapInv, MapStep
<1>6. NewInv'
  BY <1>1, <1>2 DEF SlotInv, NewInv, MapStep
<1>7. SlotBound'
  BY Zenon DEF SlotInv, SlotBound, MapStep, Holders
<1>8. SlotAccounting'
  BY Zenon DEF SlotAccounting, MapStep, Holders
<1> QED
  BY <1>3, <1>4, <1>5, <1>6, <1>7, <1>8, Zenon DEF SlotInv

(* pick or find takes a slot of a connection in the map. *)
LEMMA TakeInv ==
  ASSUME SlotInv, NEW t \in Task, NEW m \in InMap(mirrors'), t \notin owes,
         MapStep(t), LocalStep(t, "picked"), Take(t, m)
  PROVE  SlotInv'
<1>1. \A u \in Task : u # t => /\ pc'[u] = pc[u] /\ dial'[u] = dial[u]
                               /\ wanted'[u] = wanted[u] /\ at'[u] = at[u]
  BY Zenon DEF SlotInv, TypeOK, LocalStep, Take
<1>2. pc'[t] = "picked" /\ at'[t] = m
  BY Zenon DEF SlotInv, TypeOK, LocalStep, Take
<1>3. m \in Mc /\ addr[m] \in Addr
  <2>1. PICK a \in Addr : m = mirrors'[a] /\ m # NoMc
    BY Zenon DEF InMap
  <2> QED
    BY <2>1 DEF MapStep
<1>4. \A n \in Mc : avail'[n] = IF n = m THEN avail[n] - 1 ELSE avail[n]
  BY <1>3, Zenon DEF SlotInv, TypeOK, Take
<1>5. ASSUME NEW n \in Mc
      PROVE  Cardinality(Holders(n)') = Cardinality(Holders(n)) + (IF n = m THEN 1 ELSE 0)
  <2>1. IsFiniteSet(Holders(n)) /\ Cardinality(Holders(n)) \in Nat
    BY HoldersFinite, Zenon DEF SlotInv, TypeOK
  <2>2. CASE n = m
    <3>1. Holders(n)' = Holders(n) \cup {t} /\ t \notin Holders(n)
      BY <1>1, <1>2, <2>2, Zenon DEF Holders, Take, SlotInv, TypeOK
    <3> QED
      BY <2>1, <2>2, <3>1, FS_AddElement, Zenon
  <2>3. CASE n # m
    <3>1. Holders(n)' = Holders(n)
      BY <1>1, <1>2, <2>3, Zenon DEF Holders, Take, SlotInv, TypeOK
    <3> QED
      BY <2>1, <2>3, <3>1
  <2> QED
    BY <2>2, <2>3, Zenon
<1>6. \A n \in Mc : Cardinality(Holders(n)) \in Nat /\ avail[n] \in Int /\ max[n] \in Int
  BY HoldersFinite DEF SlotInv, TypeOK
<1>7. TypeOK'
  BY <1>3, <1>4, <1>6 DEF SlotInv, TypeOK, LocalStep, MapStep, Take, Place
<1>8. TaskInv'
  BY <1>1, <1>2, <1>3 DEF SlotInv, TaskInv, LocalStep, MapStep, Take
<1>9. MapInv'
  BY <1>3, <1>4, ConnectionsAssumption DEF SlotInv, MapInv, MapStep
<1>10. NewInv'
  BY <1>1, <1>2, <1>4 DEF SlotInv, TaskInv, NewInv, MapStep, Take, TypeOK
<1>11. SlotBound'
  BY <1>4, <1>5, <1>6 DEF SlotInv, SlotBound, MapStep
<1>12. SlotAccounting'
  <2>1. \A n \in InMap(mirrors') : n \in Mc
    BY DEF InMap, MapStep
  <2>2. \A n \in InMap(mirrors') : avail'[n] = max'[n] - Cardinality(Holders(n)')
    BY <1>4, <1>5, <1>6, <2>1 DEF MapStep
  <2> QED
    BY <2>2, Zenon DEF SlotAccounting, Holders, InMap
<1> QED
  BY <1>7, <1>8, <1>9, <1>10, <1>11, <1>12, Zenon DEF SlotInv

(* Counts of slots are natural numbers. *)
LEMMA SlotsFinite ==
  ASSUME NEW S \in SUBSET Mc, NEW n \in [Mc -> Int], \A m \in Mc : n[m] <= Jobs
  PROVE  IsFiniteSet(Slots(S, n)) /\ Cardinality(Slots(S, n)) \in Nat
<1>1. IsFiniteSet(Mc) /\ Jobs \in Nat
  BY ConnectionsAssumption, Zenon
<1>2. IsFiniteSet(Mc \X (1 .. Jobs))
  <2>1. IsFiniteSet(1 .. Jobs)
    BY <1>1, FS_Interval
  <2> QED
    BY <1>1, <2>1, FS_Product, Zenon
<1>3. Slots(S, n) \subseteq Mc \X (1 .. Jobs)
  <2>1. ASSUME NEW x \in Slots(S, n)
        PROVE  x \in Mc \X (1 .. Jobs)
    <3>1. PICK m \in S : x \in {m} \X (1 .. n[m])
      BY <2>1, Zenon DEF Slots
    <3>2. m \in Mc /\ n[m] \in Int /\ n[m] <= Jobs
      BY Zenon
    <3>3. PICK i \in 1 .. n[m] : x = <<m, i>>
      BY <3>1
    <3>4. i \in 1 .. Jobs
      BY <1>1, <3>2, <3>3
    <3> QED
      BY <3>2, <3>3, <3>4, Zenon
  <2> QED
    BY <2>1, Zenon
<1> QED
  BY <1>2, <1>3, FS_Subset, FS_CardinalityType, Zenon

(* So are the sums over the connections of the master and of a worker. *)
LEMMA SumTypes ==
  ASSUME TypeOK
  PROVE  /\ availableJobs(mirrors) \in Nat /\ maxJobs(mirrors) \in Nat
         /\ \A a : Remaining(a) \in Int /\ Remaining(a) <= Jobs
<1>1. /\ Jobs \in Nat
      /\ max \in [Mc -> Int] /\ \A m \in Mc : max[m] <= Jobs
      /\ avail \in [Mc -> Int] /\ \A m \in Mc : avail[m] <= Jobs
  BY ConnectionsAssumption DEF TypeOK
<1>2. InMap(mirrors) \in SUBSET Mc
  BY DEF InMap, TypeOK
<1>3. \A a : {m \in up : addr[m] = a} \in SUBSET Mc
  BY Zenon DEF TypeOK
<1>4. availableJobs(mirrors) \in Nat /\ maxJobs(mirrors) \in Nat
  BY <1>1, <1>2, SlotsFinite, Zenon DEF availableJobs, maxJobs
<1>5. \A a : Cardinality(Slots({m \in up : addr[m] = a}, max)) \in Nat
  BY <1>1, <1>3, SlotsFinite, Zenon
<1>6. ASSUME NEW a
      PROVE  Remaining(a) \in Int /\ Remaining(a) <= Jobs
  <2> DEFINE k == Cardinality(Slots({m \in up : addr[m] = a}, max))
  <2>1. k \in Nat
    BY <1>5, Zenon
  <2>2. Remaining(a) = Jobs - k
    BY Zenon DEF Remaining
  <2> HIDE DEF k
  <2> QED
    BY <1>1, <2>1, <2>2
<1> QED
  BY <1>4, <1>6, Zenon

(* A connection in the map is one of the worker's address. *)
LEMMA InMapFacts ==
  ASSUME SlotInv, NEW m \in InMap(mirrors)
  PROVE  m \in Mc /\ mirrors[addr[m]] = m /\ addr[m] \in Addr
<1>1. PICK a \in Addr : m = mirrors[a] /\ m # NoMc
  BY Zenon DEF InMap
<1> QED
  BY <1>1, Zenon DEF SlotInv, TypeOK, MapInv

(* Steps that leave the map alone. *)
LEMMA SameMap ==
  ASSUME SlotInv, NEW t, UNCHANGED <<mirrors, addr, max, refreshes, crashed>>,
         workers' \subseteq Addr, clients' \in [Addr -> Mc \cup {NoMc}],
         open' \subseteq Mc, up' \subseteq Mc
  PROVE  MapStep(t)
<1>1. \A u \in Task : pc[u] = "granted" => at[u] \notin InMap(mirrors)
  BY Zenon DEF SlotInv, NewInv
<1>2. \A m \in InMap(mirrors) : avail[m] = max[m] - Cardinality(Holders(m))
  BY Zenon DEF SlotInv, SlotAccounting, Holders
<1>3. \A a \in Addr : mirrors[a] # NoMc => addr[mirrors[a]] = a
  BY Zenon DEF SlotInv, MapInv
<1> QED
  BY <1>1, <1>2, <1>3, Zenon DEF MapStep, SlotInv, TypeOK

(* The end of pick. *)
LEMMA PickEndsInv ==
  ASSUME SlotInv, NEW t \in Task, t \notin owes, MapStep(t), PickEnds(t, mirrors')
  PROVE  SlotInv'
<1>1. /\ dial' = [dial EXCEPT ![t] = NoAddr] /\ NoAddr \in Addr \cup {NoAddr}
      /\ wanted' = [wanted EXCEPT ![t] = 0] /\ 0 \in 0 .. wantedMaxJobs
  BY ConnectionsAssumption DEF PickEnds
<1>2. CASE Retry(t) /\ UNCHANGED <<avail, at, owes>>
  <2>1. PICK p \in {"pick", "failed"} : pc' = [pc EXCEPT ![t] = p]
    BY <1>2, Zenon DEF Retry
  <2>2. tries' \in [Task -> 0 .. RetryCount]
    BY <1>2, ConnectionsAssumption DEF Retry, SlotInv, TypeOK
  <2>3. LocalStep(t, p)
    BY <1>1, <2>1, <2>2, Zenon DEF LocalStep
  <2> QED
    BY <1>2, <2>1, <2>3, MoveInv, Zenon DEF Place
<1>3. ASSUME NEW m \in Candidates(mirrors'), Take(t, m), UNCHANGED tries
      PROVE  SlotInv'
  <2>1. m \in InMap(mirrors')
    BY <1>3, Zenon DEF Candidates
  <2>2. LocalStep(t, "picked")
    BY <1>1, <1>3, Zenon DEF LocalStep, Take, SlotInv, TypeOK
  <2> QED
    BY <1>3, <2>1, <2>2, TakeInv, Zenon
<1> QED
  BY <1>2, <1>3, Zenon DEF PickEnds

(* tryConnect goes on to another worker, or pick ends. *)
LEMMA ConnectInv ==
  ASSUME SlotInv, NEW t \in Task, t \notin owes, MapStep(t), NEW W \in SUBSET Addr,
         NEW n \in 1 .. wantedMaxJobs, Connect(t, mirrors', W, n)
  PROVE  SlotInv'
<1>1. ASSUME NEW a \in W,
             /\ dial' = [dial EXCEPT ![t] = a]
             /\ wanted' = [wanted EXCEPT ![t] = n]
             /\ pc' = [pc EXCEPT ![t] = "dial"]
             /\ UNCHANGED <<avail, at, owes, tries>>
      PROVE  SlotInv'
  <2>1. a \in Addr /\ n \in 0 .. wantedMaxJobs /\ n > 0
    BY ConnectionsAssumption
  <2>2. dial'[t] = a /\ wanted'[t] = n /\ tries' \in [Task -> 0 .. RetryCount]
    BY <1>1, Zenon DEF SlotInv, TypeOK
  <2>3. LocalStep(t, "dial")
    BY <1>1, <2>1, <2>2, Zenon DEF LocalStep
  <2> QED
    BY <1>1, <2>3, MoveInv, Zenon DEF Place
<1> QED
  BY <1>1, PickEndsInv, Zenon DEF Connect

(* The master finds a worker in pick, or goes on after an error. *)
LEMMA PickInv ==
  ASSUME SlotInv, NEW t \in Task, pick(t) \/ Refused(t)
  PROVE  SlotInv'
<1>1. pc[t] \in {"idle", "pick", "refused"} /\ t \notin owes
  BY Zenon DEF pick, Refused, SlotInv, TaskInv
<1>2. UNCHANGED <<mirrors, clients, addr, max, open, up, refreshes, crashed>>
  BY Zenon DEF pick, Refused
<1>3. workers' \subseteq Addr
  BY Zenon DEF pick, Refused, SlotInv, TypeOK
<1>4. MapStep(t)
  BY <1>2, <1>3, SameMap, Zenon DEF SlotInv, TypeOK
<1>5. CASE pick(t)
  <2>1. CASE PickEnds(t, mirrors)
    BY <1>1, <1>2, <1>4, <2>1, PickEndsInv, Zenon
  <2>2. CASE ~PickEnds(t, mirrors)
    <3> DEFINE n == wantedMaxJobs - maxJobs(mirrors)
    <3>1. n > 0 /\ Connect(t, mirrors, workers, n)
      BY <1>5, <2>2, Zenon DEF pick
    <3>2. n \in 1 .. wantedMaxJobs
      BY <3>1, SumTypes, ConnectionsAssumption DEF SlotInv
    <3>3. workers \in SUBSET Addr /\ mirrors' = mirrors
      BY <1>2, Zenon DEF SlotInv, TypeOK
    <3> HIDE DEF n
    <3> QED
      BY <1>1, <1>4, <3>1, <3>2, <3>3, ConnectInv, Zenon
  <2> QED
    BY <2>1, <2>2, Zenon
<1>6. CASE Refused(t)
  <2>1. Connect(t, mirrors', workers', wanted[t]) /\ workers' \in SUBSET Addr
    BY <1>2, <1>3, <1>6, Zenon DEF Refused
  <2>2. wanted[t] \in 1 .. wantedMaxJobs
    BY <1>6, ConnectionsAssumption DEF Refused, SlotInv, TypeOK, TaskInv
  <2> QED
    BY <1>1, <1>4, <2>1, <2>2, ConnectInv, Zenon
<1> QED
  BY <1>5, <1>6, Zenon

(* A named worker's connection is used, or there is none. *)
LEMMA FindInv ==
  ASSUME SlotInv, NEW t \in Task, find(t)
  PROVE  SlotInv'
<1>1. pc[t] = "idle" /\ t \notin owes
  BY Zenon DEF find, SlotInv, TaskInv
<1>2. UNCHANGED <<workers, mirrors, clients, addr, max, open, up, dial, wanted,
                  tries, refreshes, crashed>>
  BY Zenon DEF find
<1>3. MapStep(t)
  BY <1>2, SameMap, Zenon DEF SlotInv, TypeOK
<1>4. \A p : pc' = [pc EXCEPT ![t] = p] /\ p \notin {"dial", "refused"} => LocalStep(t, p)
  BY <1>2 DEF LocalStep, SlotInv, TypeOK
<1>5. ASSUME NEW a \in Addr, mirrors[a] # NoMc, Take(t, mirrors[a])
      PROVE  SlotInv'
  <2>1. mirrors[a] \in InMap(mirrors')
    BY <1>2, <1>5, Zenon DEF InMap
  <2>2. LocalStep(t, "picked")
    <3>1. pc' = [pc EXCEPT ![t] = "picked"] /\ "picked" \notin {"dial", "refused"}
      BY <1>5, Zenon DEF Take
    <3> QED
      BY <1>4, <3>1, Zenon
  <2> QED
    BY <1>1, <1>3, <1>5, <2>1, <2>2, TakeInv, Zenon
<1>6. ASSUME pc' = [pc EXCEPT ![t] = "failed"], UNCHANGED <<avail, at, owes>>
      PROVE  SlotInv'
  <2>1. /\ "failed" \in Place \ {"granted"}
        /\ "failed" \notin {"picked", "running", "error", "removed", "leaked", "dial", "refused"}
        /\ "failed" \notin {"picked", "running"} /\ "failed" \notin {"dial", "refused"}
    BY Zenon DEF Place
  <2>2. LocalStep(t, "failed")
    BY <1>4, <1>6, <2>1, Zenon
  <2> QED
    BY <1>1, <1>3, <1>6, <2>1, <2>2, MoveInv, SMTT(60)
<1> QED
  BY <1>5, <1>6, Zenon DEF find

(* Steps that only tell where a task is. *)
LEMMA PcInv ==
  ASSUME SlotInv, NEW t \in Task, DialFails(t) \/ Send(t) \/ RmClient(t)
  PROVE  SlotInv'
<1>1. UNCHANGED <<workers, mirrors, addr, max, avail, open, up, at, dial, wanted, tries,
                  owes, refreshes, crashed>>
  BY Zenon DEF DialFails, Send, RmClient, connVars
<1>2. clients' \in [Addr -> Mc \cup {NoMc}]
  BY Zenon DEF DialFails, Send, RmClient, connVars, SlotInv, TypeOK
<1>3. MapStep(t)
  BY <1>1, <1>2, SameMap, Zenon DEF SlotInv, TypeOK
<1>4. \A p : /\ pc' = [pc EXCEPT ![t] = p]
             /\ p = "refused" => pc[t] = "dial"
             /\ p # "dial"
             => LocalStep(t, p)
  BY <1>1 DEF LocalStep, SlotInv, TypeOK, TaskInv
<1>5. CASE DialFails(t)
  <2>1. pc[t] = "dial" /\ pc' = [pc EXCEPT ![t] = "refused"] /\ t \notin owes
    BY <1>5, Zenon DEF DialFails, SlotInv, TaskInv
  <2> QED
    BY <1>1, <1>3, <1>4, <2>1, MoveInv, Zenon DEF Place
<1>6. CASE Send(t)
  <2>1. PICK p \in {"running", "error", "leaked"} : pc' = [pc EXCEPT ![t] = p]
    BY <1>6, Zenon DEF Send
  <2>2. t \in owes /\ at[t] \in Mc /\ addr[at[t]] \in Addr
    BY <1>6, Zenon DEF Send, SlotInv, TaskInv
  <2> QED
    BY <1>1, <1>3, <1>4, <2>1, <2>2, MoveInv, Zenon DEF Place
<1>7. CASE RmClient(t)
  <2>1. pc' = [pc EXCEPT ![t] = "removed"]
    BY <1>7, Zenon DEF RmClient
  <2>2. at[t] \in Mc /\ addr[at[t]] \in Addr
    BY <1>7, Zenon DEF RmClient, SlotInv, TaskInv
  <2> QED
    BY <1>1, <1>3, <1>4, <2>1, <2>2, MoveInv, Zenon DEF Place
<1> QED
  BY <1>5, <1>6, <1>7, Zenon

(* A task gives up the slot that it holds. *)
LEMMA Unheld ==
  ASSUME TypeOK, NEW t \in Task, owes' = owes \ {t},
         \A u \in Task : u # t => at'[u] = at[u]
  PROVE  \A m \in Mc : Cardinality(Holders(m)') =
           Cardinality(Holders(m)) - (IF t \in owes /\ at[t] = m THEN 1 ELSE 0)
<1> TAKE m \in Mc
<1>1. Holders(m)' = Holders(m) \ {t}
  BY Zenon DEF Holders, TypeOK
<1>2. t \in Holders(m) <=> t \in owes /\ at[t] = m
  BY Zenon DEF Holders
<1>3. IsFiniteSet(Holders(m)) /\ Cardinality(Holders(m)) \in Nat
  BY HoldersFinite, Zenon DEF TypeOK
<1>4. Cardinality(Holders(m) \ {t}) =
        IF t \in Holders(m) THEN Cardinality(Holders(m)) - 1 ELSE Cardinality(Holders(m))
  BY <1>3, FS_RemoveElement, Zenon
<1> QED
  BY <1>1, <1>2, <1>3, <1>4

(* Steps of a task that neither make a connection nor take a slot leave    *)
(* the connections alone that other tasks have just made.                  *)
LEMMA NewFrame ==
  ASSUME SlotInv, NEW t \in Task, pc'[t] # "granted", UNCHANGED <<addr, max, dial>>,
         \A u \in Task : u # t => pc'[u] = pc[u],
         \A u \in Task : u # t => at'[u] = at[u],
         owes' \subseteq owes \ {t}, InMap(mirrors') \subseteq InMap(mirrors),
         \A n \in Mc : avail'[n] # avail[n] => \E v \in owes : at[v] = n
  PROVE  NewInv'
<1>1. ASSUME NEW u \in Task, pc'[u] = "granted"
      PROVE  /\ addr[at'[u]] = dial[u] /\ avail'[at'[u]] = max[at'[u]]
             /\ at'[u] \notin InMap(mirrors')
             /\ \A v \in owes' : at'[v] # at'[u]
             /\ \A v \in Task : pc'[v] = "granted" /\ at'[v] = at'[u] => v = u
  <2>1. u # t /\ pc[u] = "granted" /\ at'[u] = at[u]
    BY <1>1, Zenon
  <2>2. /\ at[u] \in Mc
        /\ addr[at[u]] = dial[u] /\ avail[at[u]] = max[at[u]] /\ at[u] \notin InMap(mirrors)
        /\ \A v \in owes : at[v] # at[u]
        /\ \A v \in Task : pc[v] = "granted" /\ at[v] = at[u] => v = u
    BY <2>1, Zenon DEF SlotInv, NewInv, TaskInv
  <2>3. avail'[at[u]] = avail[at[u]]
    BY <2>2, Zenon
  <2>4. owes' \subseteq Task
    BY Zenon DEF SlotInv, TypeOK
  <2>5. \A v \in owes' : at'[v] # at[u]
    BY <2>2, <2>4, Zenon
  <2>6. \A v \in Task : pc'[v] = "granted" => v # t /\ pc[v] = "granted"
    BY Zenon
  <2> QED
    BY <2>1, <2>2, <2>3, <2>5, <2>6, Zenon
<1> QED
  BY <1>1, Zenon DEF NewInv, InMap

(* jobDone. *)
LEMMA DoneInv ==
  ASSUME SlotInv, NEW t \in Task, RunOk(t) \/ RunFails(t)
  PROVE  SlotInv'
<1> DEFINE m == at[t]
<1>1. /\ UNCHANGED <<workers, mirrors, clients, addr, max, open, up, dial, wanted, tries,
                     refreshes, crashed>>
      /\ owes' = owes \ {t} /\ avail' = [avail EXCEPT ![m] = avail[m] + 1]
  BY Zenon DEF RunOk, RunFails, jobDone
<1>2. t \in owes /\ m \in Mc /\ addr[m] \in Addr
  BY Zenon DEF RunOk, RunFails, SlotInv, TaskInv
<1>3. at' \in [Task -> Mc \cup {NoMc}] /\ \A u \in Task : u # t => at'[u] = at[u]
  BY Zenon DEF RunOk, RunFails, SlotInv, TypeOK
<1>4. PICK p \in {"done", "failed", "error"} :
        pc' = [pc EXCEPT ![t] = p] /\ (p = "error" => at' = at)
  BY Zenon DEF RunOk, RunFails
<1>5. \A u \in Task : pc'[u] = IF u = t THEN p ELSE pc[u]
  BY <1>4, Zenon DEF SlotInv, TypeOK
<1>6. \A n \in Mc : avail'[n] = IF n = m THEN avail[n] + 1 ELSE avail[n]
  BY <1>1, <1>2, Zenon DEF SlotInv, TypeOK
<1>7. \A n \in Mc : Cardinality(Holders(n)') =
        Cardinality(Holders(n)) - (IF n = m THEN 1 ELSE 0)
  BY <1>1, <1>2, <1>3, Unheld, Zenon DEF SlotInv
<1>8. \A n \in Mc : /\ avail[n] \in Int /\ max[n] \in Int
                    /\ Cardinality(Holders(n)) \in Nat /\ Cardinality(Holders(n)') \in Nat
  <2>1. owes \subseteq Task /\ owes' \subseteq Task
    BY <1>1, Zenon DEF SlotInv, TypeOK
  <2>2. \A n \in Mc : IsFiniteSet(Holders(n)')
    <3>1. \A n : Holders(n)' \subseteq Task
      BY <2>1, Zenon DEF Holders
    <3> QED
      BY <3>1, ConnectionsAssumption, FS_Subset, Zenon
  <2> QED
    BY <2>1, <2>2, HoldersFinite, FS_CardinalityType DEF SlotInv, TypeOK
<1>9. SlotBound'
  BY <1>1, <1>6, <1>7, <1>8 DEF SlotInv, SlotBound
<1>10. SlotAccounting'
  <2>1. \A n \in InMap(mirrors) : n \in Mc /\ avail[n] = max[n] - Cardinality(Holders(n))
    BY InMapFacts, ZenonT(60) DEF SlotInv, SlotAccounting, Holders
  <2>2. \A n \in InMap(mirrors) : avail'[n] = max[n] - Cardinality(Holders(n)')
    BY <1>6, <1>7, <1>8, <2>1
  <2> QED
    BY <1>1, <2>2 DEF SlotAccounting, Holders, InMap
<1>11. TypeOK'
  <2>1. \A n \in Mc : avail'[n] \in Int /\ avail'[n] <= max[n]
    BY <1>1, <1>6, <1>8, <1>9 DEF SlotBound
  <2> QED
    BY <1>1, <1>2, <1>3, <1>4, <2>1, ZenonT(60) DEF SlotInv, TypeOK, Place
<1>12. TaskInv'
  BY <1>1, <1>2, <1>3, <1>4, <1>5 DEF SlotInv, TaskInv
<1>13. MapInv'
  BY <1>1, <1>2, <1>6, ConnectionsAssumption, ZenonT(60) DEF SlotInv, MapInv
<1>14. NewInv'
  <2>1. \A n \in Mc : avail'[n] # avail[n] => \E v \in owes : at[v] = n
    BY <1>2, <1>6, Zenon
  <2>2. owes' \subseteq owes \ {t} /\ InMap(mirrors') \subseteq InMap(mirrors)
    BY <1>1, Zenon
  <2>3. pc'[t] # "granted" /\ \A u \in Task : u # t => pc'[u] = pc[u]
    BY <1>5, Zenon
  <2> QED
    BY <1>1, <1>3, <2>1, <2>2, <2>3, NewFrame, Zenon
<1> QED
  BY <1>9, <1>10, <1>11, <1>12, <1>13, <1>14, Zenon DEF SlotInv

(* drop: the connection leaves the map, with the slot of a task that did   *)
(* not call jobDone.                                                       *)
LEMMA DropInv ==
  ASSUME SlotInv, NEW t \in Task, drop(t)
  PROVE  SlotInv'
<1> DEFINE m == at[t]
           a == addr[m]
<1>1. /\ mirrors' = [mirrors EXCEPT ![a] = NoMc] /\ workers' = workers \ {a}
      /\ open' = open \ {m} /\ owes' = owes \ {t} /\ at' = [at EXCEPT ![t] = NoMc]
      /\ UNCHANGED <<clients, addr, max, avail, up, dial, wanted, refreshes, crashed>>
  BY Zenon DEF drop
<1>2. m \in Mc /\ a \in Addr
  BY Zenon DEF drop, SlotInv, TaskInv
<1>3. \A u \in Task : u # t => at'[u] = at[u]
  BY <1>1, Zenon DEF SlotInv, TypeOK
<1>4. PICK p \in {"pick", "failed"} : pc' = [pc EXCEPT ![t] = p]
  BY Zenon DEF drop, Retry
<1>5. \A u \in Task : pc'[u] = IF u = t THEN p ELSE pc[u]
  BY <1>4, Zenon DEF SlotInv, TypeOK
<1>6. tries' \in [Task -> 0 .. RetryCount]
  BY ConnectionsAssumption DEF drop, Retry, SlotInv, TypeOK
<1>7. \A n \in Mc : Cardinality(Holders(n)') =
        Cardinality(Holders(n)) - (IF t \in owes /\ n = m THEN 1 ELSE 0)
  BY <1>1, <1>3, Unheld, Zenon DEF SlotInv
<1>8. \A n \in Mc : avail[n] \in Int /\ max[n] \in Int /\ Cardinality(Holders(n)) \in Nat
  BY HoldersFinite DEF SlotInv, TypeOK
<1>9. \A n \in InMap(mirrors') : n \in InMap(mirrors) /\ n # m
  <2> SUFFICES ASSUME NEW b \in Addr, mirrors'[b] # NoMc
               PROVE  mirrors'[b] \in InMap(mirrors) /\ mirrors'[b] # m
    BY Zenon DEF InMap
  <2>1. b # a /\ mirrors'[b] = mirrors[b]
    BY <1>1, <1>2, Zenon DEF SlotInv, TypeOK
  <2> QED
    BY <2>1, Zenon DEF InMap, SlotInv, MapInv
<1>10. SlotBound'
  BY <1>1, <1>7, <1>8 DEF SlotInv, SlotBound
<1>11. SlotAccounting'
  <2>1. \A n \in InMap(mirrors) : n \in Mc /\ avail[n] = max[n] - Cardinality(Holders(n))
    BY InMapFacts, ZenonT(60) DEF SlotInv, SlotAccounting, Holders
  <2>2. \A n \in InMap(mirrors') : avail[n] = max[n] - Cardinality(Holders(n)')
    BY <1>7, <1>8, <1>9, <2>1
  <2> QED
    BY <1>1, <2>2, Zenon DEF SlotAccounting, Holders, InMap
<1>12. TypeOK'
  BY <1>1, <1>2, <1>4, <1>6, Zenon DEF SlotInv, TypeOK, Place
<1>13. TaskInv'
  BY <1>1, <1>3, <1>4, <1>5 DEF SlotInv, TaskInv
<1>14. MapInv'
  BY <1>1, <1>2, Zenon DEF SlotInv, MapInv, TypeOK
<1>15. NewInv'
  <2>1. owes' \subseteq owes \ {t} /\ InMap(mirrors') \subseteq InMap(mirrors)
    BY <1>1, <1>9, ZenonT(60)
  <2>2. pc'[t] # "granted" /\ \A u \in Task : u # t => pc'[u] = pc[u]
    BY <1>5, Zenon
  <2> QED
    BY <1>1, <1>3, <2>1, <2>2, NewFrame, Zenon
<1> QED
  BY <1>10, <1>11, <1>12, <1>13, <1>14, <1>15, Zenon DEF SlotInv

(* A worker grants slots: the connection is new to everyone. *)
Made(t, m) ==
  /\ dial[t] \in Addr /\ wanted[t] > 0 /\ t \notin owes
  /\ m \notin InMap(mirrors) /\ \A u \in owes : u \in Task /\ at[u] # m
  /\ \A u \in Task : pc[u] = "granted" => at[u] # m
  /\ UNCHANGED <<mirrors, dial, wanted, owes>>
  /\ pc'[t] = "granted" /\ at'[t] = m
  /\ \A u \in Task : u # t => pc'[u] = pc[u] /\ at'[u] = at[u]
  /\ max'[m] \in 1 .. Jobs /\ avail'[m] = max'[m] /\ addr'[m] = dial[t]
  /\ \A n \in Mc : n # m => max'[n] = max[n] /\ avail'[n] = avail[n] /\ addr'[n] = addr[n]

LEMMA GetMirrorFacts ==
  ASSUME SlotInv, NEW t \in Task, NEW m \in Mc, getMirror(t, m)
  PROVE  Made(t, m)
<1> DEFINE g == IF Remaining(dial[t]) < wanted[t] THEN Remaining(dial[t]) ELSE wanted[t]
<1>1. g \in 1 .. Jobs
  <2>1. /\ Remaining(dial[t]) \in Int /\ Remaining(dial[t]) <= Jobs
        /\ wanted[t] \in Int /\ Jobs \in Nat
    BY SumTypes, ConnectionsAssumption DEF SlotInv, TypeOK
  <2>2. Remaining(dial[t]) > 0 /\ wanted[t] > 0
    BY Zenon DEF getMirror, SlotInv, TaskInv
  <2> QED
    BY <2>1, <2>2
<1>2. max' = [max EXCEPT ![m] = g] /\ avail' = [avail EXCEPT ![m] = g]
  BY Zenon DEF getMirror
<1> HIDE DEF g
<1>3. /\ pc[t] = "dial" /\ addr[m] = NoAddr /\ dial[t] \in Addr /\ wanted[t] > 0
      /\ t \notin owes
  BY Zenon DEF getMirror, SlotInv, TaskInv
<1>4. NoAddr \notin Addr
  BY ConnectionsAssumption, Zenon
<1>5. \A u \in owes : u \in Task /\ at[u] # m
  BY <1>3, <1>4, Zenon DEF SlotInv, TypeOK, TaskInv
<1>6. \A u \in Task : pc[u] = "granted" => at[u] # m
  BY <1>3, <1>4, Zenon DEF SlotInv, TaskInv
<1>7. m \notin InMap(mirrors)
  BY <1>3, <1>4, InMapFacts, Zenon
<1>8. /\ pc'[t] = "granted" /\ at'[t] = m
      /\ \A u \in Task : u # t => pc'[u] = pc[u] /\ at'[u] = at[u]
  BY Zenon DEF getMirror, SlotInv, TypeOK
<1>9. /\ max'[m] = g /\ avail'[m] = g /\ addr'[m] = dial[t]
      /\ \A n \in Mc : n # m => max'[n] = max[n] /\ avail'[n] = avail[n] /\ addr'[n] = addr[n]
  BY <1>2, Zenon DEF getMirror, SlotInv, TypeOK
<1>10. UNCHANGED <<mirrors, dial, wanted, owes>>
  BY Zenon DEF getMirror
<1> QED
  BY <1>1, <1>3, <1>5, <1>6, <1>7, <1>8, <1>9, <1>10, Zenon DEF Made

(* It is the task's alone. *)
LEMMA GetMirrorNew ==
  ASSUME SlotInv, NEW t \in Task, NEW m \in Mc, Made(t, m)
  PROVE  NewInv'
<1>1. \A u \in Task : u # t /\ pc[u] = "granted" =>
        /\ at[u] \in Mc /\ at[u] # m
        /\ addr[at[u]] = dial[u] /\ avail[at[u]] = max[at[u]] /\ at[u] \notin InMap(mirrors)
        /\ \A v \in owes : at[v] # at[u]
        /\ \A v \in Task : pc[v] = "granted" /\ at[v] = at[u] => v = u
  BY Zenon DEF SlotInv, TaskInv, NewInv, Made
<1>2. ASSUME NEW u \in Task, pc'[u] = "granted"
      PROVE  /\ addr'[at'[u]] = dial'[u] /\ avail'[at'[u]] = max'[at'[u]]
             /\ at'[u] \notin InMap(mirrors')
             /\ \A v \in owes' : at'[v] # at'[u]
             /\ \A v \in Task : pc'[v] = "granted" /\ at'[v] = at'[u] => v = u
  <2>1. CASE u = t
    <3>1. /\ at'[u] = m /\ addr'[m] = dial[t] /\ avail'[m] = max'[m]
          /\ UNCHANGED <<mirrors, dial, owes>> /\ m \notin InMap(mirrors)
      BY <2>1, Zenon DEF Made
    <3>2. \A v \in owes : at'[v] # m
      BY Zenon DEF Made
    <3>3. \A v \in Task : pc'[v] = "granted" /\ at'[v] = m => v = t
      BY Zenon DEF Made
    <3> QED
      BY <2>1, <3>1, <3>2, <3>3, Zenon DEF InMap
  <2>2. CASE u # t
    <3>1. /\ at'[u] = at[u] /\ pc[u] = "granted" /\ UNCHANGED <<mirrors, dial, owes>>
      BY <1>2, <2>2, Zenon DEF Made
    <3>2. /\ at[u] \in Mc /\ at[u] # m /\ at[u] \notin InMap(mirrors)
          /\ addr[at[u]] = dial[u] /\ avail[at[u]] = max[at[u]]
      BY <1>1, <2>2, <3>1, Zenon
    <3>3. addr'[at[u]] = addr[at[u]] /\ avail'[at[u]] = avail[at[u]] /\ max'[at[u]] = max[at[u]]
      BY <3>2, Zenon DEF Made
    <3>4. \A v \in Task : v # t => pc'[v] = pc[v] /\ at'[v] = at[v]
      BY Zenon DEF Made
    <3>5. \A v \in owes : at'[v] # at[u]
      <4>1. \A v \in owes : v \in Task /\ v # t
        BY Zenon DEF Made
      <4>2. \A v \in owes : at[v] # at[u]
        BY <1>1, <2>2, <3>1, Zenon
      <4> QED
        BY <3>4, <4>1, <4>2, Zenon
    <3>6. \A v \in Task : pc'[v] = "granted" /\ at'[v] = at[u] => v = u
      <4>1. at'[t] = m
        BY Zenon DEF Made
      <4>2. \A v \in Task : pc[v] = "granted" /\ at[v] = at[u] => v = u
        BY <1>1, <2>2, <3>1, Zenon
      <4> QED
        BY <3>2, <3>4, <4>1, <4>2, Zenon
    <3> QED
      BY <3>1, <3>2, <3>3, <3>5, <3>6, Zenon DEF InMap
  <2> QED
    BY <2>1, <2>2, Zenon
<1> QED
  BY <1>2, Zenon DEF NewInv, InMap

(* It has no slot taken. *)
LEMMA GetMirrorSlots ==
  ASSUME SlotInv, NEW t \in Task, NEW m \in Mc, Made(t, m)
  PROVE  SlotBound' /\ SlotAccounting'
<1>1. \A n \in Mc : Holders(n)' = Holders(n)
  <2>1. owes' = owes /\ \A u \in owes : at'[u] = at[u]
    BY Zenon DEF Made
  <2> QED
    BY <2>1, Zenon DEF Holders
<1>2. Cardinality(Holders(m)) = 0
  <2>1. Holders(m) = {}
    BY Zenon DEF Holders, Made
  <2> QED
    BY <2>1, FS_EmptySet, Zenon
<1>3. \A n \in Mc : avail'[n] <= max'[n] - Cardinality(Holders(n))
  BY <1>2 DEF SlotInv, SlotBound, Made
<1>4. \A n \in InMap(mirrors) : n \in Mc /\ n # m /\ avail[n] = max[n] - Cardinality(Holders(n))
  BY InMapFacts, Zenon DEF SlotInv, SlotAccounting, Holders, Made
<1>5. \A n \in InMap(mirrors) : avail'[n] = max'[n] - Cardinality(Holders(n)')
  BY <1>1, <1>4 DEF Made
<1>6. mirrors' = mirrors
  BY Zenon DEF Made
<1> QED
  BY <1>1, <1>3, <1>5, <1>6 DEF SlotBound, SlotAccounting, Holders, InMap

(* createMirror succeeds. *)
LEMMA GetMirrorInv ==
  ASSUME SlotInv, NEW t \in Task, NEW m \in Mc, getMirror(t, m)
  PROVE  SlotInv'
<1>1. Made(t, m)
  BY GetMirrorFacts, Zenon
<1>2. TypeOK'
  <2>1. max' \in [Mc -> 0 .. Jobs] /\ avail' \in [Mc -> Int]
    <3>1. \E g : max' = [max EXCEPT ![m] = g] /\ avail' = [avail EXCEPT ![m] = g]
      BY Zenon DEF getMirror
    <3>2. max'[m] \in 0 .. Jobs /\ avail'[m] \in Int
      BY <1>1 DEF Made
    <3> QED
      BY <3>1, <3>2, Zenon DEF SlotInv, TypeOK
  <2>2. \A n \in Mc : avail'[n] <= max'[n]
    BY <1>1 DEF SlotInv, TypeOK, Made
  <2>3. dial[t] \in Addr
    BY <1>1, Zenon DEF Made
  <2> QED
    BY <2>1, <2>2, <2>3, Zenon DEF getMirror, SlotInv, TypeOK, Place
<1>3. TaskInv'
  BY <1>1 DEF SlotInv, TaskInv, Made
<1>4. MapInv'
  <2>1. \A b \in Addr : mirrors[b] # NoMc => mirrors[b] \in Mc /\ mirrors[b] # m
    BY <1>1 DEF InMap, SlotInv, TypeOK, Made
  <2>2. NoAddr \notin Addr
    BY ConnectionsAssumption, Zenon
  <2> QED
    BY <1>1, <2>1, <2>2 DEF SlotInv, MapInv, Made
<1> QED
  BY <1>1, <1>2, <1>3, <1>4, GetMirrorNew, GetMirrorSlots, Zenon DEF SlotInv

(* The new connection comes into the map, or an assertion fails. *)
LEMMA GrantedInv ==
  ASSUME SlotInv, NEW t \in Task, Granted(t)
  PROVE  SlotInv'
<1> DEFINE a == dial[t]
           m == at[t]
<1>1. UNCHANGED <<workers, addr, max, open, up, refreshes>>
  BY ZenonT(60) DEF Granted
<1>2. pc[t] = "granted" /\ t \notin owes /\ a \in Addr /\ m \in Mc /\ m # NoMc
  BY ConnectionsAssumption, ZenonT(60) DEF Granted, SlotInv, TaskInv
<1>3. CASE crashed' \in {"HaveMirror", "HaveClient"} /\ UNCHANGED <<mirrors, clients, avail, taskVars>>
  <2>1. TypeOK'
    BY <1>1, <1>3, Zenon DEF taskVars, SlotInv, TypeOK
  <2>2. UNCHANGED <<addr, max, mirrors, avail, pc, at, dial, wanted, owes>>
    BY <1>1, <1>3, Zenon DEF taskVars
  <2>3. TaskInv'
    BY <2>2, Zenon DEF SlotInv, TaskInv
  <2>4. MapInv'
    BY <2>2, Zenon DEF SlotInv, MapInv
  <2>5. NewInv'
    BY <2>2 DEF SlotInv, NewInv, InMap
  <2>6. SlotBound' /\ SlotAccounting'
    <3>1. SlotBound'
      BY <2>2, Zenon DEF SlotInv, SlotBound, Holders
    <3>2. SlotAccounting'
      BY <2>2 DEF SlotInv, InMap, SlotAccounting
    <3> QED
      BY <3>1, <3>2, Zenon
  <2> QED
    BY <2>1, <2>3, <2>4, <2>5, <2>6, Zenon DEF SlotInv
<1>4. CASE /\ mirrors' = [mirrors EXCEPT ![a] = m] /\ clients' = [clients EXCEPT ![a] = m]
           /\ Connect(t, mirrors', workers, wanted[t]) /\ UNCHANGED crashed
  <2>1. /\ addr[m] = a /\ avail[m] = max[m]
        /\ \A u \in owes : at[u] # m
        /\ \A u \in Task \ {t} : pc[u] = "granted" => at[u] # m /\ at[u] \notin InMap(mirrors)
    BY <1>2, Zenon DEF SlotInv, NewInv
  <2>2. Holders(m) = {}
    BY <2>1, Zenon DEF Holders
  <2>3. \A n \in InMap(mirrors') : n = m \/ n \in InMap(mirrors)
    BY <1>2, <1>4, SMTT(60) DEF InMap, SlotInv, TypeOK
  <2>4. \A n \in InMap(mirrors') : avail[n] = max[n] - Cardinality(Holders(n))
    <3>1. \A n \in InMap(mirrors) : avail[n] = max[n] - Cardinality(Holders(n))
      BY Zenon DEF SlotInv, SlotAccounting, Holders
    <3>2. avail[m] = max[m] - Cardinality(Holders(m))
      BY <1>2, <2>1, <2>2, FS_EmptySet, SMTT(60) DEF SlotInv, TypeOK
    <3> QED
      BY <2>3, <3>1, <3>2, ZenonT(60)
  <2>5. \A b \in Addr : mirrors'[b] # NoMc => addr[mirrors'[b]] = b
    BY <1>2, <1>4, <2>1, Zenon DEF SlotInv, TypeOK, MapInv
  <2>6. MapStep(t)
    BY <1>1, <1>2, <1>4, <2>1, <2>3, <2>4, <2>5, Zenon DEF MapStep, SlotInv, TypeOK
  <2>7. wanted[t] \in 1 .. wantedMaxJobs /\ workers \in SUBSET Addr
    BY <1>2, ConnectionsAssumption DEF SlotInv, TypeOK, TaskInv
  <2> QED
    BY <1>2, <1>4, <2>6, <2>7, ConnectInv, Zenon
<1> QED
  BY <1>3, <1>4, Zenon DEF Granted

(* Idle connections are given up, workers come and go. *)
LEMMA QuietInv ==
  ASSUME SlotInv,
         maybeDropConnections \/ refreshWorkers \/ (\E m \in Mc : DropMirror(m))
  PROVE  SlotInv'
<1>1. /\ UNCHANGED <<addr, max, avail, pc, at, dial, wanted, tries, owes, crashed>>
      /\ mirrors' \in {mirrors, [a \in Addr |-> NoMc]}
  BY Zenon DEF maybeDropConnections, refreshWorkers, DropMirror, taskVars
<1>2. /\ workers' \subseteq Addr /\ open' \subseteq Mc /\ up' \subseteq Mc
      /\ refreshes' \in 0 .. MaxRefresh /\ clients' \in [Addr -> Mc \cup {NoMc}]
  BY ConnectionsAssumption
     DEF maybeDropConnections, refreshWorkers, DropMirror, taskVars, SlotInv, TypeOK
<1>3. InMap(mirrors') \subseteq InMap(mirrors)
  BY <1>1, Zenon DEF InMap
<1>4. TypeOK'
  BY <1>1, <1>2, Zenon DEF SlotInv, TypeOK
<1>5. TaskInv' /\ SlotBound'
  BY <1>1, Zenon DEF SlotInv, TaskInv, SlotBound, Holders
<1>6. MapInv'
  BY <1>1, ZenonT(60) DEF SlotInv, MapInv
<1>7. NewInv'
  BY <1>1, <1>3, ZenonT(60) DEF SlotInv, NewInv
<1>8. SlotAccounting'
  BY <1>1, <1>3, Zenon DEF SlotInv, SlotAccounting
<1> QED
  BY <1>4, <1>5, <1>6, <1>7, <1>8, Zenon DEF SlotInv

(* Every step keeps the invariant. *)
LEMMA SlotStep == SlotInv /\ [Next]_vars => SlotInv'
<1> SUFFICES ASSUME SlotInv, [Next]_vars
             PROVE  SlotInv'
  BY ZenonT(60)
<1>1. CASE UNCHANGED vars
  BY <1>1 DEF vars, connVars, taskVars, SlotInv, TypeOK, TaskInv, MapInv, NewInv, InMap,
              SlotBound, Holders, SlotAccounting
<1>2. ASSUME NEW t \in Task, run(t)
      PROVE  SlotInv'
  BY <1>2, PickInv, FindInv, GetMirrorInv, GrantedInv, PcInv, DoneInv, DropInv, Zenon
     DEF run, createMirror
<1> QED
  BY <1>1, <1>2, QuietInv, Zenon DEF Next

(* The accounting of slots, whatever tasks fail and connections break. *)
THEOREM SlotInvariant == Spec => []SlotInv
<1>1. Init => SlotInv
  <2> SUFFICES ASSUME Init
               PROVE  SlotInv
    BY Zenon
  <2>1. TypeOK
    BY ConnectionsAssumption DEF Init, TypeOK, Place
  <2>2. TaskInv /\ MapInv /\ NewInv
    BY ConnectionsAssumption, Zenon DEF Init, TaskInv, MapInv, NewInv
  <2>3. InMap(mirrors) = {}
    BY Zenon DEF Init, InMap
  <2>4. \A m : Holders(m) = {}
    BY Zenon DEF Init, Holders
  <2>5. SlotBound
    BY <2>4, FS_EmptySet DEF SlotBound, Init
  <2> QED
    BY <2>1, <2>2, <2>3, <2>5, Zenon DEF SlotInv, SlotAccounting
<1> QED
  BY <1>1, SlotStep, PTL DEF Spec

(* Typing: among others, no connection ever has more free slots than the   *)
(* worker granted, though jobDone and drop may both come for a task.       *)
THEOREM ConnectionTypes == Spec => []TypeOK
<1>1. SlotInv => TypeOK
  BY Zenon DEF SlotInv
<1> QED
  BY <1>1, SlotInvariant, PTL

(* The free slots of a connection in use are those granted less those that *)
(* tasks hold.                                                             *)
THEOREM SlotsAccounted == Spec => []SlotAccounting
<1>1. SlotInv => SlotAccounting
  BY Zenon DEF SlotInv
<1> QED
  BY <1>1, SlotInvariant, PTL

(* When the sums say that no slot is taken, none is. *)
LEMMA IdleMeansUnheld ==
  ASSUME SlotInv, Idle, NEW m \in InMap(mirrors)
  PROVE  Holders(m) = {}
<1> DEFINE F == Slots(InMap(mirrors), avail)
           S == Slots(InMap(mirrors), max)
<1>1. m \in Mc /\ addr[m] \in Addr
  BY InMapFacts, Zenon
<1>2. max[m] \in Nat \ {0} /\ avail[m] \in Int
  BY <1>1, ConnectionsAssumption DEF SlotInv, TypeOK, MapInv
<1>3. IsFiniteSet(S) /\ Cardinality(S) \in Nat
  <2>1. InMap(mirrors) \in SUBSET Mc
    BY DEF InMap, SlotInv, TypeOK
  <2>2. max \in [Mc -> Int] /\ \A n \in Mc : max[n] <= Jobs
    BY ConnectionsAssumption DEF SlotInv, TypeOK
  <2> QED
    BY <2>1, <2>2, SlotsFinite, Zenon
<1>4. F \subseteq S
  <2>1. \A n \in InMap(mirrors) : avail[n] \in Int /\ max[n] \in Int /\ avail[n] <= max[n]
    BY InMapFacts DEF SlotInv, TypeOK
  <2>2. ASSUME NEW x \in F
        PROVE  x \in S
    <3>1. PICK n \in InMap(mirrors) : x \in {n} \X (1 .. avail[n])
      BY <2>2, Zenon DEF Slots
    <3>2. x \in {n} \X (1 .. max[n])
      BY <2>1, <3>1
    <3> QED
      BY <3>1, <3>2, ZenonT(60) DEF Slots
  <2> QED
    BY <2>2, Zenon
<1>5. F = S
  <2>1. Cardinality(F) >= Cardinality(S)
    BY Zenon DEF Idle, availableJobs, maxJobs
  <2>2. Cardinality(F) \in Nat /\ Cardinality(F) <= Cardinality(S)
    BY <1>3, <1>4, FS_Subset, FS_CardinalityType, Zenon
  <2>3. Cardinality(S) = Cardinality(F)
    BY <1>3, <2>1, <2>2
  <2> QED
    BY <1>3, <1>4, <2>3, FS_Subset, Zenon
<1>6. <<m, max[m]>> \in S
  BY <1>2 DEF Slots
<1>7. avail[m] >= max[m]
  <2>1. PICK n \in InMap(mirrors) : <<m, max[m]>> \in {n} \X (1 .. avail[n])
    BY <1>5, <1>6 DEF Slots
  <2> QED
    BY <1>2, <2>1
<1>8. IsFiniteSet(Holders(m)) /\ Cardinality(Holders(m)) \in Nat
  BY HoldersFinite, Zenon DEF SlotInv, TypeOK
<1>9. Cardinality(Holders(m)) = 0
  BY <1>1, <1>2, <1>7, <1>8 DEF SlotInv, SlotBound
<1> QED
  BY <1>8, <1>9, FS_EmptySet, Zenon

(* maybeDropConnections never closes a connection that a task has picked   *)
(* and is not done with, though it compares sums over all connections and  *)
(* pick hands out more slots than there are.                               *)
THEOREM IdleDropsSafe == Spec => IdleDropSafe
<1> DEFINE Safe == pc' = pc => \A m \in open \ open' : \A t \in owes : at[t] # m
<1>1. SlotInv /\ [Next]_vars => [Safe]_vars
  <2> SUFFICES ASSUME SlotInv, Next, pc' = pc, NEW m \in open \ open', NEW t \in owes, at[t] = m
               PROVE  FALSE
    BY Zenon
  <2>1. CASE maybeDropConnections
    <3>1. Idle /\ m \in InMap(mirrors)
      BY <2>1, Zenon DEF maybeDropConnections
    <3> QED
      BY <3>1, IdleMeansUnheld, Zenon DEF Holders
  <2>2. ASSUME NEW u \in Task, run(u)
        PROVE  FALSE
    <3>1. drop(u)
      BY <2>2, Zenon DEF run, pick, find, createMirror, DialFails, getMirror, Refused, Granted, Send,
                  RunOk, RunFails, RmClient, connVars
    <3>2. pc[u] = "removed" /\ pc'[u] \in {"pick", "failed"}
      BY <3>1, Zenon DEF drop, Retry, SlotInv, TypeOK
    <3> QED
      BY <3>2, Zenon
  <2> QED
    BY <2>1, <2>2, Zenon DEF Next, refreshWorkers, DropMirror
<1> QED
  BY <1>1, SlotInvariant, PTL DEF Spec, IdleDropSafe
=============================================================================
