--------------------------- MODULE AttrSyncProofs ---------------------------
(* Proofs of the safety properties of AttrSync, for any sets of addresses, *)
(* connections and tasks and any bounds.                                   *)
EXTENDS AttrSync, TLAPS

(* Runs of attributes, typing, and connections that come, go and break. *)

(* n consecutive attributes after the a-th one are a sequence of length n. *)
LEMMA IotaSeq ==
  ASSUME NEW a \in Nat, NEW n \in Nat
  PROVE  Iota(a, n) \in Seq(Nat) /\ Len(Iota(a, n)) = n
BY DEF Iota

(* They are a run. *)
LEMMA RunIota ==
  ASSUME NEW a \in Nat, NEW n \in Nat
  PROVE  Run(Iota(a, n), a)
BY DEF Iota, Run

(* Lengths add up to a length. *)
LEMMA LenSum ==
  ASSUME NEW p \in Seq(Nat), NEW q \in Seq(Nat)
  PROVE  /\ Len(p) \in Nat /\ Len(q) \in Nat /\ Len(p) + Len(q) \in Nat
         /\ Len(p) + Len(q) + Len(<<>>) = Len(p) + Len(q)
         /\ Len(p \o q) = Len(p) + Len(q) /\ Len(p) <= Len(p) + Len(q)
OBVIOUS

(* <= on naturals is transitive. *)
LEMMA LeTrans ==
  ASSUME NEW x \in Nat, NEW y \in Nat, NEW z \in Nat, x <= y, y <= z
  PROVE  x <= z
OBVIOUS

(* What is at most y is below what y is below. *)
LEMMA LeLt ==
  ASSUME NEW x \in Nat, NEW y \in Nat, NEW z \in Nat, x <= y, y < z
  PROVE  ~(z <= x) /\ x <= z
OBVIOUS

(* Adding keeps what is at most y at most that. *)
LEMMA LeAdd ==
  ASSUME NEW x \in Nat, NEW y \in Nat, NEW z \in Nat, NEW n \in Nat, x <= y, y <= z
  PROVE  x <= z + n
OBVIOUS

(* Two adjacent runs of attributes make one run. *)
LEMMA RunConcat ==
  ASSUME NEW p \in Seq(Nat), NEW q \in Seq(Nat), NEW a \in Nat,
         Run(p, a), Run(q, a + Len(p))
  PROVE  p \o q \in Seq(Nat) /\ Len(p \o q) = Len(p) + Len(q) /\ Run(p \o q, a)
<1>1. p \o q \in Seq(Nat) /\ Len(p \o q) = Len(p) + Len(q)
  OBVIOUS
<1>2. ASSUME NEW i \in 1..(Len(p) + Len(q))
      PROVE  (p \o q)[i] = a + i
  <2>1. CASE i <= Len(p)
    BY <2>1 DEF Run
  <2>2. CASE i > Len(p)
    <3>1. i - Len(p) \in 1..Len(q)
      BY <2>2
    <3>2. (p \o q)[i] = q[i - Len(p)]
      BY <2>2
    <3> QED
      BY <3>1, <3>2 DEF Run
  <2> QED
    BY <2>1, <2>2
<1> QED
  BY <1>1, <1>2, Zenon DEF Run

-----------------------------------------------------------------------------
(* A panic, like a stutter, changes nothing that the invariants speak of. *)
LEMMA StepOrSame == [Next]_vars => Step \/ UNCHANGED masterVars
  BY Zenon DEF Next, AddClientTwice, vars

(* Every variable of the clients protocol keeps its type. *)
LEMMA TypeStep == TypeOK /\ [Next]_vars => TypeOK'
<1> SUFFICES ASSUME TypeOK, [Next]_vars
             PROVE  TypeOK'
  BY Zenon
<1>1. ASSUME NEW id \in Id, NEW c \in Conn, NEW n \in 0..1, AddClient(id, c, n)
      PROVE  TypeOK'
  <2>1. n \in Nat /\ Iota(0, n) \in Seq(Nat)
    BY IotaSeq
  <2> QED
    BY SyncAssumption, <1>1, <2>1, SMTT(60) DEF TypeOK, AddClient, taskVars
<1>2. ASSUME NEW id \in Id, RmClient(id)
      PROVE  TypeOK'
  BY <1>2, SMTT(60) DEF TypeOK, RmClient, Broadcast, historyVars
<1>3. ASSUME NEW n \in 0..1, Enqueue(n)
      PROVE  pending' \in [Conn -> Seq(Nat)] /\ queued' \in [Conn -> Nat]
  <2>1. ASSUME NEW c \in Conn
        PROVE  queued[c] + n \in Nat /\ pending[c] \o Iota(queued[c], n) \in Seq(Nat)
    <3>1. n \in Nat /\ queued[c] \in Nat /\ pending[c] \in Seq(Nat)
      BY DEF TypeOK
    <3>2. Iota(queued[c], n) \in Seq(Nat)
      BY <3>1, IotaSeq, Zenon
    <3> QED
      BY <3>1, <3>2
  <2> QED
    BY <1>3, <2>1, Zenon DEF TypeOK, Enqueue
<1>4. ASSUME NEW n \in 0..1, Queue(n)
      PROVE  TypeOK'
  BY <1>3, <1>4, SMTT(60) DEF TypeOK, Queue, taskVars
<1>5. CASE GetFill
  BY <1>3, <1>5 DEF TypeOK, GetFill, taskVars
<1>6. ASSUME NEW t \in Task, NEW id \in Id, SendGone(t, id)
      PROVE  TypeOK'
  BY <1>6, Zenon DEF TypeOK, SendGone, cacheVars, historyVars
<1>7. ASSUME NEW t \in Task, NEW c \in Conn, NEW n \in Nat, Proceed(t, c, n)
      PROVE  /\ pending' \in [Conn -> Seq(Nat)] /\ busy' \in [Conn -> BOOLEAN]
             /\ sending' \in [Task -> Seq(Nat)]
             /\ \/ pc' = [pc EXCEPT ![t] = "ok"]
                \/ pc' = [pc EXCEPT ![t] = "sending"]
  <2>1. pending[c] \in Seq(Nat)
    BY Zenon DEF TypeOK
  <2>2. CASE pending[c] = <<>> \/ n <= sentId[c]
    BY <1>7, <2>2, Zenon DEF TypeOK, Proceed
  <2>3. CASE ~(pending[c] = <<>> \/ n <= sentId[c])
    <3>1. /\ pc' = [pc EXCEPT ![t] = "sending"]
          /\ sending' = [sending EXCEPT ![t] = pending[c]]
          /\ pending' = [pending EXCEPT ![c] = <<>>]
          /\ busy' = [busy EXCEPT ![c] = TRUE]
      BY <1>7, <2>3, Zenon DEF Proceed
    <3> QED
      BY <2>1, <3>1 DEF TypeOK
  <2> QED
    BY <2>2, <2>3, Zenon
<1>8. ASSUME NEW t \in Task, NEW id \in Id, SendBegin(t, id)
      PROVE  TypeOK'
  <2>1. clients[id] \in Conn /\ pendingId[clients[id]] \in Nat
    BY <1>8, Zenon DEF TypeOK, SendBegin
  <2>2. CASE MustWait(clients[id], pendingId[clients[id]])
    BY <1>8, <2>1, <2>2, Zenon DEF TypeOK, SendBegin
  <2>3. CASE Proceed(t, clients[id], pendingId[clients[id]])
    BY <1>7, <1>8, <2>1, <2>3, ZenonT(120) DEF TypeOK, SendBegin
  <2> QED
    BY <1>8, <2>2, <2>3, Zenon DEF SendBegin
<1>9. ASSUME NEW t \in Task, SendWake(t)
      PROVE  TypeOK'
  <2>1. conn[t] \in Conn /\ needSync[t] \in Nat
    BY <1>9, Zenon DEF TypeOK, SendWake
  <2>2. CASE MustWait(conn[t], needSync[t])
    BY <1>9, <2>1, <2>2, Zenon DEF TypeOK, SendWake, historyVars
  <2>3. CASE Proceed(t, conn[t], needSync[t])
    BY <1>7, <1>9, <2>1, <2>3, ZenonT(120) DEF TypeOK, SendWake, historyVars
  <2> QED
    BY <1>9, <2>2, <2>3, Zenon DEF SendWake
<1>10. ASSUME NEW t \in Task, SendReturn(t)
       PROVE  TypeOK'
  <2>1. /\ conn[t] \in Conn /\ needSync[t] \in Nat
        /\ got[conn[t]] \in Seq(Nat) /\ sending[t] \in Seq(Nat)
    BY <1>10, Zenon DEF TypeOK, SendReturn, SendEnds
  <2>2. got[conn[t]] \o sending[t] \in Seq(Nat)
    BY <2>1
  <2>3. got' \in [Conn -> Seq(Nat)]
    BY <1>10, <2>1, <2>2, Zenon DEF TypeOK, SendReturn, SendEnds
  <2>4. /\ pc' \in [Task -> {"idle", "wait", "woken", "sending", "ok", "err"}]
        /\ \A u \in Task : pc'[u] \notin {"idle", "err"} => pc[u] \notin {"idle", "err"}
    BY <1>10, Zenon DEF TypeOK, SendReturn, SendEnds, Broadcast
  <2> QED
    BY <1>10, <2>1, <2>3, <2>4, SMTT(60) DEF TypeOK, SendReturn, SendEnds
<1>11. ASSUME NEW c \in Conn, Break(c)
       PROVE  TypeOK'
  BY <1>11, Zenon DEF TypeOK, Break, cacheVars, taskVars, historyVars
<1>12. CASE UNCHANGED masterVars
  BY <1>12, Zenon DEF TypeOK, masterVars, cacheVars, taskVars, historyVars
<1> QED
  BY StepOrSame, <1>1, <1>2, <1>4, <1>5, <1>6, <1>8, <1>9, <1>10, <1>11, <1>12, Zenon DEF Step

-----------------------------------------------------------------------------
(* The inductive invariant, action by action. *)
LEMMA InitInv == Init => SyncInv
<1> SUFFICES ASSUME Init
             PROVE  SyncInv
  BY Zenon
<1>1. \A c \in Conn : ~Registered(c)
  BY SyncAssumption, Zenon DEF Init, Registered
<1>2. RegistrationInv
  BY <1>1, Zenon DEF RegistrationInv, Init
<1>3. SenderInv
  BY DEF SenderInv, Sender, Init
<1>4. StreamInv
  BY <1>1 DEF StreamInv, StreamOf, Sender, Run, Init
<1>5. CoverInv
  BY <1>1, Zenon DEF CoverInv, Init
<1> QED
  BY <1>2, <1>3, <1>4, <1>5, Zenon DEF SyncInv

(* What a step leaves alone at connection c it leaves true there. *)
LEMMA StreamFrame ==
  ASSUME NEW c \in Conn, StreamOf(c),
         got'[c] = got[c], pending'[c] = pending[c],
         mark'[c] = mark[c], queued'[c] = queued[c],
         Registered(c)' => Registered(c),
         \A t \in Task : Sender(t, c)' <=> Sender(t, c),
         \A t \in Task : Sender(t, c) => sending'[t] = sending[t]
  PROVE  StreamOf(c)'
<1>1. Run(got[c], 0)'
  BY Zenon DEF StreamOf, Run
<1>2. ASSUME NEW t \in Task, Sender(t, c)'
      PROVE  Run(sending[t], Len(got[c]))'
  BY <1>2 DEF StreamOf, Run
<1>3. ASSUME NEW t \in Task, Sender(t, c)', Registered(c)'
      PROVE  /\ Run(pending[c], Len(got[c]) + Len(sending[t]))'
             /\ (Len(got[c]) + Len(sending[t]) + Len(pending[c]) = queued[c])'
  BY <1>3, ZenonT(40) DEF StreamOf, Run
<1>4. ASSUME \A t \in Task : ~Sender(t, c)', Registered(c)'
      PROVE  /\ Run(pending[c], Len(got[c]))'
             /\ (Len(got[c]) + Len(pending[c]) = queued[c])'
  BY <1>4, Zenon DEF StreamOf, Run
<1> QED
  BY <1>1, <1>2, <1>3, <1>4, Zenon DEF StreamOf

(* A step that leaves sentId, the queue and the marks of c alone keeps     *)
(* what sentId covers.                                                     *)
LEMMA CoverFrame ==
  ASSUME NEW c \in Conn, CoverOf(c),
         got'[c] = got[c], mark'[c] = mark[c],
         pendingId'[c] = pendingId[c], sentId'[c] = sentId[c],
         \A t \in Task : Sender(t, c)' <=> Sender(t, c),
         \A t \in Task : Sender(t, c) => sending'[t] = sending[t],
         \A t \in Task : On(t, c)' =>
           /\ On(t, c)
           /\ need'[t] = need[t]
           /\ needSync'[t] = needSync[t]
           /\ pc'[t] = "ok" => pc[t] = "ok",
         \A t \in Task : Sender(t, c) => On(t, c)'
  PROVE  CoverOf(c)'
BY Zenon DEF CoverOf

(* A connection that breaks disturbs nothing but later RPCs. *)
LEMMA BreakInv ==
  ASSUME TypeOK, SyncInv, NEW b \in Conn, Break(b)
  PROVE  SyncInv'
<1> USE DEF SyncInv, Break, cacheVars, taskVars, historyVars
<1>1. \A c : Registered(c)' <=> Registered(c)
  BY Zenon DEF Registered
<1>2. RegistrationInv'
  BY <1>1, Zenon DEF RegistrationInv
<1>3. SenderInv'
  BY <1>1, Zenon DEF SenderInv, Sender
<1>4. \A t \in Task, c \in Conn : (Sender(t, c)' <=> Sender(t, c)) /\ (On(t, c)' <=> On(t, c))
  BY Zenon DEF Sender, On
<1>5. StreamInv'
  BY <1>1, <1>4, StreamFrame, Zenon DEF StreamInv
<1>6. CoverInv'
  BY <1>1, <1>4, CoverFrame, Zenon DEF CoverInv, Sender, On
<1> QED
  BY <1>2, <1>3, <1>5, <1>6, Zenon

(* Send for an address without a client returns an error and touches no    *)
(* queue.                                                                  *)
LEMMA SendGoneInv ==
  ASSUME TypeOK, SyncInv, NEW t \in Task, NEW id \in Id, SendGone(t, id)
  PROVE  SyncInv'
<1> USE DEF SyncInv, SendGone, cacheVars, historyVars
<1>1. \A c : Registered(c)' <=> Registered(c)
  BY Zenon DEF Registered
<1>2. RegistrationInv'
  BY <1>1, Zenon DEF RegistrationInv, TypeOK
<1>3. \A u \in Task, c \in Conn :
        /\ Sender(u, c)' <=> Sender(u, c)
        /\ On(u, c)' => On(u, c) /\ (pc'[u] = "ok" => pc[u] = "ok")
        /\ Sender(u, c) => On(u, c)'
  BY Zenon DEF TypeOK, Sender, On
<1>4. SenderInv'
  BY <1>1 DEF SenderInv, Sender, TypeOK
<1>5. StreamInv'
  BY <1>1, <1>3, StreamFrame, Zenon DEF StreamInv
<1>6. CoverInv'
  BY <1>1, <1>3, CoverFrame, Zenon DEF CoverInv
<1> QED
  BY <1>2, <1>4, <1>5, <1>6, Zenon

(* AddClient starts a stream with the copy of the cache. *)
LEMMA AddClientInv ==
  ASSUME TypeOK, SyncInv, NEW id \in Id, NEW a \in Conn, NEW n \in 0..1,
         AddClient(id, a, n)
  PROVE  SyncInv'
<1>1. n \in Nat /\ Iota(0, n) \in Seq(Nat) /\ Len(Iota(0, n)) = n
  BY IotaSeq
<1>2. \A c \in Conn : Registered(c)' <=> Registered(c) \/ c = a
  <2>1. clients' = [clients EXCEPT ![id] = a] /\ clients[id] = NoConn
    BY Zenon DEF AddClient
  <2> QED
    BY <2>1, SyncAssumption, Zenon DEF Registered, TypeOK
<1>3. \A u \in Task, c \in Conn : (Sender(u, c)' <=> Sender(u, c)) /\ (On(u, c)' <=> On(u, c))
  BY Zenon DEF Sender, On, AddClient, taskVars
<1>4. \A u \in Task : ~On(u, a) /\ ~Sender(u, a)
  BY Zenon DEF SyncInv, RegistrationInv, AddClient, On, Sender
<1>5. RegistrationInv'
  <2>1. \A i, j \in Id : clients'[i] = clients'[j] /\ clients'[i] # NoConn => i = j
    BY Zenon DEF SyncInv, RegistrationInv, Registered, AddClient, TypeOK
  <2>2. \A c \in Conn : Registered(c)' => c \in used'
    BY <1>2, Zenon DEF SyncInv, RegistrationInv, AddClient
  <2>3. \A c \in Conn : ~Registered(c)' => pending'[c] = <<>>
    BY <1>2, Zenon DEF SyncInv, RegistrationInv, AddClient, TypeOK
  <2> QED
    BY <2>1, <2>2, <2>3, Zenon DEF SyncInv, RegistrationInv, AddClient, taskVars
<1>6. SenderInv'
  BY <1>2, SMTT(60) DEF SyncInv, SenderInv, RegistrationInv, AddClient, taskVars, TypeOK, Sender
<1>7. StreamInv'
  <2>1. ASSUME NEW c \in Conn, c # a, c \notin broken
        PROVE  StreamOf(c)'
    BY <1>2, <1>3, <2>1, StreamFrame, ZenonT(60)
       DEF SyncInv, StreamInv, AddClient, taskVars, TypeOK
  <2>2. StreamOf(a)'
    <3>1. pending'[a] = Iota(0, n) /\ got'[a] = <<>> /\ queued'[a] = n /\ mark'[a] = n
      BY Zenon DEF SyncInv, RegistrationInv, AddClient, TypeOK
    <3>2. Run(Iota(0, n), 0)
      BY <1>1, RunIota, Zenon
    <3>3. Run(pending'[a], 0) /\ Run(got'[a], 0) /\ Len(pending'[a]) = n
      BY <1>1, <3>1, <3>2 DEF Run
    <3> QED
      BY <1>1, <1>3, <1>4, <3>1, <3>3, SMTT(60) DEF StreamOf, Run
  <2> QED
    BY <2>1, <2>2, Zenon DEF StreamInv, AddClient
<1>8. CoverInv'
  <2>1. ASSUME NEW c \in Conn, c # a, c \notin broken, Registered(c)
        PROVE  CoverOf(c)'
    BY <1>2, <1>3, <2>1, CoverFrame, ZenonT(60)
       DEF SyncInv, CoverInv, AddClient, taskVars, TypeOK, Sender, On
  <2>2. CoverOf(a)'
    <3>1. pendingId'[a] = nextFileSetId /\ sentId'[a] = 0
      BY Zenon DEF SyncInv, RegistrationInv, AddClient, TypeOK
    <3>2. ~(nextFileSetId <= 0)
      BY SMTT(60) DEF TypeOK
    <3> QED
      BY <1>3, <1>4, <3>1, <3>2, ZenonT(60) DEF CoverOf
  <2> QED
    BY <1>2, <2>1, <2>2, Zenon DEF CoverInv, AddClient
<1> QED
  BY <1>5, <1>6, <1>7, <1>8, Zenon DEF SyncInv

(* RmClient discards the queue of a connection that is then unregistered. *)
LEMMA RmClientInv ==
  ASSUME TypeOK, SyncInv, NEW id \in Id, RmClient(id)
  PROVE  SyncInv'
<1>1. PICK a \in Conn : a = clients[id] /\ Registered(a)
  BY Zenon DEF RmClient, TypeOK, Registered
<1>2. \A c \in Conn : Registered(c)' <=> Registered(c) /\ c # a
  BY <1>1, SyncAssumption, ZenonT(60) DEF RmClient, Registered, SyncInv, RegistrationInv, TypeOK
<1>3. \A u \in Task :
        /\ \A c \in Conn : (Sender(u, c)' <=> Sender(u, c)) /\ (On(u, c)' <=> On(u, c))
        /\ pc'[u] = "ok" => pc[u] = "ok"
        /\ pc'[u] = "sending" <=> pc[u] = "sending"
  BY Zenon DEF Sender, On, RmClient, Broadcast, TypeOK
<1>4. RegistrationInv'
  <2>1. \A i, j \in Id : clients'[i] = clients'[j] /\ clients'[i] # NoConn => i = j
    BY Zenon DEF SyncInv, RegistrationInv, RmClient, TypeOK
  <2>2. \A c \in Conn : Registered(c)' => c \in used'
    BY <1>2, Zenon DEF SyncInv, RegistrationInv, RmClient, historyVars
  <2>3. \A c \in Conn : ~Registered(c)' => pending'[c] = <<>>
    BY <1>1, <1>2, Zenon DEF SyncInv, RegistrationInv, RmClient, TypeOK
  <2>4. \A t \in Task : pc'[t] \in {"wait", "woken", "sending", "ok"} => conn'[t] \in used'
    BY Zenon DEF SyncInv, RegistrationInv, RmClient, TypeOK, Broadcast, historyVars
  <2>5. \A c \in Conn : c \notin used' => got'[c] = <<>> /\ sentId'[c] = 0 /\ ~busy'[c]
    BY <1>1, Zenon DEF SyncInv, RegistrationInv, RmClient, TypeOK, historyVars
  <2> QED
    BY <2>1, <2>2, <2>3, <2>4, <2>5, Zenon DEF RegistrationInv
<1>5. SenderInv'
  <2>1. \A t, u \in Task : pc'[t] = "sending" /\ Sender(u, conn[t])' => t = u
    BY <1>3, Zenon DEF SyncInv, SenderInv, RmClient, Sender, TypeOK
  <2>2. \A t \in Task : pc'[t] = "sending" /\ Registered(conn[t])' => busy'[conn'[t]]
    BY <1>1, <1>2, <1>3, Zenon DEF SyncInv, SenderInv, RmClient, TypeOK
  <2>3. \A t \in Task : pc'[t] \in {"wait", "woken", "sending", "ok"}
                       => needSync'[t] <= pendingId'[conn'[t]]
    BY Zenon DEF SyncInv, SenderInv, RmClient, TypeOK, Broadcast
  <2> QED
    BY <1>3, <2>1, <2>2, <2>3, Zenon DEF SyncInv, SenderInv, RmClient, TypeOK
<1>6. StreamInv'
  <2>1. ASSUME NEW c \in Conn, c # a, c \notin broken
        PROVE  StreamOf(c)'
    BY <1>1, <1>2, <1>3, <2>1, StreamFrame, Zenon
       DEF SyncInv, StreamInv, RmClient, historyVars, TypeOK
  <2>2. ASSUME a \notin broken
        PROVE  StreamOf(a)'
    <3>1. StreamOf(a) /\ ~Registered(a)' /\ got' = got /\ sending' = sending
      BY <1>1, <1>2, <2>2, Zenon DEF SyncInv, StreamInv, RmClient, historyVars
    <3> QED
      BY <1>1, <1>3, <3>1, Zenon DEF StreamOf, Run
  <2>3. broken' = broken
    BY Zenon DEF RmClient
  <2> QED
    BY <2>1, <2>2, <2>3, Zenon DEF StreamInv
<1>7. CoverInv'
  <2>1. ASSUME NEW c \in Conn, c # a, c \notin broken, Registered(c)
        PROVE  CoverOf(c)'
    BY <1>1, <1>3, <2>1, CoverFrame, Zenon
       DEF SyncInv, CoverInv, RmClient, historyVars, TypeOK, Sender, On
  <2> QED
    BY <1>2, <2>1, Zenon DEF CoverInv, RmClient
<1> QED
  BY <1>4, <1>5, <1>6, <1>7, Zenon DEF SyncInv

-----------------------------------------------------------------------------
(* Attributes are appended to the queues. *)

(* Appending to the queues keeps the stream of every connection in order. *)
LEMMA EnqueueStream ==
  ASSUME TypeOK, SyncInv, NEW n \in 0..1, Enqueue(n),
         UNCHANGED <<clients, broken, got, sending, pc, conn>>,
         \A c \in Conn : IF Registered(c) THEN mark'[c] \in {mark[c], queued'[c]}
                                          ELSE mark'[c] = mark[c]
  PROVE  StreamInv'
<1> SUFFICES ASSUME NEW c \in Conn, c \notin broken
             PROVE  StreamOf(c)'
  BY Zenon DEF StreamInv
<1>1. Registered(c)' <=> Registered(c)
  BY Zenon DEF Registered
<1>2. \A t \in Task : Sender(t, c)' <=> Sender(t, c)
  BY Zenon DEF Sender
<1>3. StreamOf(c)
  BY Zenon DEF SyncInv, StreamInv
<1>4. CASE ~Registered(c)
  <2>1. pending'[c] = pending[c] /\ queued'[c] = queued[c]
    BY <1>4, Zenon DEF Enqueue
  <2> QED
    BY <1>1, <1>2, <1>3, <1>4, <2>1, StreamFrame, Zenon
<1>5. CASE Registered(c)
  <2>1. /\ n \in Nat /\ queued[c] \in Nat /\ pending[c] \in Seq(Nat) /\ mark[c] \in Nat
        /\ Len(got[c]) \in Nat /\ \A t \in Task : sending[t] \in Seq(Nat)
    BY DEF TypeOK
  <2>2. pending'[c] = pending[c] \o Iota(queued[c], n) /\ queued'[c] = queued[c] + n
    BY <1>5, ZenonT(40) DEF Enqueue
  <2>3. ASSUME NEW m \in Nat, Run(pending[c], m), m + Len(pending[c]) = queued[c]
        PROVE  Run(pending'[c], m) /\ m + Len(pending'[c]) = queued'[c]
    <3>1. Iota(queued[c], n) \in Seq(Nat) /\ Len(Iota(queued[c], n)) = n
      BY <2>1, IotaSeq, ZenonT(40)
    <3>2. Run(Iota(queued[c], n), m + Len(pending[c]))
      BY <2>1, <2>3, RunIota, Zenon
    <3>3. /\ Len(pending[c] \o Iota(queued[c], n)) = Len(pending[c]) + n
          /\ Run(pending[c] \o Iota(queued[c], n), m)
      BY <2>1, <2>3, <3>1, <3>2, RunConcat, ZenonT(40)
    <3> QED
      BY <2>1, <2>2, <2>3, <3>3, SMTT(60)
  <2>4. mark'[c] <= queued'[c]
    BY <1>3, <1>5, <2>1, <2>2 DEF StreamOf
  <2>5. ASSUME NEW t \in Task, Sender(t, c)'
        PROVE  /\ Run(pending[c], Len(got[c]) + Len(sending[t]))'
               /\ (Len(got[c]) + Len(sending[t]) + Len(pending[c]) = queued[c])'
    <3>1. /\ Run(pending[c], Len(got[c]) + Len(sending[t]))
          /\ Len(got[c]) + Len(sending[t]) + Len(pending[c]) = queued[c]
      BY <1>2, <1>3, <1>5, <2>5, ZenonT(40) DEF StreamOf
    <3>2. Len(got[c]) + Len(sending[t]) \in Nat
      <4>1. sending[t] \in Seq(Nat) /\ got[c] \in Seq(Nat)
        BY Zenon DEF TypeOK
      <4> QED
        BY <4>1, LenSum, ZenonT(40)
    <3>3. /\ Run(pending'[c], Len(got[c]) + Len(sending[t]))
          /\ Len(got[c]) + Len(sending[t]) + Len(pending'[c]) = queued'[c]
      BY <2>3, <3>1, <3>2, ZenonT(40)
    <3> QED
      BY <3>3, ZenonT(40) DEF Run
  <2>6. ASSUME \A t \in Task : ~Sender(t, c)'
        PROVE  /\ Run(pending[c], Len(got[c]))'
               /\ (Len(got[c]) + Len(pending[c]) = queued[c])'
    <3>1. Run(pending[c], Len(got[c])) /\ Len(got[c]) + Len(pending[c]) = queued[c]
      BY <1>2, <1>3, <1>5, <2>6, ZenonT(40) DEF StreamOf
    <3>2. Run(pending'[c], Len(got[c])) /\ Len(got[c]) + Len(pending'[c]) = queued'[c]
      BY <2>1, <2>3, <3>1, ZenonT(40)
    <3> QED
      BY <3>2, ZenonT(40) DEF Run
  <2> QED
    BY <1>2, <1>3, <2>4, <2>5, <2>6, ZenonT(40) DEF StreamOf, Run
<1> QED
  BY <1>4, <1>5, Zenon

(* Queue appends to every stream and moves pendingId. *)
LEMMA QueueInv ==
  ASSUME TypeOK, SyncInv, NEW n \in 0..1, Queue(n)
  PROVE  SyncInv'
<1>1. \A c : Registered(c)' <=> Registered(c)
  BY Zenon DEF Registered, Queue
<1>2. \A u \in Task, c \in Conn : (Sender(u, c)' <=> Sender(u, c)) /\ (On(u, c)' <=> On(u, c))
  BY Zenon DEF Sender, On, Queue, taskVars
<1>3. RegistrationInv'
  BY <1>1, Zenon DEF SyncInv, RegistrationInv, Queue, Enqueue, taskVars
<1>4. SenderInv'
  <2>1. \A c \in Conn : /\ sentId'[c] = sentId[c]
                        /\ pendingId'[c] = pendingId[c] \/ pendingId'[c] = nextFileSetId
    BY Zenon DEF Queue, TypeOK
  <2>2. \A c \in Conn : /\ sentId[c] <= pendingId'[c] /\ pendingId[c] <= pendingId'[c]
                        /\ pendingId'[c] < nextFileSetId'
    BY <2>1, SMTT(60) DEF SyncInv, SenderInv, Queue, TypeOK
  <2>3. UNCHANGED <<pc, conn, needSync, sentId, busy>>
    BY Zenon DEF Queue, taskVars
  <2>4. \A t \in Task : pc[t] \in {"wait", "woken", "sending", "ok"}
                       => needSync[t] <= pendingId'[conn[t]]
    <3>1. ASSUME NEW t \in Task, pc[t] \in {"wait", "woken", "sending", "ok"}
          PROVE  needSync[t] <= pendingId'[conn[t]]
      <4>1. conn[t] \in Conn /\ needSync[t] <= pendingId[conn[t]]
        BY <3>1, ZenonT(40) DEF SyncInv, SenderInv, TypeOK
      <4>2. pendingId'[conn[t]] \in Nat /\ pendingId[conn[t]] \in Nat /\ needSync[t] \in Nat
        BY <2>1, <4>1, ZenonT(40) DEF TypeOK
      <4> QED
        BY <2>2, <4>1, <4>2
    <3> QED
      BY <3>1, Zenon
  <2>5. \A c \in Conn : sentId'[c] <= pendingId'[c] /\ pendingId'[c] < nextFileSetId'
    BY <2>1, SMTT(60) DEF SyncInv, SenderInv, Queue, TypeOK
  <2>6. /\ \A t, u \in Task : pc'[t] = "sending" /\ Sender(u, conn[t])' => t = u
        /\ \A t \in Task : pc'[t] = "sending" /\ Registered(conn[t])' => busy'[conn'[t]]
        /\ \A t \in Task : pc'[t] = "sending" => needSync'[t] > sentId'[conn'[t]]
    BY <1>1, <2>3, Zenon DEF SyncInv, SenderInv, Sender, Registered, Queue
  <2> QED
    BY <2>3, <2>4, <2>5, <2>6, Zenon DEF SenderInv
<1>5. StreamInv'
  BY EnqueueStream, Zenon DEF Queue, taskVars
<1>6. CoverInv'
  <2> SUFFICES ASSUME NEW c \in Conn, c \notin broken, Registered(c)
               PROVE  CoverOf(c)'
    BY <1>1, Zenon DEF CoverInv, Queue
  <2>1. /\ pendingId'[c] = nextFileSetId /\ mark'[c] = queued[c] + n
        /\ sentId[c] <= pendingId[c] /\ pendingId[c] < nextFileSetId
        /\ mark[c] <= queued[c] /\ CoverOf(c)
    BY Zenon DEF Queue, Enqueue, SyncInv, SenderInv, StreamInv, StreamOf, CoverInv, TypeOK
  <2>2. \A t \in Task : On(t, c) \/ Sender(t, c) => needSync[t] <= pendingId[c]
    BY ZenonT(40) DEF SyncInv, SenderInv, On, Sender
  <2>3. UNCHANGED <<got, sending, sentId, needSync, need, pc>>
    BY ZenonT(40) DEF Queue, taskVars
  <2>4. n \in Nat /\ queued[c] \in Nat /\ mark[c] \in Nat /\ \A t \in Task : need[t] \in Nat
    BY DEF TypeOK
  <2>5. nextFileSetId \in Nat /\ sentId[c] \in Nat /\ pendingId[c] \in Nat
        /\ \A t \in Task : needSync[t] \in Nat
    BY Zenon DEF TypeOK
  <2>6. ~(pendingId'[c] <= sentId'[c])
    BY <2>1, <2>3, <2>5, LeLt, ZenonT(40)
  <2>7. ASSUME NEW s \in Task, Sender(s, c)'
        PROVE  ~(pendingId'[c] <= needSync'[s])
    <3>1. needSync[s] <= pendingId[c]
      BY <1>2, <2>2, <2>7, ZenonT(40)
    <3>2. ~(nextFileSetId <= needSync[s])
      BY <2>1, <2>5, <3>1, LeLt, ZenonT(40)
    <3> QED
      BY <2>1, <2>3, <3>2, ZenonT(40)
  <2>8. \A t \in Task : On(t, c)' => need'[t] <= mark'[c]
    <3>1. \A t \in Task : On(t, c) => need[t] <= mark[c]
      BY <2>1, ZenonT(40) DEF CoverOf
    <3>2. \A t \in Task : On(t, c) => need[t] <= queued[c] + n
      BY <2>1, <2>4, <3>1, LeAdd, ZenonT(40)
    <3> QED
      BY <1>2, <2>1, <2>3, <3>2, ZenonT(40)
  <2> QED
    BY <1>2, <2>1, <2>3, <2>6, <2>7, <2>8, ZenonT(40) DEF CoverOf
<1> QED
  BY <1>3, <1>4, <1>5, <1>6, Zenon DEF SyncInv

(* The fill in unsafeGet appends to every stream and moves no id. *)
LEMMA GetFillInv ==
  ASSUME TypeOK, SyncInv, GetFill
  PROVE  SyncInv'
<1>1. \A c : Registered(c)' <=> Registered(c)
  BY Zenon DEF Registered, GetFill
<1>2. \A u \in Task, c \in Conn : (Sender(u, c)' <=> Sender(u, c)) /\ (On(u, c)' <=> On(u, c))
  BY Zenon DEF Sender, On, GetFill, taskVars
<1>3. RegistrationInv'
  BY <1>1, ZenonT(40) DEF SyncInv, RegistrationInv, GetFill, Enqueue, taskVars
<1>4. SenderInv'
  BY <1>1, Zenon DEF SyncInv, SenderInv, GetFill, taskVars, TypeOK, Sender
<1>5. StreamInv'
  <2>1. 1 \in 0..1
    BY SMTT(60)
  <2> QED
    BY <2>1, EnqueueStream, Zenon DEF GetFill, taskVars
<1>6. CoverInv'
  BY <1>1, <1>2, CoverFrame, Zenon DEF CoverInv, SyncInv, GetFill, taskVars, Sender, On
<1> QED
  BY <1>3, <1>4, <1>5, <1>6, Zenon DEF SyncInv

-----------------------------------------------------------------------------
(* A Send that begins, or resumes after a wait. *)

(* What task t must have when Send for c compares file set n: all that n   *)
(* stands for (k attributes) is covered by sentId and by the RPC under way. *)
Covered(c, n, k) ==
  c \notin broken /\ Registered(c) =>
    /\ k <= mark[c]
    /\ n <= sentId[c] => k <= Len(got[c])
    /\ \A s \in Task : Sender(s, c) /\ n <= needSync[s]
         => k <= Len(got[c]) + Len(sending[s])

(* The locals of Send, once it is past (or in) its wait loop. *)
Locals(t, c, n, k) ==
  /\ conn' = [conn EXCEPT ![t] = c]
  /\ needSync' = [needSync EXCEPT ![t] = n]
  /\ need' = [need EXCEPT ![t] = k]
  /\ UNCHANGED <<nextFileSetId, clients, sentId, pendingId, broken, used,
                 queued, mark, got>>

(* Send waits, or returns nil without an RPC. *)
LEMMA StayInv ==
  ASSUME TypeOK, SyncInv,
         NEW t \in Task, NEW c \in Conn, NEW n \in Nat, NEW k \in Nat,
         pc[t] # "sending", c \in used, n <= pendingId[c], Covered(c, n, k),
         Locals(t, c, n, k), UNCHANGED <<pending, busy, sending>>,
         NEW r \in {"wait", "ok"}, pc' = [pc EXCEPT ![t] = r],
         r = "ok" /\ c \notin broken /\ Registered(c) => k <= Len(got[c])
  PROVE  SyncInv'
<1>1. \A d : Registered(d)' <=> Registered(d)
  BY Zenon DEF Registered, Locals
<1>2. /\ pc'[t] = r /\ conn'[t] = c /\ needSync'[t] = n /\ need'[t] = k
      /\ \A u \in Task : u # t => /\ pc'[u] = pc[u] /\ conn'[u] = conn[u]
                                 /\ needSync'[u] = needSync[u] /\ need'[u] = need[u]
  BY Zenon DEF Locals, TypeOK
<1>3. \A u \in Task : \A d \in Conn :
        /\ Sender(u, d)' <=> Sender(u, d)
        /\ u # t => (On(u, d)' <=> On(u, d))
        /\ d # c => ~On(t, d)'
        /\ ~Sender(t, d)
  BY <1>2, Zenon DEF Sender, On
<1>4. RegistrationInv'
  BY <1>1, <1>2, SMTT(60) DEF SyncInv, RegistrationInv, Locals
<1>5. SenderInv'
  <2>1. \A u, v \in Task : pc'[u] = "sending" /\ Sender(v, conn[u])' => u = v
    BY <1>2, SMTT(60) DEF SyncInv, SenderInv, Sender
  <2>2. \A u \in Task : pc'[u] = "sending" /\ Registered(conn[u])' => busy'[conn'[u]]
    BY <1>1, <1>2, SMTT(60) DEF SyncInv, SenderInv, Registered, Locals
  <2>3. \A u \in Task : pc'[u] = "sending" => needSync'[u] > sentId'[conn'[u]]
    BY <1>2, Zenon DEF SyncInv, SenderInv, Locals
  <2>4. \A u \in Task : pc'[u] \in {"wait", "woken", "sending", "ok"}
                       => needSync'[u] <= pendingId'[conn'[u]]
    BY <1>2, SMTT(60) DEF SyncInv, SenderInv, Locals
  <2>5. \A d \in Conn : sentId'[d] <= pendingId'[d] /\ pendingId'[d] < nextFileSetId'
    BY Zenon DEF SyncInv, SenderInv, Locals
  <2> QED
    BY <2>1, <2>2, <2>3, <2>4, <2>5, Zenon DEF SenderInv
<1>6. StreamInv'
  <2> SUFFICES ASSUME NEW d \in Conn, d \notin broken
               PROVE  StreamOf(d)'
    BY Zenon DEF StreamInv, Locals
  <2>1. StreamOf(d)
    BY Zenon DEF SyncInv, StreamInv
  <2> QED
    BY <1>1, <1>3, <2>1, StreamFrame, Zenon DEF Locals
<1>7. CoverInv'
  <2> SUFFICES ASSUME NEW d \in Conn, d \notin broken, Registered(d)
               PROVE  CoverOf(d)'
    BY <1>1, Zenon DEF CoverInv, Locals
  <2>1. CoverOf(d)
    BY ZenonT(60) DEF SyncInv, CoverInv
  <2>2. CASE d # c
    <3>1. \A u \in Task : On(u, d)' =>
           /\ On(u, d)
           /\ need'[u] = need[u]
           /\ needSync'[u] = needSync[u]
           /\ pc'[u] = "ok" => pc[u] = "ok"
      BY <1>2, <1>3, <2>2, Zenon
    <3>2. \A u \in Task : Sender(u, d) => On(u, d)'
      BY <1>3, Zenon DEF Sender, On
    <3> QED
      BY <1>3, <2>1, <3>1, <3>2, CoverFrame, Zenon DEF Locals
  <2>3. CASE d = c
    <3>1. UNCHANGED <<got, sending, mark, pendingId, sentId>>
      BY Zenon DEF Locals
    <3>2. ASSUME NEW u \in Task, On(u, d)'
          PROVE  /\ need'[u] <= mark[d]
                 /\ needSync'[u] <= sentId[d] => need'[u] <= Len(got[d])
                 /\ \A s \in Task : Sender(s, d) /\ needSync'[u] <= needSync[s]
                      => need'[u] <= Len(got[d]) + Len(sending[s])
                 /\ pc'[u] = "ok" => need'[u] <= Len(got[d])
      <4>1. CASE u = t
        BY <1>2, <2>3, <4>1, Zenon DEF Covered
      <4>2. CASE u # t
        BY <1>2, <1>3, <2>1, <3>2, <4>2, Zenon DEF CoverOf
      <4> QED
        BY <4>1, <4>2, Zenon
    <3>3. \A s \in Task : Sender(s, d) => needSync'[s] = needSync[s]
      BY <1>2, <1>3, Zenon
    <3> QED
      BY <1>3, <2>1, <3>1, <3>2, <3>3, Zenon DEF CoverOf
  <2> QED
    BY <2>2, <2>3, Zenon
<1> QED
  BY <1>4, <1>5, <1>6, <1>7, Zenon DEF SyncInv

(* Send takes the whole queue and starts the RPC. *)
LEMMA TakeInv ==
  ASSUME TypeOK, SyncInv,
         NEW t \in Task, NEW c \in Conn, NEW n \in Nat, NEW k \in Nat,
         pc[t] # "sending", c \in used, n <= pendingId[c], Covered(c, n, k),
         Locals(t, c, n, k),
         ~busy[c], pending[c] # <<>>, n > sentId[c],
         pc' = [pc EXCEPT ![t] = "sending"],
         sending' = [sending EXCEPT ![t] = pending[c]],
         pending' = [pending EXCEPT ![c] = <<>>],
         busy' = [busy EXCEPT ![c] = TRUE]
  PROVE  SyncInv'
<1>1. \A d : Registered(d)' <=> Registered(d)
  BY Zenon DEF Registered, Locals
<1>2. /\ pc'[t] = "sending" /\ conn'[t] = c /\ needSync'[t] = n /\ need'[t] = k
      /\ sending'[t] = pending[c]
      /\ \A u \in Task : u # t => /\ pc'[u] = pc[u] /\ conn'[u] = conn[u]
                                 /\ needSync'[u] = needSync[u] /\ need'[u] = need[u]
                                 /\ sending'[u] = sending[u]
      /\ pending'[c] = <<>> /\ busy'[c]
      /\ \A d \in Conn : d # c => pending'[d] = pending[d] /\ busy'[d] = busy[d]
  BY Zenon DEF Locals, TypeOK
<1>3. Registered(c)
  BY Zenon DEF SyncInv, RegistrationInv
<1>4. \A u \in Task : ~Sender(u, c)
  BY <1>3, Zenon DEF SyncInv, SenderInv, Sender
<1>5. \A u \in Task : \A d \in Conn :
        /\ u # t => (Sender(u, d)' <=> Sender(u, d)) /\ (On(u, d)' <=> On(u, d))
        /\ d # c => ~On(t, d)' /\ ~Sender(t, d)'
        /\ ~Sender(t, d)
  BY <1>2, Zenon DEF Sender, On
<1>6. Sender(t, c)' /\ On(t, c)'
  BY <1>2, Zenon DEF Sender, On
<1>7. RegistrationInv'
  BY <1>1, <1>2, SMTT(60) DEF SyncInv, RegistrationInv, Locals
<1>8. SenderInv'
  <2>1. \A u, v \in Task : pc'[u] = "sending" /\ Sender(v, conn[u])' => u = v
    BY <1>2, <1>4, SMTT(60) DEF SyncInv, SenderInv, Sender
  <2>2. \A u \in Task : pc'[u] = "sending" /\ Registered(conn[u])' => busy'[conn'[u]]
    <3>1. ASSUME NEW u \in Task, u # t, pc[u] = "sending", Registered(conn[u])
          PROVE  busy'[conn[u]]
      <4>1. conn[u] \in Conn /\ conn[u] # c /\ busy[conn[u]]
        BY <1>4, <3>1, Zenon DEF SyncInv, SenderInv, Sender, TypeOK
      <4> QED
        BY <1>2, <4>1
    <3>2. \A u \in Task : Registered(conn[u])' => Registered(conn'[u])
      BY ZenonT(60) DEF Registered, Locals
    <3> QED
      BY <1>2, <3>1, <3>2, Zenon
  <2>3. \A u \in Task : pc'[u] = "sending" => needSync'[u] > sentId'[conn'[u]]
    BY <1>2, SMTT(60) DEF SyncInv, SenderInv, Locals
  <2>4. \A u \in Task : pc'[u] \in {"wait", "woken", "sending", "ok"}
                       => needSync'[u] <= pendingId'[conn'[u]]
    BY <1>2, SMTT(60) DEF SyncInv, SenderInv, Locals
  <2>5. \A d \in Conn : sentId'[d] <= pendingId'[d] /\ pendingId'[d] < nextFileSetId'
    BY Zenon DEF SyncInv, SenderInv, Locals
  <2> QED
    BY <2>1, <2>2, <2>3, <2>4, <2>5, ZenonT(60) DEF SenderInv
<1>9. ASSUME c \notin broken
      PROVE  /\ Run(got[c], 0) /\ Run(pending[c], Len(got[c])) /\ mark[c] <= queued[c]
             /\ Len(got[c]) + Len(pending[c]) = queued[c]
  BY <1>3, <1>4, <1>9, Zenon DEF SyncInv, StreamInv, StreamOf
<1>10. StreamInv'
  <2>1. ASSUME NEW d \in Conn, d \notin broken, d # c
        PROVE  StreamOf(d)'
    <3>1. StreamOf(d)
      BY <2>1, ZenonT(60) DEF SyncInv, StreamInv
    <3>2. \A u \in Task : /\ Sender(u, d)' <=> Sender(u, d)
                          /\ Sender(u, d) => sending'[u] = sending[u]
      BY <1>2, <1>5, <2>1, Zenon
    <3> QED
      BY <1>1, <1>2, <2>1, <3>1, <3>2, StreamFrame, Zenon DEF Locals
  <2>2. ASSUME c \notin broken
        PROVE  StreamOf(c)'
    <3>1. \A u \in Task : Sender(u, c)' => u = t
      BY <1>4, <1>5, ZenonT(60)
    <3>2. UNCHANGED <<got, mark, queued>>
      BY Zenon DEF Locals
    <3>3. /\ sending'[t] = pending[c] /\ pending'[c] = <<>>
          /\ got'[c] = got[c] /\ queued'[c] = queued[c] /\ mark'[c] = mark[c]
      BY <1>2, <3>2, Zenon
    <3>4. /\ Run(got[c], 0)' /\ Run(sending[t], Len(got[c]))'
          /\ Run(pending[c], Len(got[c]) + Len(sending[t]))'
      <4>1. Run(got'[c], 0) /\ Run(sending'[t], Len(got'[c]))
        BY <1>9, <2>2, <3>3, Zenon
      <4>2. \A i : i \notin 1..Len(<<>>)
        OBVIOUS
      <4>3. \A x : Run(<<>>, x)
        BY <4>2, Zenon DEF Run
      <4>4. Run(pending'[c], Len(got'[c]) + Len(sending'[t]))
        BY <3>3, <4>3, ZenonT(40)
      <4> QED
        BY <4>1, <4>4, Zenon DEF Run
    <3>5. Len(got'[c]) + Len(sending'[t]) + Len(pending'[c]) = queued'[c]
      <4>1. got[c] \in Seq(Nat) /\ pending[c] \in Seq(Nat)
        BY Zenon DEF TypeOK
      <4>2. Len(got[c]) + Len(pending[c]) + Len(<<>>) = Len(got[c]) + Len(pending[c])
        BY <4>1, LenSum, ZenonT(60)
      <4> QED
        BY <1>9, <2>2, <3>3, <4>2, Zenon
    <3> QED
      BY <1>6, <1>9, <2>2, <3>1, <3>3, <3>4, <3>5, Zenon DEF StreamOf
  <2> QED
    BY <2>1, <2>2, ZenonT(60) DEF StreamInv, Locals
<1>11. CoverInv'
  <2>1. ASSUME NEW d \in Conn, d \notin broken, Registered(d), d # c
        PROVE  CoverOf(d)'
    <3>1. CoverOf(d)
      BY <2>1, ZenonT(60) DEF SyncInv, CoverInv
    <3>2. \A u \in Task : /\ Sender(u, d)' <=> Sender(u, d)
                          /\ Sender(u, d) => sending'[u] = sending[u]
      BY <1>2, <1>5, <2>1, ZenonT(60)
    <3>3. \A u \in Task : On(u, d)' =>
           /\ On(u, d)
           /\ need'[u] = need[u]
           /\ needSync'[u] = needSync[u]
           /\ pc'[u] = "ok" => pc[u] = "ok"
      BY <1>2, <1>5, <2>1, ZenonT(60)
    <3>4. \A u \in Task : Sender(u, d) => On(u, d)'
      BY <1>5, <2>1, Zenon DEF Sender, On
    <3> QED
      BY <3>1, <3>2, <3>3, <3>4, CoverFrame, ZenonT(60) DEF Locals
  <2>2. ASSUME c \notin broken
        PROVE  CoverOf(c)'
    <3>1. CoverOf(c)
      BY <1>3, <2>2, Zenon DEF SyncInv, CoverInv
    <3>2. UNCHANGED <<got, mark, pendingId, sentId>>
      BY Zenon DEF Locals
    <3>3. \A u \in Task : Sender(u, c)' => u = t
      BY <1>4, <1>5, Zenon
    <3>4. mark[c] <= Len(got[c]) + Len(sending'[t])
      <4>1. Len(got[c]) + Len(sending'[t]) = queued[c]
        BY <1>2, <1>9, <2>2, Zenon
      <4>2. mark[c] <= queued[c]
        BY <1>9, <2>2, Zenon
      <4> QED
        BY <4>1, <4>2, Zenon
    <3>5. ASSUME NEW u \in Task, On(u, c)'
          PROVE  /\ need'[u] <= mark[c]
                 /\ needSync'[u] <= sentId[c] => need'[u] <= Len(got[c])
                 /\ pc'[u] = "ok" => need'[u] <= Len(got[c])
      BY <1>2, <1>3, <1>5, <2>2, <3>1, <3>5, Zenon DEF CoverOf, Covered
    <3>6. ASSUME NEW u \in Task, On(u, c)'
          PROVE  need'[u] <= Len(got[c]) + Len(sending'[t])
      <4>1. need'[u] \in Nat /\ mark[c] \in Nat
        BY <1>2, Zenon DEF TypeOK
      <4>2. Len(got[c]) + Len(sending'[t]) \in Nat
        <5>1. got[c] \in Seq(Nat) /\ sending'[t] \in Seq(Nat)
          BY <1>2 DEF TypeOK
        <5> QED
          BY <5>1, LenSum, Zenon
      <4>3. need'[u] <= mark[c]
        BY <3>5, <3>6, Zenon
      <4> QED
        BY <3>4, <4>1, <4>2, <4>3, LeTrans, Zenon
    <3> QED
      BY <3>1, <3>2, <3>3, <3>4, <3>5, <3>6, Zenon DEF CoverOf
  <2> QED
    BY <1>1, <2>1, <2>2, Zenon DEF CoverInv, Locals
<1> QED
  BY <1>7, <1>8, <1>10, <1>11, Zenon DEF SyncInv

(* The test of the wait loop and what follows it. *)
LEMMA DecideInv ==
  ASSUME TypeOK, SyncInv,
         NEW t \in Task, NEW c \in Conn, NEW n \in Nat, NEW k \in Nat,
         pc[t] # "sending", c \in used, n <= pendingId[c], Covered(c, n, k),
         Locals(t, c, n, k),
         \/ /\ MustWait(c, n)
            /\ pc' = [pc EXCEPT ![t] = "wait"]
            /\ UNCHANGED <<pending, busy, sending>>
         \/ ~MustWait(c, n) /\ Proceed(t, c, n)
  PROVE  SyncInv'
<1>1. CASE MustWait(c, n)
  <2>1. pc' = [pc EXCEPT ![t] = "wait"] /\ UNCHANGED <<pending, busy, sending>>
    BY <1>1, Zenon
  <2>2. "wait" \in {"wait", "ok"} /\ "wait" # "ok"
    BY Zenon
  <2> QED
    BY <2>1, <2>2, StayInv, Zenon
<1>2. CASE ~MustWait(c, n) /\ (pending[c] = <<>> \/ n <= sentId[c])
  <2>1. pc' = [pc EXCEPT ![t] = "ok"] /\ UNCHANGED <<pending, busy, sending>>
    BY <1>2, ZenonT(60) DEF Proceed
  <2>2. ASSUME c \notin broken, Registered(c), ~(n <= sentId[c])
        PROVE  k <= Len(got[c])
    <3>1. pending[c] = <<>> /\ ~busy[c]
      BY <1>2, <2>2, SMTT(60) DEF MustWait, TypeOK
    <3>2. \A u \in Task : ~Sender(u, c)
      BY <2>2, <3>1, Zenon DEF SyncInv, SenderInv, Sender
    <3>3. mark[c] <= queued[c] /\ Len(got[c]) + Len(pending[c]) = queued[c]
      BY <2>2, <3>2, Zenon DEF SyncInv, StreamInv, StreamOf
    <3>4. Len(got[c]) \in Nat /\ queued[c] \in Nat /\ mark[c] \in Nat
      BY SMTT(60) DEF TypeOK
    <3>5. Len(got[c]) = queued[c]
      <4>1. Len(got[c]) + Len(<<>>) = queued[c]
        BY <3>1, <3>3, Zenon
      <4>2. Len(<<>>) = 0
        BY Zenon
      <4> QED
        BY <3>4, <4>1, <4>2, SMTT(60)
    <3>6. k <= mark[c]
      BY <2>2, Zenon DEF Covered
    <3>7. k <= queued[c]
      BY <3>3, <3>4, <3>6, LeTrans, Zenon
    <3> QED
      BY <3>5, <3>7, Zenon
  <2>3. c \notin broken /\ Registered(c) => k <= Len(got[c])
    BY <2>2, Zenon DEF Covered
  <2>4. "ok" \in {"wait", "ok"}
    BY Zenon
  <2> QED
    BY <2>1, <2>3, <2>4, StayInv, ZenonT(40)
<1>3. CASE ~MustWait(c, n) /\ ~(pending[c] = <<>> \/ n <= sentId[c])
  <2>1. /\ pc' = [pc EXCEPT ![t] = "sending"]
        /\ sending' = [sending EXCEPT ![t] = pending[c]]
        /\ pending' = [pending EXCEPT ![c] = <<>>]
        /\ busy' = [busy EXCEPT ![c] = TRUE]
    BY <1>3, Zenon DEF Proceed
  <2>2. pending[c] # <<>> /\ n > sentId[c] /\ ~busy[c]
    BY <1>3, SMTT(60) DEF MustWait, TypeOK
  <2> QED
    BY <2>1, <2>2, TakeInv, Zenon
<1> QED
  BY <1>1, <1>2, <1>3, Zenon

(* Send reads needSync and waits, returns or starts the RPC. *)
LEMMA SendBeginInv ==
  ASSUME TypeOK, SyncInv, NEW t \in Task, NEW id \in Id, SendBegin(t, id)
  PROVE  SyncInv'
<1>1. PICK c \in Conn : c = clients[id] /\ Registered(c)
  BY Zenon DEF SendBegin, TypeOK, Registered
<1>2. PICK n \in Nat : n = pendingId[c]
  BY Zenon DEF TypeOK
<1>3. PICK k \in Nat : k = mark[c]
  BY ZenonT(60) DEF TypeOK
<1>4. pc[t] # "sending" /\ c \in used /\ n <= pendingId[c]
  BY <1>1, <1>2, SMTT(60) DEF SendBegin, SyncInv, RegistrationInv
<1>5. Covered(c, n, k)
  <2>1. k <= mark[c]
    BY <1>3
  <2>2. c \notin broken /\ Registered(c) =>
          /\ n <= sentId[c] => k <= Len(got[c])
          /\ \A s \in Task : Sender(s, c) /\ n <= needSync[s]
               => k <= Len(got[c]) + Len(sending[s])
    BY <1>2, <1>3, ZenonT(40) DEF SyncInv, CoverInv, CoverOf
  <2> QED
    BY <2>1, <2>2, Zenon DEF Covered
<1>6. Locals(t, c, n, k)
  BY <1>1, <1>2, <1>3, ZenonT(60) DEF Locals, SendBegin
<1>7. \/ /\ MustWait(c, n)
         /\ pc' = [pc EXCEPT ![t] = "wait"]
         /\ UNCHANGED <<pending, busy, sending>>
      \/ ~MustWait(c, n) /\ Proceed(t, c, n)
  BY <1>1, <1>2, Zenon DEF SendBegin
<1> QED
  BY <1>4, <1>5, <1>6, <1>7, DecideInv, Zenon

(* A waiter in Send that was woken tests its condition again. *)
LEMMA SendWakeInv ==
  ASSUME TypeOK, SyncInv, NEW t \in Task, SendWake(t)
  PROVE  SyncInv'
<1>1. PICK c \in Conn : c = conn[t]
  BY ZenonT(40) DEF SendWake, TypeOK
<1>2. PICK n \in Nat : n = needSync[t]
  BY Zenon DEF TypeOK
<1>3. PICK k \in Nat : k = need[t]
  BY ZenonT(60) DEF TypeOK
<1>4. pc[t] # "sending" /\ c \in used /\ n <= pendingId[c] /\ On(t, c)
  BY <1>1, <1>2, Zenon DEF SendWake, SyncInv, RegistrationInv, SenderInv, On
<1>5. Covered(c, n, k)
  BY <1>2, <1>3, <1>4, Zenon DEF Covered, SyncInv, CoverInv, CoverOf
<1>6. Locals(t, c, n, k)
  BY <1>1, <1>2, <1>3, ZenonT(60) DEF Locals, SendWake, historyVars, TypeOK
<1>7. \/ /\ MustWait(c, n)
         /\ pc' = [pc EXCEPT ![t] = "wait"]
         /\ UNCHANGED <<pending, busy, sending>>
      \/ ~MustWait(c, n) /\ Proceed(t, c, n)
  BY <1>1, <1>2, Zenon DEF SendWake
<1> QED
  BY <1>4, <1>5, <1>6, <1>7, DecideInv, Zenon

-----------------------------------------------------------------------------
(* The RPC of a Send returns; the theorems. *)

(* Typing holds throughout. *)
THEOREM TypeInvariant == Spec => []TypeOK
<1>1. Init => TypeOK
  BY DEF Init, TypeOK
<1> QED
  BY <1>1, TypeStep, PTL DEF Spec

(* The RPC returns: the worker has what was taken, the waiters are woken. *)
LEMMA SendReturnInv ==
  ASSUME TypeOK, SyncInv, NEW t \in Task, SendReturn(t)
  PROVE  SyncInv'
<1>1. PICK c \in Conn : c = conn[t] /\ c \in used
  BY Zenon DEF SendReturn, SendEnds, TypeOK, SyncInv, RegistrationInv
<1>2. \A u \in Task : Sender(u, c) <=> u = t
  BY <1>1, Zenon DEF SyncInv, SenderInv, Sender, SendReturn, SendEnds
<1>3. UNCHANGED <<nextFileSetId, clients, pending, pendingId, broken, conn,
                  needSync, used, queued, mark, need>>
  BY Zenon DEF SendReturn, SendEnds
<1>4. \A d : Registered(d)' <=> Registered(d)
  BY <1>3, Zenon DEF Registered
<1>5. /\ pc'[t] = IF c \in broken THEN "err" ELSE "ok"
      /\ \A u \in Task : u # t => /\ sending'[u] = sending[u]
                                 /\ pc'[u] = IF pc[u] = "wait" THEN "woken" ELSE pc[u]
  BY <1>1, Zenon DEF SendReturn, SendEnds, Broadcast, TypeOK
<1>6. /\ busy'[c] = FALSE /\ sentId'[c] = needSync[t]
      /\ c \notin broken => got'[c] = got[c] \o sending[t]
      /\ \A d \in Conn : d # c => /\ busy'[d] = busy[d] /\ sentId'[d] = sentId[d]
                                 /\ got'[d] = got[d]
  BY <1>1, Zenon DEF SendReturn, SendEnds, TypeOK
<1>7. \A u \in Task : \A d \in Conn :
        /\ On(u, d)' => On(u, d)
        /\ u # t => (Sender(u, d)' <=> Sender(u, d))
        /\ u # t /\ pc'[u] = "ok" => pc[u] = "ok"
        /\ ~Sender(t, d)' /\ (d # c => ~Sender(t, d))
        /\ d # c => ~On(t, d)
  BY <1>1, <1>3, <1>5, SMTT(60) DEF SendReturn, SendEnds, Sender, On
<1>8. RegistrationInv'
  <2>1. \A d \in Conn : d \notin used => got'[d] = <<>> /\ sentId'[d] = 0 /\ ~busy'[d]
    BY <1>1, <1>6, Zenon DEF SyncInv, RegistrationInv
  <2>2. \A u \in Task : pc'[u] \in {"wait", "woken", "sending", "ok"} => conn[u] \in used
    BY <1>1, <1>5, Zenon DEF SyncInv, RegistrationInv
  <2> QED
    BY <1>3, <1>4, <2>1, <2>2, Zenon DEF SyncInv, RegistrationInv
<1>9. SenderInv'
  <2>1. \A u, v \in Task : pc'[u] = "sending" /\ Sender(v, conn[u])' => u = v
    BY <1>3, <1>5, SMTT(60) DEF SyncInv, SenderInv, Sender
  <2>2. ASSUME NEW u \in Task, pc'[u] = "sending"
        PROVE  /\ Registered(conn[u]) => busy'[conn[u]]
               /\ needSync[u] > sentId'[conn[u]]
    <3>1. u # t /\ pc[u] = "sending"
      BY <1>5, <2>2, Zenon
    <3>2. conn[u] \in Conn /\ conn[u] # c
      BY <1>2, <3>1, Zenon DEF Sender, TypeOK
    <3>3. busy'[conn[u]] = busy[conn[u]] /\ sentId'[conn[u]] = sentId[conn[u]]
      BY <1>6, <3>2, Zenon
    <3> QED
      BY <3>1, <3>3, Zenon DEF SyncInv, SenderInv
  <2>3. \A d \in Conn : sentId'[d] <= pendingId[d] /\ pendingId[d] < nextFileSetId
    <3>1. needSync[t] <= pendingId[c]
      BY <1>1, Zenon DEF SyncInv, SenderInv, SendReturn, SendEnds
    <3> QED
      BY <1>6, <3>1, Zenon DEF SyncInv, SenderInv
  <2>4. \A u \in Task : pc'[u] \in {"wait", "woken", "sending", "ok"}
                       => needSync[u] <= pendingId[conn[u]]
    BY <1>5, Zenon DEF SyncInv, SenderInv, SendReturn, SendEnds
  <2>5. \A u \in Task : Registered(conn[u])' => Registered(conn[u])
    BY <1>3, Zenon DEF Registered
  <2> QED
    BY <1>3, <2>1, <2>2, <2>3, <2>4, <2>5, Zenon DEF SenderInv
<1>10. got[c] \in Seq(Nat) /\ sending[t] \in Seq(Nat)
  BY Zenon DEF TypeOK
<1>11. c \notin broken => Len(got'[c]) = Len(got[c]) + Len(sending[t])
  <2>1. Len(got[c] \o sending[t]) = Len(got[c]) + Len(sending[t])
    BY <1>10, LenSum, Zenon
  <2> QED
    BY <1>6, <2>1, Zenon
<1>12. StreamInv'
  <2>1. ASSUME NEW d \in Conn, d \notin broken, d # c
        PROVE  StreamOf(d)'
    <3>1. StreamOf(d)
      BY <2>1, Zenon DEF SyncInv, StreamInv
    <3>2. \A u \in Task : /\ Sender(u, d)' <=> Sender(u, d)
                          /\ Sender(u, d) => sending'[u] = sending[u]
      BY <1>5, <1>7, <2>1, Zenon
    <3> QED
      BY <1>3, <1>4, <1>6, <2>1, <3>1, <3>2, StreamFrame, Zenon
  <2>2. ASSUME c \notin broken
        PROVE  StreamOf(c)'
    <3>1. StreamOf(c)
      BY <2>2, Zenon DEF SyncInv, StreamInv
    <3>2. Run(got'[c], 0)
      <4>1. Run(got[c], 0) /\ Run(sending[t], Len(got[c]))
        BY <1>2, <3>1, Zenon DEF StreamOf
      <4>2. Run(sending[t], 0 + Len(got[c])) /\ 0 \in Nat
        BY <1>10, <4>1, SMTT(60)
      <4>3. Run(got[c] \o sending[t], 0)
        BY <1>10, <4>1, <4>2, RunConcat, Zenon
      <4> QED
        BY <1>6, <2>2, <4>3, Zenon
    <3>3. \A u \in Task : ~Sender(u, c)'
      BY <1>2, <1>7, Zenon
    <3>4. ASSUME Registered(c)
          PROVE  Run(pending'[c], Len(got'[c])) /\ Len(got'[c]) + Len(pending'[c]) = queued'[c]
      <4>1. /\ Run(pending[c], Len(got[c]) + Len(sending[t]))
            /\ Len(got[c]) + Len(sending[t]) + Len(pending[c]) = queued[c]
        BY <1>2, <3>1, <3>4, Zenon DEF StreamOf
      <4> QED
        BY <1>3, <1>11, <2>2, <4>1, Zenon
    <3>5. Run(got[c], 0)' /\ (Registered(c) => Run(pending[c], Len(got[c]))')
      BY <3>2, <3>4, Zenon DEF Run
    <3>6. Registered(c) => mark'[c] <= queued'[c]
      BY <1>3, <3>1, Zenon DEF StreamOf
    <3> QED
      BY <1>4, <3>3, <3>4, <3>5, <3>6, Zenon DEF StreamOf
  <2> QED
    BY <1>3, <2>1, <2>2, Zenon DEF StreamInv
<1>13. CoverInv'
  <2>1. ASSUME NEW d \in Conn, d \notin broken, Registered(d), d # c
        PROVE  CoverOf(d)'
    <3>1. CoverOf(d)
      BY <2>1, Zenon DEF SyncInv, CoverInv
    <3>2. \A u \in Task : /\ Sender(u, d)' <=> Sender(u, d)
                          /\ Sender(u, d) => sending'[u] = sending[u]
      BY <1>5, <1>7, <2>1, Zenon
    <3>3. \A u \in Task : On(u, d)' =>
           /\ On(u, d)
           /\ need'[u] = need[u]
           /\ needSync'[u] = needSync[u]
           /\ pc'[u] = "ok" => pc[u] = "ok"
      BY <1>3, <1>7, <2>1, Zenon
    <3>4. \A u \in Task : Sender(u, d) => On(u, d)'
      BY <3>2, Zenon DEF Sender, On
    <3> QED
      BY <1>3, <1>6, <2>1, <3>1, <3>2, <3>3, <3>4, CoverFrame, Zenon
  <2>2. ASSUME c \notin broken, Registered(c)
        PROVE  CoverOf(c)'
    <3>1. CoverOf(c) /\ Sender(t, c)
      BY <1>2, <2>2, Zenon DEF SyncInv, CoverInv
    <3>2. \A u \in Task : ~Sender(u, c)'
      BY <1>2, <1>7, Zenon
    <3>3. Len(got'[c]) = Len(got[c]) + Len(sending[t])
      BY <1>11, <2>2, Zenon
    <3>4. pendingId[c] <= needSync[t] => mark[c] <= Len(got'[c])
      BY <3>1, <3>3, Zenon DEF CoverOf
    <3>5. ASSUME NEW u \in Task, On(u, c)'
          PROVE  /\ need[u] <= mark[c]
                 /\ needSync[u] <= needSync[t] => need[u] <= Len(got'[c])
                 /\ pc'[u] = "ok" => need[u] <= Len(got'[c])
      <4>1. On(u, c)
        BY <1>7, <3>5, Zenon
      <4>2. need[u] <= mark[c] /\ (needSync[u] <= needSync[t] => need[u] <= Len(got'[c]))
        BY <3>1, <3>3, <4>1, Zenon DEF CoverOf
      <4>3. CASE u = t
        <5>1. needSync[t] <= needSync[t]
          BY DEF TypeOK
        <5> QED
          BY <4>2, <4>3, <5>1, Zenon
      <4>4. CASE u # t /\ pc'[u] = "ok"
        <5>1. need[u] <= Len(got[c])
          BY <1>7, <3>1, <4>1, <4>4, Zenon DEF CoverOf
        <5>2. Len(got[c]) <= Len(got[c]) + Len(sending[t])
          BY <1>10, LenSum, Zenon
        <5>3. need[u] \in Nat /\ Len(got[c]) \in Nat /\ Len(got[c]) + Len(sending[t]) \in Nat
          BY <1>10, LenSum, Zenon DEF TypeOK
        <5>4. need[u] <= Len(got[c]) + Len(sending[t])
          BY <5>1, <5>2, <5>3, LeTrans, ZenonT(40)
        <5> QED
          BY <3>3, <4>2, <5>4, Zenon
      <4> QED
        BY <4>2, <4>3, <4>4, Zenon
    <3> QED
      BY <1>3, <1>6, <3>2, <3>4, <3>5, Zenon DEF CoverOf
  <2> QED
    BY <1>3, <1>4, <2>1, <2>2, Zenon DEF CoverInv
<1> QED
  BY <1>8, <1>9, <1>12, <1>13, Zenon DEF SyncInv

-----------------------------------------------------------------------------
(* Every step of the clients protocol keeps the invariant. *)
LEMMA SyncStep == TypeOK /\ SyncInv /\ [Next]_vars => SyncInv'
<1> SUFFICES ASSUME TypeOK, SyncInv, [Next]_vars
             PROVE  SyncInv'
  BY Zenon
<1>1. CASE UNCHANGED masterVars
  <2>1. \A c : Registered(c)' <=> Registered(c)
    BY <1>1, Zenon DEF Registered, masterVars, cacheVars
  <2>2. \A u \in Task : \A c \in Conn :
          (Sender(u, c)' <=> Sender(u, c)) /\ (On(u, c)' <=> On(u, c))
    BY <1>1, Zenon DEF Sender, On, masterVars, taskVars
  <2>3. RegistrationInv' /\ SenderInv'
    BY <1>1, <2>1, Zenon DEF SyncInv, RegistrationInv, SenderInv, Sender, masterVars, cacheVars,
                      taskVars, historyVars
  <2>4. StreamInv'
    BY <1>1, <2>1, <2>2, StreamFrame, Zenon
       DEF SyncInv, StreamInv, masterVars, cacheVars, taskVars, historyVars
  <2>5. CoverInv'
    BY <1>1, <2>1, <2>2, CoverFrame, Zenon
       DEF SyncInv, CoverInv, masterVars, cacheVars, taskVars, historyVars, Sender, On
  <2> QED
    BY <2>3, <2>4, <2>5, Zenon DEF SyncInv
<1> QED
  BY Zenon, <1>1, AddClientInv, RmClientInv, QueueInv, GetFillInv, SendGoneInv,
     SendBeginInv, SendWakeInv, SendReturnInv, BreakInv, StepOrSame DEF Step

(* The invariant of the clients protocol: registration, one RPC per        *)
(* connection, the stream of each connection, and what sentId covers.      *)
THEOREM SyncInvariant == Spec => []SyncInv
<1>1. Init => TypeOK
  BY DEF Init, TypeOK
<1> QED
  BY <1>1, InitInv, TypeStep, SyncStep, PTL DEF Spec

(* Workers receive exactly what was queued to them, in order. *)
THEOREM InOrder == Spec => []DeliveredInOrder
<1>1. SyncInv => DeliveredInOrder
  BY Zenon DEF SyncInv, StreamInv, StreamOf, DeliveredInOrder
<1> QED
  BY <1>1, SyncInvariant, PTL

(* A Send that returned nil left its worker with every attribute up to the *)
(* last file set queued before it began (not with the attributes that only *)
(* fetches have queued since that file set).                               *)
THEOREM Synced == Spec => []SendSynced
<1>1. TypeOK /\ SyncInv => SendSynced
  <2> SUFFICES ASSUME TypeOK, SyncInv, NEW t \in Task, pc[t] = "ok",
                      Registered(conn[t]), conn[t] \notin broken
               PROVE  Len(got[conn[t]]) >= need[t]
    BY Zenon DEF SendSynced
  <2>1. conn[t] \in Conn /\ On(t, conn[t])
    BY Zenon DEF TypeOK, On
  <2>2. need[t] <= Len(got[conn[t]])
    BY <2>1, Zenon DEF SyncInv, CoverInv, CoverOf
  <2> QED
    BY <2>1, <2>2, Zenon DEF TypeOK
<1> QED
  BY <1>1, TypeInvariant, SyncInvariant, PTL

(* sentId of a connection never decreases. *)
THEOREM SentIdOnlyGrows == Spec => SentIdMonotone
<1>1. TypeOK /\ SyncInv /\ [Next]_vars => [\A c \in Conn : sentId'[c] >= sentId[c]]_vars
  <2> SUFFICES ASSUME TypeOK, SyncInv, Next, NEW c \in Conn
               PROVE  sentId'[c] >= sentId[c]
    BY Zenon
  <2>1. ASSUME NEW t \in Task, SendReturn(t)
        PROVE  sentId'[c] >= sentId[c]
    BY <2>1, SMTT(60) DEF SendReturn, SendEnds, SyncInv, SenderInv, TypeOK
  <2>2. CASE UNCHANGED sentId
    BY <2>2 DEF TypeOK
  <2> QED
    BY <2>1, <2>2, StepOrSame, Zenon DEF Step, AddClient, RmClient, Queue, GetFill, SendGone,
       SendBegin, SendWake, Break, masterVars, cacheVars
<1> QED
  BY <1>1, TypeInvariant, SyncInvariant, PTL DEF SentIdMonotone, Spec
=============================================================================
