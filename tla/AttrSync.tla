------------------------------ MODULE AttrSync ------------------------------
(***************************************************************************)
(* The client side of the master's attribute cache (attr/attrcache.go):    *)
(* every worker connection registered with AddClient owns a queue of       *)
(* attribute updates; before a task runs on a worker, its goroutine calls  *)
(* Send, which brings the worker up to the last file set that was queued   *)
(* before the call.  Send drops the cache mutex for the RPC, so several    *)
(* tasks, the replay of results (Queue), attribute fetches (unsafeGet) and *)
(* dropped connections (RmClient) interleave with it.  A fetched attribute *)
(* is queued without a file set id of its own: no Send waits for it.       *)
(*                                                                         *)
(* A Conn is one attrCachePending object together with the worker          *)
(* connection it wraps; an Id is a worker address, the key of the clients  *)
(* map, under which a later connection may be registered again.            *)
(***************************************************************************)
EXTENDS Integers, Sequences, FiniteSets

CONSTANTS
  Id,           \* worker addresses
  Conn,         \* connection objects, each registered at most once
  Task,         \* goroutines that call Send
  NoConn,       \* a missing entry of the clients map
  MaxFileSets,  \* bound on nextFileSetId
  MaxItems      \* bound on the attributes queued to one connection

ASSUME SyncAssumption ==
  /\ NoConn \notin Conn
  /\ MaxFileSets \in Nat
  /\ MaxItems \in Nat

VARIABLES
  nextFileSetId,  \* AttributeCache.nextFileSetId
  clients,        \* AttributeCache.clients
  pending,        \* attrCachePending.pending; attribute n is the n-th queued
  sentId,         \* attrCachePending.sentId
  pendingId,      \* attrCachePending.pendingId
  busy,           \* attrCachePending.busy
  broken,         \* connections whose RPCs fail from now on
  pc,             \* where each task is in Send
  conn,           \* Send's local c
  needSync,       \* Send's local needSync
  sending,        \* Send's local p
  used,           \* history: connections that were registered
  queued,         \* history: how many attributes were queued to a connection
  mark,           \* history: queued, when pendingId was last set
  need,           \* history: mark, when the task's Send began
  got,            \* history: what the worker received, in order
  crashed         \* AddClient panicked, and the master is gone

cacheVars == <<nextFileSetId, clients, pending, sentId, pendingId, busy>>
taskVars == <<pc, conn, needSync, sending>>
historyVars == <<used, queued, mark, need, got>>
masterVars == <<cacheVars, broken, taskVars, historyVars>>
vars == <<masterVars, crashed>>

(* n attributes that follow the a-th one. *)
Iota(a, n) == [i \in 1..n |-> a + i]
Run(s, a) == \A i \in 1..Len(s) : s[i] = a + i

Registered(c) == \E id \in Id : clients[id] = c

Init ==
  /\ nextFileSetId = 1
  /\ clients = [id \in Id |-> NoConn]
  /\ pending = [c \in Conn |-> <<>>]
  /\ sentId = [c \in Conn |-> 0]
  /\ pendingId = [c \in Conn |-> 0]
  /\ busy = [c \in Conn |-> FALSE]
  /\ broken = {}
  /\ pc = [t \in Task |-> "idle"]
  /\ conn = [t \in Task |-> NoConn]
  /\ needSync = [t \in Task |-> 0]
  /\ sending = [t \in Task |-> <<>>]
  /\ used = {}
  /\ queued = [c \in Conn |-> 0]
  /\ mark = [c \in Conn |-> 0]
  /\ need = [t \in Task |-> 0]
  /\ got = [c \in Conn |-> <<>>]
  /\ crashed = FALSE

(* A new connection starts with a copy of the n cached attributes pending. *)
AddClient(id, c, n) ==
  /\ c \notin used
  /\ clients[id] = NoConn
  /\ nextFileSetId <= MaxFileSets
  /\ clients' = [clients EXCEPT ![id] = c]
  /\ pending' = [pending EXCEPT ![c] = Iota(0, n)]
  /\ pendingId' = [pendingId EXCEPT ![c] = nextFileSetId]
  /\ nextFileSetId' = nextFileSetId + 1
  /\ used' = used \cup {c}
  /\ queued' = [queued EXCEPT ![c] = n]
  /\ mark' = [mark EXCEPT ![c] = n]
  /\ UNCHANGED <<sentId, busy, broken, taskVars, need, got>>

(* A second registration of a live id panics.  Two tasks that connect to   *)
(* the same worker make one (MirrorConnections, ClientUnique).             *)
AddClientTwice(id, c) ==
  /\ c \notin used
  /\ clients[id] # NoConn
  /\ crashed' = TRUE
  /\ UNCHANGED masterVars

(* The broadcast at the end of RmClient and Send wakes every waiter. *)
Broadcast(f) == [t \in Task |-> IF f[t] = "wait" THEN "woken" ELSE f[t]]

(* Mutant: the queue of a removed client is kept. *)
RmClientKeepsQueue(id) ==
  /\ clients[id] # NoConn
  /\ busy' = [busy EXCEPT ![clients[id]] = FALSE]
  /\ clients' = [clients EXCEPT ![id] = NoConn]
  /\ pc' = Broadcast(pc)
  /\ UNCHANGED <<nextFileSetId, pending, sentId, pendingId, broken, conn, needSync,
                 sending, historyVars>>

RmClient(id) ==
  LET c == clients[id] IN
  /\ c # NoConn
  /\ pending' = [pending EXCEPT ![c] = <<>>]
  /\ busy' = [busy EXCEPT ![c] = FALSE]
  /\ clients' = [clients EXCEPT ![id] = NoConn]
  /\ pc' = Broadcast(pc)
  /\ UNCHANGED <<nextFileSetId, sentId, pendingId, broken, conn, needSync,
                 sending, historyVars>>

(* n attributes are appended to the queue of every registered connection. *)
Enqueue(n) ==
  /\ \A c \in Conn : Registered(c) => queued[c] + n <= MaxItems
  /\ pending' = [c \in Conn |-> IF Registered(c)
                                THEN pending[c] \o Iota(queued[c], n)
                                ELSE pending[c]]
  /\ queued' = [c \in Conn |-> IF Registered(c) THEN queued[c] + n ELSE queued[c]]

Queue(n) ==
  /\ nextFileSetId <= MaxFileSets
  /\ Enqueue(n)
  /\ nextFileSetId' = nextFileSetId + 1
  /\ pendingId' = [c \in Conn |-> IF Registered(c) THEN nextFileSetId ELSE pendingId[c]]
  /\ mark' = [c \in Conn |-> IF Registered(c) THEN queued'[c] ELSE mark[c]]
  /\ UNCHANGED <<clients, sentId, busy, broken, taskVars, used, need, got>>

(* A fetched attribute is queued to the clients without a new file set id. *)
GetFill ==
  /\ Enqueue(1)
  /\ UNCHANGED <<nextFileSetId, clients, sentId, pendingId, busy, broken,
                 taskVars, used, mark, need, got>>

(* Send after its wait loop: return nil, or take the queue and start the RPC. *)
Proceed(t, c, n) ==
  \/ /\ pending[c] = <<>> \/ n <= sentId[c]
     /\ pc' = [pc EXCEPT ![t] = "ok"]
     /\ UNCHANGED <<pending, busy, sending>>
  \/ /\ ~(pending[c] = <<>> \/ n <= sentId[c])
     /\ pc' = [pc EXCEPT ![t] = "sending"]
     /\ sending' = [sending EXCEPT ![t] = pending[c]]
     /\ pending' = [pending EXCEPT ![c] = <<>>]
     /\ busy' = [busy EXCEPT ![c] = TRUE]

(* Mutant: Send does not wait for the RPC of another task. *)
MustWaitNever(c, n) == FALSE

(* The condition of Send's wait loop. *)
MustWait(c, n) == busy[c] /\ n > sentId[c]

SendGone(t, id) ==
  /\ pc[t] \in {"idle", "ok", "err"}
  /\ clients[id] = NoConn
  /\ pc' = [pc EXCEPT ![t] = "err"]
  /\ UNCHANGED <<cacheVars, broken, conn, needSync, sending, historyVars>>

SendBegin(t, id) ==
  LET c == clients[id] IN
  /\ pc[t] \in {"idle", "ok", "err"}
  /\ c # NoConn
  /\ conn' = [conn EXCEPT ![t] = c]
  /\ needSync' = [needSync EXCEPT ![t] = pendingId[c]]
  /\ need' = [need EXCEPT ![t] = mark[c]]
  /\ \/ /\ MustWait(c, pendingId[c])
        /\ pc' = [pc EXCEPT ![t] = "wait"]
        /\ UNCHANGED <<pending, busy, sending>>
     \/ /\ ~MustWait(c, pendingId[c])
        /\ Proceed(t, c, pendingId[c])
  /\ UNCHANGED <<nextFileSetId, clients, sentId, pendingId, broken, used,
                 queued, mark, got>>

(* A woken waiter has the mutex again and tests the loop condition. *)
SendWake(t) ==
  LET c == conn[t] IN
  /\ pc[t] = "woken"
  /\ \/ /\ MustWait(c, needSync[t])
        /\ pc' = [pc EXCEPT ![t] = "wait"]
        /\ UNCHANGED <<pending, busy, sending>>
     \/ /\ ~MustWait(c, needSync[t])
        /\ Proceed(t, c, needSync[t])
  /\ UNCHANGED <<nextFileSetId, clients, sentId, pendingId, broken, conn,
                 needSync, historyVars>>

(* The RPC is over: Mirror.Update itself never fails, so an error means a  *)
(* broken connection.  The sender records sid, and the others go on as f.  *)
SendEnds(t, sid, f) ==
  LET c == conn[t]
      result == IF c \in broken THEN "err" ELSE "ok" IN
  /\ pc[t] = "sending"
  /\ got' = [got EXCEPT ![c] = IF c \in broken THEN @ ELSE @ \o sending[t]]
  /\ busy' = [busy EXCEPT ![c] = FALSE]
  /\ sentId' = [sentId EXCEPT ![c] = sid]
  /\ pc' = [f EXCEPT ![t] = result]
  /\ sending' = [sending EXCEPT ![t] = <<>>]
  /\ UNCHANGED <<nextFileSetId, clients, pending, pendingId, broken, conn,
                 needSync, used, queued, mark, need>>

(* Mutants: the newest file set is recorded instead of the one that was    *)
(* sent; the waiters are not woken.                                        *)
SendReturnNewest(t) == SendEnds(t, pendingId[conn[t]], Broadcast(pc))
SendReturnSilent(t) == SendEnds(t, needSync[t], pc)

SendReturn(t) == SendEnds(t, needSync[t], Broadcast(pc))

(* The network, or drop() closing the connection. *)
Break(c) ==
  /\ c \in used \ broken
  /\ broken' = broken \cup {c}
  /\ UNCHANGED <<cacheVars, taskVars, historyVars>>

Step ==
  \/ \E id \in Id, c \in Conn, n \in 0..1 : AddClient(id, c, n)
  \/ \E id \in Id : RmClient(id)
  \/ \E n \in 0..1 : Queue(n)
  \/ GetFill
  \/ \E t \in Task, id \in Id : SendGone(t, id) \/ SendBegin(t, id)
  \/ \E t \in Task : SendWake(t) \/ SendReturn(t)
  \/ \E c \in Conn : Break(c)

Alive == ~crashed /\ UNCHANGED crashed

Next ==
  \/ Alive /\ Step
  \/ ~crashed /\ \E id \in Id, c \in Conn : AddClientTwice(id, c)

Spec == Init /\ [][Next]_vars

(* A woken goroutine gets the mutex, and an RPC returns or its connection  *)
(* breaks.                                                                 *)
FairSpec ==
  /\ Spec
  /\ \A t \in Task : WF_vars(Alive /\ SendWake(t)) /\ WF_vars(Alive /\ SendReturn(t))

-----------------------------------------------------------------------------
TypeOK ==
  /\ nextFileSetId \in Nat \ {0}
  /\ clients \in [Id -> Conn \cup {NoConn}]
  /\ pending \in [Conn -> Seq(Nat)]
  /\ sentId \in [Conn -> Nat]
  /\ pendingId \in [Conn -> Nat]
  /\ busy \in [Conn -> BOOLEAN]
  /\ broken \subseteq used
  /\ pc \in [Task -> {"idle", "wait", "woken", "sending", "ok", "err"}]
  /\ conn \in [Task -> Conn \cup {NoConn}]
  /\ \A t \in Task : pc[t] \notin {"idle", "err"} => conn[t] \in Conn
  /\ needSync \in [Task -> Nat]
  /\ sending \in [Task -> Seq(Nat)]
  /\ used \subseteq Conn
  /\ queued \in [Conn -> Nat]
  /\ mark \in [Conn -> Nat]
  /\ need \in [Task -> Nat]
  /\ got \in [Conn -> Seq(Nat)]

(* What a worker received over a working connection is what was queued to  *)
(* it, in the order it was queued, without gaps or repetitions: Send never *)
(* overlaps two RPCs on one connection and never loses what it took.       *)
DeliveredInOrder ==
  \A c \in Conn : c \notin broken => Run(got[c], 0)

(* When Send returned nil and the worker's connection is still registered  *)
(* and works, the worker has every attribute up to the last file set that  *)
(* AddClient or Queue had queued to it before that Send began, so it knows *)
(* the results of all tasks replayed until then.  Attributes that fetches  *)
(* (unsafeGet) queued after that file set are not promised: Send returns   *)
(* nil with them pending, and a worker that needs one asks the master.     *)
SendSynced ==
  \A t \in Task :
    pc[t] = "ok" /\ Registered(conn[t]) /\ conn[t] \notin broken
      => Len(got[conn[t]]) >= need[t]

(* sentId never goes back: a slow sender does not undo what a faster one   *)
(* with a newer file set id has recorded.                                  *)
SentIdMonotone == [][\A c \in Conn : sentId'[c] >= sentId[c]]_vars

(* Every Send returns: no wake-up is lost, whatever connections come, go   *)
(* and break meanwhile.                                                    *)
SendReturns ==
  \A t \in Task : (pc[t] \in {"wait", "woken", "sending"})
                    ~> (pc[t] \in {"ok", "err"} \/ crashed)
(***************************************************************************)
(* The inductive invariant behind the safety properties.  A task is on c   *)
(* while it is inside Send for c, or returned nil from it.                 *)
(***************************************************************************)
On(t, c) == conn[t] = c /\ pc[t] \in {"wait", "woken", "sending", "ok"}
Sender(t, c) == conn[t] = c /\ pc[t] = "sending"

(* Registration: a connection has one id, and outside the map no queue.    *)
RegistrationInv ==
  /\ \A i, j \in Id : clients[i] = clients[j] /\ clients[i] # NoConn => i = j
  /\ \A c \in Conn : Registered(c) => c \in used
  /\ \A c \in Conn : ~Registered(c) => pending[c] = <<>>
  /\ \A c \in Conn : c \notin used => got[c] = <<>> /\ sentId[c] = 0 /\ ~busy[c]
  /\ \A t \in Task : pc[t] \in {"wait", "woken", "sending", "ok"} => conn[t] \in used

(* At most one RPC per connection, and busy tells so; ids only grow.       *)
SenderInv ==
  /\ \A t, u \in Task : pc[t] = "sending" /\ Sender(u, conn[t]) => t = u
  /\ \A t \in Task : pc[t] = "sending" /\ Registered(conn[t]) => busy[conn[t]]
  /\ \A t \in Task : pc[t] = "sending" => needSync[t] > sentId[conn[t]]
  /\ \A c \in Conn : sentId[c] <= pendingId[c] /\ pendingId[c] < nextFileSetId
  /\ \A t \in Task : pc[t] \in {"wait", "woken", "sending", "ok"}
                       => needSync[t] <= pendingId[conn[t]]

(* Over a working connection, received, in flight and pending attributes   *)
(* make up, in this order, all that were queued.                           *)
StreamOf(c) ==
  /\ Run(got[c], 0)
  /\ \A t \in Task : Sender(t, c) => Run(sending[t], Len(got[c]))
  /\ Registered(c) =>
       /\ mark[c] <= queued[c]
       /\ \A t \in Task : Sender(t, c) =>
            /\ Run(pending[c], Len(got[c]) + Len(sending[t]))
            /\ Len(got[c]) + Len(sending[t]) + Len(pending[c]) = queued[c]
       /\ (\A t \in Task : ~Sender(t, c)) =>
            /\ Run(pending[c], Len(got[c]))
            /\ Len(got[c]) + Len(pending[c]) = queued[c]

StreamInv == \A c \in Conn : c \notin broken => StreamOf(c)

(* Everything queued up to the file set sentId was received, and everything *)
(* up to a sender's needSync will be once its RPC returns.                  *)
CoverOf(c) ==
  /\ pendingId[c] <= sentId[c] => mark[c] <= Len(got[c])
  /\ \A s \in Task : Sender(s, c) /\ pendingId[c] <= needSync[s]
       => mark[c] <= Len(got[c]) + Len(sending[s])
  /\ \A t \in Task : On(t, c) =>
       /\ need[t] <= mark[c]
       /\ needSync[t] <= sentId[c] => need[t] <= Len(got[c])
       /\ \A s \in Task : Sender(s, c) /\ needSync[t] <= needSync[s]
            => need[t] <= Len(got[c]) + Len(sending[s])
       /\ pc[t] = "ok" => need[t] <= Len(got[c])

CoverInv == \A c \in Conn : c \notin broken /\ Registered(c) => CoverOf(c)

(* The four parts together: what the proofs carry from step to step.       *)
SyncInv == RegistrationInv /\ SenderInv /\ StreamInv /\ CoverInv

=============================================================================
