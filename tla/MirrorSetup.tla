----------------------------- MODULE MirrorSetup -----------------------------
(***************************************************************************)
(* Setting up a mirror: a master dials the worker five times and names     *)
(* four of the connections in a call of CreateMirror (termite/master.go:   *)
(* createMirror).  The worker's accept loop puts them, one at a time and   *)
(* under their ids, where the call's handler waits for them (termite/      *)
(* connection.go), a mirror gets a share of the worker's jobs, and         *)
(* shutdown (termite/worker.go, mirrors.go) runs at any moment.            *)
(*                                                                         *)
(* The ids are numbers that every master counts from 0.  What runs on a    *)
(* mirror is in FsPool and MirrorConnections.                              *)
(***************************************************************************)
EXTENDS Integers, FiniteSets, Sequences

CONSTANTS
  Call,       \* calls of createMirror
  Master,
  Callers,    \* whose calls they may be: functions from Call to Master
  Jobs,       \* WorkerOptions.Jobs
  Wanted      \* CreateMirrorRequest.MaxJobCount, of each call

ASSUME SetupAssumption ==
  /\ IsFiniteSet(Call)
  /\ Callers \subseteq [Call -> Master]
  /\ Jobs \in Nat
  /\ Wanted \in [Call -> Nat \ {0}]

Kinds == 4    \* rpc, reverse rpc, content, reverse content
Rpc == 1
Content == 3
Conn == Call \X (1 .. Kinds)
Id == 0 .. Kinds * Cardinality(Call) - 1

VARIABLES
  master,     \* whose each call is
  nextConnectionId,  \* of each master
  pc,         \* where each call is in createMirror
  ids,        \* the ids it has drawn, one for each connection it has dialled
  closed,     \* calls whose connections were closed
  arriving,   \* the connection whose id the accept loop reads next
  conns,      \* PendingConnections.connections: pendingConnection.Conn
  hpc,        \* where the handler of each call is in CreateMirror
  took,       \* the connections it has
  woke,       \* the one it was signalled for
  mirrorMap,  \* WorkerMirrors.mirrorMap, as the calls that made the mirrors
  live,       \* mirrors that have not shut down
  grant,      \* Mirror.maxJobCount
  accepting,  \* Worker.accepting
  stop,       \* where shutdown's goroutine is
  waits,      \* the mirrors it waits for
  panicked,   \* "accepted the same connection id twice"
  clash       \* history: an id was used again while its connection was not
              \* yet taken

masterVars == <<master, nextConnectionId, pc, ids, closed>>
pendingVars == <<conns, woke, panicked>>
mirrorVars == <<mirrorMap, live, grant>>
stopVars == <<accepting, stop, waits>>
vars == <<masterVars, arriving, pendingVars, hpc, took, mirrorVars, stopVars, clash>>

Init ==
  /\ master \in Callers /\ nextConnectionId = [m \in Master |-> 0]
  /\ pc = [c \in Call |-> "dial"] /\ ids = [c \in Call |-> <<>>] /\ closed = {}
  /\ arriving = {}
  /\ conns = [i \in Id |-> {}]
  /\ hpc = [c \in Call |-> "idle"] /\ took = [c \in Call |-> <<>>]
  /\ woke = [c \in Call |-> {}]
  /\ mirrorMap = {} /\ live = {} /\ grant = [c \in Call |-> 0]
  /\ accepting = TRUE /\ stop = "no" /\ waits = {}
  /\ panicked = FALSE /\ clash = FALSE

Up == stop # "exit" /\ ~panicked

-----------------------------------------------------------------------------
(* createMirror on the master.                                             *)
IdOf(x) == ids[x[1]][x[2]]
TakenBy(c) == {took[c][k] : k \in DOMAIN took[c]}
Taken == UNION {TakenBy(c) : c \in Call}
Pending == {x \in Conn : x[2] <= Len(ids[x[1]]) /\ x \notin Taken}

(* DialTypedConnection, which the accept loop has to answer; the first one *)
(* stands for the RPC channel's as well.                                   *)
Dial(c) ==
  LET m == master[c]
      i == nextConnectionId[m] IN
  /\ pc[c] = "dial" /\ Up /\ arriving = {}
  /\ nextConnectionId' = [nextConnectionId EXCEPT ![m] = i + 1]
  /\ ids' = [ids EXCEPT ![c] = Append(@, i)]
  /\ arriving' = {<<c, Len(ids[c]) + 1>>}
  /\ pc' = [pc EXCEPT ![c] = IF Len(ids[c]) + 1 = Kinds THEN "call" ELSE @]
  /\ clash' = (clash \/ \E x \in Pending : IdOf(x) = i)
  /\ UNCHANGED <<master, closed, pendingVars, hpc, took, mirrorVars, stopVars>>

(* A dial, for which an id was drawn but for the RPC channel's, or the     *)
(* call fails: the connections are closed.                                 *)
Fail(c) ==
  LET m == master[c] IN
  /\ pc[c] \in {"dial", "call"}
  /\ \/ pc[c] = "dial" /\ nextConnectionId' = [nextConnectionId EXCEPT ![m] = @ + 1]
     \/ (pc[c] = "call" \/ ids[c] = <<>>) /\ UNCHANGED nextConnectionId
  /\ pc' = [pc EXCEPT ![c] = "err"]
  /\ closed' = closed \cup {c}
  /\ UNCHANGED <<master, ids, arriving, pendingVars, hpc, took, mirrorVars, stopVars, clash>>

(* The call returns. *)
Return(c) ==
  /\ pc[c] = "call" /\ hpc[c] \in {"granted", "refused"} /\ Up
  /\ pc' = [pc EXCEPT ![c] = IF hpc[c] = "granted" THEN "ok" ELSE "err"]
  /\ closed' = IF hpc[c] = "granted" THEN closed ELSE closed \cup {c}
  /\ UNCHANGED <<master, nextConnectionId, ids, arriving, pendingVars, hpc, took,
                 mirrorVars, stopVars, clash>>

(* The master gives the mirror up. *)
Close(c) ==
  /\ pc[c] = "ok" /\ c \notin closed /\ Up
  /\ closed' = closed \cup {c}
  /\ UNCHANGED <<master, nextConnectionId, pc, ids, arriving, pendingVars, hpc, took,
                 mirrorVars, stopVars, clash>>

-----------------------------------------------------------------------------
(* PendingConnections on the worker.                                       *)

(* Mutant: the connections are taken in another order than they are named. *)
WaitsForLast(c) == ids[c][Kinds - Len(took[c])]

(* The id that CreateMirror waits for next. *)
WaitsFor(c) == ids[c][Len(took[c]) + 1]
Asleep(i) == {c \in Call : hpc[c] = "asleep" /\ WaitsFor(c) = i}

(* Mutant: nobody is woken. *)
SignalNone(i, x) == UNCHANGED <<hpc, woke>>

(* Ready.Signal *)
Signal(i, x) ==
  \/ Asleep(i) = {} /\ UNCHANGED <<hpc, woke>>
  \/ \E c \in Asleep(i) : /\ hpc' = [hpc EXCEPT ![c] = "woken"]
                          /\ woke' = [woke EXCEPT ![c] = {x}]

(* Accept puts the connection under its id, and wakes one who waits. *)
Accept ==
  \E x \in arriving :
    LET i == IdOf(x) IN
    /\ Up
    /\ arriving' = {}
    /\ \/ /\ conns[i] # {}
          /\ panicked' = TRUE
          /\ UNCHANGED <<conns, hpc, woke>>
       \/ /\ conns[i] = {}
          /\ conns' = [conns EXCEPT ![i] = {x}]
          /\ Signal(i, x)
          /\ UNCHANGED panicked
    /\ UNCHANGED <<masterVars, took, mirrorVars, stopVars, clash>>

(* Mutant: the entry stays. *)
TakeKeeps(c, x) ==
  /\ conns' = conns
  /\ took' = [took EXCEPT ![c] = Append(@, x)]
  /\ hpc' = [hpc EXCEPT ![c] = IF Len(took[c]) + 1 = Kinds THEN "get" ELSE "wait"]

(* A handler has x.  The entry goes, whosever it is by now, and those who  *)
(* sleep on it are never signalled.                                        *)
Take(c, x) ==
  LET i == WaitsFor(c) IN
  /\ conns' = [conns EXCEPT ![i] = {}]
  /\ took' = [took EXCEPT ![c] = Append(@, x)]
  /\ hpc' = [d \in Call |->
               IF d = c THEN IF Len(took[c]) + 1 = Kinds THEN "get" ELSE "wait"
               ELSE IF d \in Asleep(i) THEN "stuck" ELSE hpc[d]]

WaitConnection(c) ==
  LET i == WaitsFor(c) IN
  /\ hpc[c] = "wait" /\ Up
  /\ \/ \E x \in conns[i] : Take(c, x)
     \/ conns[i] = {} /\ hpc' = [hpc EXCEPT ![c] = "asleep"] /\ UNCHANGED <<conns, took>>
  /\ UNCHANGED <<masterVars, arriving, woke, panicked, mirrorVars, stopVars, clash>>

Wake(c) ==
  /\ hpc[c] = "woken" /\ Up
  /\ \E x \in woke[c] : Take(c, x)
  /\ woke' = [woke EXCEPT ![c] = {}]
  /\ UNCHANGED <<masterVars, arriving, panicked, mirrorVars, stopVars, clash>>

-----------------------------------------------------------------------------
(* Mirrors on the worker.                                                  *)

CreateMirror(c) ==
  /\ pc[c] = "call" /\ hpc[c] = "idle" /\ Up
  /\ hpc' = [hpc EXCEPT ![c] = IF accepting THEN "wait" ELSE "refused"]
  /\ UNCHANGED <<masterVars, arriving, pendingVars, took, mirrorVars, stopVars, clash>>

(* The jobs granted to the mirrors S: a sum, as the number of their slots. *)
Slots(S, n) == UNION {{c} \X (1 .. n[c]) : c \in S}
Used(S) == Cardinality(Slots(S, grant))

(* The key in mirrorMap is the address of the RPC connection. *)
SameKey(c) == {d \in mirrorMap : took[d][Rpc] = took[c][Rpc]}

(* Mutant: all that was asked for is granted. *)
GrantedAll(c, remaining) == Wanted[c]

Granted(c, remaining) == IF remaining < Wanted[c] THEN remaining ELSE Wanted[c]

(* getMirror, or its error: then the connections are closed. *)
getMirror(c) ==
  LET remaining == Jobs - Used(mirrorMap) IN
  /\ hpc[c] = "get" /\ Up
  /\ \/ /\ remaining > 0
        /\ grant' = [grant EXCEPT ![c] = Granted(c, remaining)]
        /\ mirrorMap' = (mirrorMap \ SameKey(c)) \cup {c}
        /\ live' = live \cup {c}
        /\ hpc' = [hpc EXCEPT ![c] = "granted"]
        /\ UNCHANGED closed
     \/ /\ remaining <= 0
        /\ hpc' = [hpc EXCEPT ![c] = "refused"]
        /\ closed' = closed \cup {x[1] : x \in TakenBy(c)}
        /\ UNCHANGED mirrorVars
  /\ UNCHANGED <<master, nextConnectionId, pc, ids, arriving, pendingVars, took, stopVars, clash>>

Ended(c) == \E k \in {Rpc, Content} : took[c][k][1] \in closed

(* Mutant: serveRpc drops the mirror before it is shut down. *)
ShutdownLate(c) ==
  /\ c \in live /\ (Ended(c) \/ c \in waits) /\ Up
  /\ mirrorMap' = mirrorMap \ SameKey(c)
  /\ UNCHANGED <<live, grant, masterVars, arriving, pendingVars, hpc, took, stopVars, clash>>

(* Mirror.Shutdown, when a connection has ended or the worker stops: it    *)
(* ends once the tasks have, with the connections.                         *)
MirrorShutdown(c) ==
  /\ c \in live /\ (Ended(c) \/ c \in waits) /\ Up
  /\ live' = live \ {c}
  /\ closed' = closed \cup {took[c][k][1] : k \in {Rpc, Content}}
  /\ UNCHANGED <<mirrorMap, grant, master, nextConnectionId, pc, ids, arriving, pendingVars,
                 hpc, took, stopVars, clash>>

(* serveRpc then drops the mirror. *)
DropMirror(c) ==
  /\ hpc[c] = "granted" /\ c \notin live /\ SameKey(c) # {} /\ Up
  /\ mirrorMap' = mirrorMap \ SameKey(c)
  /\ UNCHANGED <<live, grant, masterVars, arriving, pendingVars, hpc, took, stopVars, clash>>

-----------------------------------------------------------------------------
(* Worker.shutdown and its goroutine.                                      *)
shutdown ==
  /\ stop = "no" /\ Up
  /\ accepting' = FALSE
  /\ stop' = "mirrors"
  /\ UNCHANGED <<waits, masterVars, arriving, pendingVars, hpc, took, mirrorVars, clash>>

mirrors ==
  /\ stop = "mirrors" /\ Up
  /\ waits' = mirrorMap
  /\ stop' = "wait"
  /\ UNCHANGED <<accepting, masterVars, arriving, pendingVars, hpc, took, mirrorVars, clash>>

(* Mutant: all mirrors have to be dropped. *)
ShutDownEmpty ==
  /\ stop = "wait" /\ mirrorMap = {} /\ Up
  /\ stop' = "sleep"
  /\ UNCHANGED <<mirrorVars, accepting, waits, masterVars, arriving, pendingVars, hpc,
                 took, clash>>

(* All mirrors of the list have shut down, and the map is replaced. *)
ShutDown ==
  /\ stop = "wait" /\ waits \cap live = {} /\ Up
  /\ mirrorMap' = {}
  /\ stop' = "sleep"
  /\ UNCHANGED <<live, grant, accepting, waits, masterVars, arriving, pendingVars, hpc,
                 took, clash>>

(* The listener is closed, the accept loop ends, and so does the worker. *)
Exit ==
  /\ stop = "sleep" /\ Up
  /\ stop' = "exit"
  /\ UNCHANGED <<accepting, waits, masterVars, arriving, pendingVars, hpc, took,
                 mirrorVars, clash>>

Handler(c) == CreateMirror(c) \/ WaitConnection(c) \/ Wake(c) \/ getMirror(c)

Next ==
  \/ \E c \in Call :
       \/ Dial(c) \/ Fail(c) \/ Return(c) \/ Close(c)
       \/ Handler(c) \/ MirrorShutdown(c) \/ DropMirror(c)
  \/ Accept
  \/ shutdown \/ mirrors \/ ShutDown \/ Exit

Spec == Init /\ [][Next]_vars

(* The accept loop, handlers, mirrors and shutdown's goroutine go on while *)
(* they can, and so do the masters: calls fail when the worker is gone.    *)
Progress ==
  \/ \E c \in Call :
       \/ Dial(c) \/ Return(c) \/ (~Up /\ Fail(c))
       \/ Handler(c) \/ MirrorShutdown(c) \/ DropMirror(c)
  \/ Accept
  \/ mirrors \/ ShutDown \/ Exit

FairSpec == Spec /\ WF_vars(Progress)

-----------------------------------------------------------------------------
CallState == {"dial", "call", "ok", "err"}
HandlerState == {"idle", "wait", "asleep", "woken", "stuck", "get", "granted", "refused"}

TypeOK ==
  /\ master \in [Call -> Master] /\ nextConnectionId \in [Master -> Nat]
  /\ pc \in [Call -> CallState] /\ hpc \in [Call -> HandlerState]
  /\ ids \in [Call -> Seq(Id)] /\ took \in [Call -> Seq(Conn)]
  /\ conns \in [Id -> SUBSET Conn] /\ \A i \in Id : Cardinality(conns[i]) <= 1
  /\ woke \in [Call -> SUBSET Conn]
  /\ arriving \subseteq Conn /\ Cardinality(arriving) <= 1
  /\ closed \subseteq Call
  /\ mirrorMap \cup live \cup waits \subseteq {c \in Call : hpc[c] = "granted"}
  /\ grant \in [Call -> 0 .. Jobs]
  /\ stop \in {"no", "mirrors", "wait", "sleep", "exit"}
  /\ accepting \in BOOLEAN /\ panicked \in BOOLEAN /\ clash \in BOOLEAN

(* The accept loop's panic, "accepted the same connection id twice", needs *)
(* a second connection under an id before the first one was taken: an id   *)
(* can be used again after that, as masters that each count from 0 do.     *)
PanicMeansClash == panicked => clash

(* A mirror has the connections of the call that asked for it, each in its *)
(* role, however the calls of one and of several masters interleave with   *)
(* the accept loop.                                                        *)
OwnConnections ==
  clash \/ \A c \in Call : \A k \in DOMAIN took[c] : took[c][k] = <<c, k>>

(* A mirror that can run tasks is counted against the worker's jobs, from  *)
(* getMirror to DropMirror, and they are never promised twice; until the   *)
(* end of a shutdown, which forgets the mirrors made after it listed them. *)
SlotsCounted ==
  clash \/ stop \in {"sleep", "exit"} \/ (live \subseteq mirrorMap /\ Used(mirrorMap) <= Jobs)

(* A call of createMirror returns, with a mirror or an error, also when    *)
(* the worker shuts down meanwhile: no handler waits for a connection that *)
(* has come or does not come.                                              *)
SetupReturns ==
  <>[](clash \/ \A c \in Call : pc[c] \in {"ok", "err"})

(* The worker's shutdown ends, whatever mirrors are made and dropped       *)
(* meanwhile: none that has begun goes on for ever.                        *)
ShutdownExits == <>[](stop = "no" \/ ~Up)
=============================================================================
