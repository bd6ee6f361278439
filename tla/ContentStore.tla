---------------------------- MODULE ContentStore ----------------------------
(***************************************************************************)
(* How contents get from one side to the other (cba): goroutines of a      *)
(* store fetch files by their hash, chunk by chunk, over connections to    *)
(* the other side's store.  A worker fetches its input with FetchOnce, a   *)
(* master the results of tasks with Fetch.                                 *)
(*                                                                         *)
(* A server keeps the sequences of chunks it has begun to serve under hash *)
(* and offset, so that fetches of the same hash on a connection may take   *)
(* each other's.  Hashes do not collide: the hash of a content is the      *)
(* content itself.                                                         *)
(***************************************************************************)
EXTENDS Integers, Sequences, FiniteSets

CONSTANTS
  Content,     \* contents of files, sequences of bytes
  ServeSize,   \* bytes in a chunk: defaultServeSize, splice.DefaultPipeSize
  Thread,      \* goroutines that fetch, each one file
  Conn, NoConn

ASSUME ServeAssumption ==
  /\ ServeSize \in Nat \ {0}
  /\ \A h \in Content : h \in Seq(Nat)
  /\ NoConn \notin Conn /\ IsFiniteSet(Thread)

VARIABLES
  once,      \* the callers use FetchOnce
  source,    \* contents in the store that serves
  store,     \* and in the store that fetches
  up,        \* is the connection there?
  fetching,  \* Client.fetching
  pending,   \* spliceServer.pending: how far each sequence has been read
  pc, conn, want,
  output,    \* of fetch: what has been written to the temporary file
  seq,       \* of serve: the sequence taken from pending
  fatal      \* the process has ended in log.Fatal

vars == <<once, source, store, up, fetching, pending, pc, conn, want, output, seq, fatal>>
clientVars == <<once, source, up, conn, want>>

Key == UNION {{h} \X (0 .. Len(h)) : h \in Content}   \* a hash, and an offset in its file
NonePending == [k \in Key |-> <<>>]

Init ==
  /\ once \in BOOLEAN
  /\ source = {} /\ store = {} /\ fatal = FALSE
  /\ up = [c \in Conn |-> TRUE]
  /\ fetching = [c \in Conn |-> {}]
  /\ pending = [c \in Conn |-> NonePending]
  /\ pc = [t \in Thread |-> "idle"]
  /\ conn = [t \in Thread |-> NoConn]
  /\ want = [t \in Thread |-> <<>>]
  /\ output = [t \in Thread |-> <<>>]
  /\ seq = [t \in Thread |-> 0]

Has(h) == h \in store

(* A temporary file is written, and renamed to its hash when it is closed. *)
HashWriter(data) == store \cup {data}

-----------------------------------------------------------------------------
(* A file is saved, and its hash told to the other side. *)
SavePath(h) ==
  /\ h \notin source
  /\ source' = source \cup {h}
  /\ UNCHANGED <<once, store, up, fetching, pending, pc, conn, want, output, seq, fatal>>

(* The side that fetches saves a file of its own. *)
DestructiveSavePath(h) ==
  /\ ~Has(h)
  /\ store' = store \cup {h}
  /\ UNCHANGED <<once, source, up, fetching, pending, pc, conn, want, output, seq, fatal>>

-----------------------------------------------------------------------------
(* The client. *)
Busy == {t \in Thread : pc[t] \notin {"idle", "got", "failed"}}

(* Mutant: the fetch is not marked. *)
ClaimUnmarked(t, c, h) ==
  /\ pc' = [pc EXCEPT ![t] = IF Has(h) THEN "got" ELSE "call"]
  /\ UNCHANGED fetching

(* FetchOnce up to its Fetch, under the mutex. *)
Claim(t, c, h) ==
  \/ /\ Has(h)
     /\ pc' = [pc EXCEPT ![t] = "got"]
     /\ UNCHANGED fetching
  \/ /\ ~Has(h) /\ h \in fetching[c]
     /\ pc' = [pc EXCEPT ![t] = "waiting"]
     /\ UNCHANGED fetching
  \/ /\ ~Has(h) /\ h \notin fetching[c]
     /\ pc' = [pc EXCEPT ![t] = "call"]
     /\ fetching' = [fetching EXCEPT ![c] = @ \cup {h}]

Begin(t, c, h) ==
  /\ pc[t] = "idle" /\ h \in source
  /\ conn' = [conn EXCEPT ![t] = c]
  /\ want' = [want EXCEPT ![t] = h]
  /\ UNCHANGED <<once, source, store, up, pending, output, seq, fatal>>

FetchOnce(t, c, h) == once /\ Begin(t, c, h) /\ Claim(t, c, h)

(* replay fetches what the master's store does not have. *)
Fetch(t, c, h) ==
  /\ ~once /\ Begin(t, c, h)
  /\ pc' = [pc EXCEPT ![t] = IF Has(h) THEN "got" ELSE "call"]
  /\ UNCHANGED fetching

Woken(t) ==
  /\ pc[t] = "woken"
  /\ Claim(t, conn[t], want[t])
  /\ UNCHANGED <<clientVars, store, pending, output, seq, fatal>>

(* The last chunk has come: the file gets its name, its hash, which has to *)
(* be the one that was asked for.                                          *)
Close(t) ==
  /\ pc[t] = "close"
  /\ store' = HashWriter(output[t])
  /\ fatal' = (fatal \/ output[t] # want[t])
  /\ pc' = [pc EXCEPT ![t] = "endGot"]
  /\ UNCHANGED <<clientVars, fetching, pending, output, seq>>

(* A call fails.  What had come is saved, under a hash of its own. *)
CallFails(t) ==
  /\ pc[t] \in {"call", "take", "read"} /\ ~up[conn[t]]
  /\ store' = IF output[t] = <<>> THEN store ELSE HashWriter(output[t])
  /\ pc' = [pc EXCEPT ![t] = "endFailed"]
  /\ UNCHANGED <<clientVars, fetching, pending, output, seq, fatal>>

Wakes(t, u) == once /\ pc[u] = "waiting" /\ conn[u] = conn[t]

(* Mutant: a fetch that failed tells nobody. *)
EndQuiet(t) ==
  /\ pc[t] \in {"endGot", "endFailed"}
  /\ fetching' = [fetching EXCEPT ![conn[t]] = @ \ {want[t]}]
  /\ pc' = [u \in Thread |-> IF u = t THEN (IF pc[t] = "endGot" THEN "got" ELSE "failed")
                             ELSE IF Wakes(t, u) /\ pc[t] = "endGot" THEN "woken" ELSE pc[u]]
  /\ UNCHANGED <<clientVars, store, pending, output, seq, fatal>>

(* FetchOnce after its Fetch, under the mutex. *)
End(t) ==
  /\ pc[t] \in {"endGot", "endFailed"}
  /\ fetching' = [fetching EXCEPT ![conn[t]] = @ \ {want[t]}]
  /\ pc' = [u \in Thread |-> IF u = t THEN (IF pc[t] = "endGot" THEN "got" ELSE "failed")
                             ELSE IF Wakes(t, u) THEN "woken" ELSE pc[u]]
  /\ UNCHANGED <<clientVars, store, pending, output, seq, fatal>>

-----------------------------------------------------------------------------
(* The server: ServeChunk for the call of thread t, at offset Start(t).    *)
Start(t) == Len(output[t])

insert(h, off, pos, c) == [pending EXCEPT ![c][<<h, off>>] = Append(@, pos)]

newSpliceSequence(h) == h \in source   \* can the file be opened?

(* prepareServe; a hash that is not there ends the client. *)
prepareServe(t) ==
  /\ pc[t] = "call" /\ up[conn[t]]
  /\ IF newSpliceSequence(want[t])
     THEN /\ pending' = insert(want[t], 0, 0, conn[t])
          /\ pc' = [pc EXCEPT ![t] = "take"]
          /\ UNCHANGED fatal
     ELSE fatal' = TRUE /\ UNCHANGED <<pending, pc>>
  /\ UNCHANGED <<clientVars, store, fetching, output, seq>>

(* A chunk, and is it the last one? *)
Chunk(h, pos) ==
  SubSeq(h, pos + 1, IF pos + ServeSize < Len(h) THEN pos + ServeSize ELSE Len(h))

(* Mutant: a full chunk counts as the last one. *)
IsLastEarly(data) == Len(data) <= ServeSize

IsLast(data) == Len(data) < ServeSize

Deliver(t, data) ==
  /\ output' = [output EXCEPT ![t] = @ \o data]
  /\ pc' = [pc EXCEPT ![t] = IF IsLast(data) THEN "close" ELSE "take"]

(* remove; without a sequence the chunk is read from the file. *)
remove(t) ==
  LET k == <<want[t], Start(t)>>
      p == pending[conn[t]][k] IN
  /\ pc[t] = "take" /\ up[conn[t]]
  /\ \/ /\ p # <<>>
        /\ pending' = [pending EXCEPT ![conn[t]][k] = SubSeq(p, 1, Len(p) - 1)]
        /\ seq' = [seq EXCEPT ![t] = p[Len(p)]]
        /\ pc' = [pc EXCEPT ![t] = "read"]
        /\ UNCHANGED output
     \/ /\ p = <<>>
        /\ Deliver(t, Chunk(want[t], Start(t)))
        /\ UNCHANGED <<pending, seq>>
  /\ UNCHANGED <<clientVars, store, fetching, fatal>>

(* Mutant: the sequence is kept after its last chunk. *)
serveKeeps(t) ==
  LET data == Chunk(want[t], seq[t]) IN
  /\ pc[t] = "read" /\ up[conn[t]]
  /\ Deliver(t, data)
  /\ pending' = insert(want[t], Start(t) + Len(data), seq[t] + Len(data), conn[t])
  /\ UNCHANGED <<clientVars, store, fetching, seq, fatal>>

(* The next chunk of the sequence goes to the client, and the sequence     *)
(* waits under the offset that follows.                                    *)
serve(t) ==
  LET data == Chunk(want[t], seq[t]) IN
  /\ pc[t] = "read" /\ up[conn[t]]
  /\ Deliver(t, data)
  /\ pending' = IF IsLast(data) THEN pending
                ELSE insert(want[t], Start(t) + Len(data), seq[t] + Len(data), conn[t])
  /\ UNCHANGED <<clientVars, store, fetching, seq, fatal>>

(* The connection breaks, and the server on it is closed. *)
Lose(c) ==
  /\ up[c]
  /\ up' = [up EXCEPT ![c] = FALSE]
  /\ pending' = [pending EXCEPT ![c] = NonePending]
  /\ UNCHANGED <<once, source, store, fetching, pc, conn, want, output, seq, fatal>>

(* A new connection, when nobody uses the old one. *)
Connect(c) ==
  /\ ~up[c] /\ \A t \in Busy : conn[t] # c
  /\ up' = [up EXCEPT ![c] = TRUE]
  /\ UNCHANGED <<once, source, store, fetching, pending, pc, conn, want, output, seq, fatal>>

Step(t) ==
  \/ Woken(t) \/ prepareServe(t) \/ remove(t) \/ serve(t)
  \/ Close(t) \/ CallFails(t) \/ End(t)

Next ==
  \/ \E t \in Thread : Step(t)
  \/ \E t \in Thread, c \in Conn, h \in Content : FetchOnce(t, c, h) \/ Fetch(t, c, h)
  \/ \E h \in Content : SavePath(h) \/ DestructiveSavePath(h)
  \/ \E c \in Conn : Lose(c) \/ Connect(c)

Spec == Init /\ [][~fatal /\ Next]_vars

(* Goroutines and RPCs go on; nobody has to start a fetch. *)
FairSpec == Spec /\ \A t \in Thread : WF_vars(~fatal /\ Step(t))

-----------------------------------------------------------------------------
Place == {"idle", "waiting", "woken", "call", "take", "read", "close",
          "endGot", "endFailed", "got", "failed"}

Beginning(x) == \E h \in Content : \E n \in 0 .. Len(h) : x = SubSeq(h, 1, n)

TypeOK ==
  /\ once \in BOOLEAN /\ fatal \in BOOLEAN
  /\ source \subseteq Content
  /\ \A x \in store : Beginning(x)
  /\ up \in [Conn -> BOOLEAN]
  /\ fetching \in [Conn -> SUBSET Content]
  /\ pending \in [Conn -> [Key -> Seq(Nat)]]
  /\ pc \in [Thread -> Place]
  /\ conn \in [Thread -> Conn \cup {NoConn}]
  /\ want \in [Thread -> Content \cup {<<>>}]
  /\ output \in [Thread -> Seq(Nat)]
  /\ seq \in [Thread -> Nat]

Fetching(t) == pc[t] \in {"call", "take", "read", "close", "endGot", "endFailed"}

(* "file corruption": what a fetch has put together from the chunks of     *)
(* sequences that other fetches may have opened, also of a length that is  *)
(* a multiple of the chunk size, is the file that was asked for, and a     *)
(* file whose hash was told is there.                                      *)
NoCorruption == ~fatal

(* "makes sure only one fetch is done, if concurrent fetches for the same  *)
(* file happen": never two on a connection, failures and wake-ups included.*)
FetchedOnce ==
  once => \A t, u \in Thread :
    t # u /\ Fetching(t) /\ Fetching(u) /\ conn[t] = conn[u] => want[t] # want[u]

(* While the connection is there, every fetch that has begun has one       *)
(* sequence, held or waiting under the offset the fetch is at, and none is *)
(* left over when it ends: each has an open file and a goroutine.          *)
OneSequencePerFetch ==
  \A c \in Conn, k \in Key :
    up[c] => Len(pending[c][k]) =
      Cardinality({t \in Thread : conn[t] = c /\ pc[t] = "take" /\ k = <<want[t], Start(t)>>})

(* A fetch returns, also when it waits for another one that fails.         *)
FetchReturns ==
  \A t \in Thread : pc[t] = "waiting" \/ Fetching(t) ~> pc[t] \in {"got", "failed"} \/ fatal
=============================================================================
