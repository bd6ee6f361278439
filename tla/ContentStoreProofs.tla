------------------------- MODULE ContentStoreProofs -------------------------
(***************************************************************************)
(* Proofs about ContentStore, for any contents, chunk size, goroutines and *)
(* connections.                                                            *)
(*                                                                         *)
(* A fetch ends with the file that was asked for because what it holds is  *)
(* always the beginning of that file (OutputInv), and because a sequence   *)
(* waits under the offset it has been read to (SequenceInv), so that a     *)
(* fetch that takes another's sequence goes on where it is itself.  Both,  *)
(* with the types, are CorruptionInv, on which the other two rest.         *)
(***************************************************************************)
EXTENDS ContentStore, SequenceTheorems, FiniteSetTheorems, TLAPS

(* A fetch is for a file that is there; what it has is the file up to      *)
(* where it is.                                                            *)
OutputInv ==
  \A t \in Thread :
    /\ pc[t] # "idle" => conn[t] \in Conn /\ want[t] \in source
    /\ pc[t] \in {"idle", "waiting", "woken", "call"} => output[t] = <<>>
    /\ pc[t] \in {"take", "read"} =>
         /\ Start(t) \in 0 .. Len(want[t])
         /\ output[t] = SubSeq(want[t], 1, Start(t))
    /\ pc[t] = "read" => seq[t] = Start(t)
    /\ pc[t] = "close" => output[t] = want[t]

(* A sequence waits under the offset it has been read to. *)
SequenceInv ==
  \A c \in Conn, k \in Key : \A i \in 1 .. Len(pending[c][k]) : pending[c][k][i] = k[2]

CorruptionInv == TypeOK /\ OutputInv /\ SequenceInv /\ ~fatal

(* A chunk read at the end of what has come makes it the file up to the    *)
(* end of the chunk, and the whole file when it is the last one.           *)
LEMMA ChunkFacts ==
  ASSUME NEW h \in Content, NEW pos \in 0 .. Len(h)
  PROVE  LET data == Chunk(h, pos) IN
         /\ h \in Seq(Nat) /\ data \in Seq(Nat)
         /\ pos + Len(data) \in 0 .. Len(h)
         /\ SubSeq(h, 1, pos) \o data = SubSeq(h, 1, pos + Len(data))
         /\ IsLast(data) => SubSeq(h, 1, pos) \o data = h
<1> DEFINE end == IF pos + ServeSize < Len(h) THEN pos + ServeSize ELSE Len(h)
<1>1. h \in Seq(Nat) /\ Len(h) \in Nat /\ ServeSize \in Nat \ {0}
  BY ServeAssumption
<1>2. end = pos + ServeSize \/ end = Len(h)
  BY <1>1, Zenon
<1>3. end \in pos .. Len(h)
  BY <1>1
<1> HIDE DEF end
<1>4. Chunk(h, pos) \in Seq(Nat) /\ Len(Chunk(h, pos)) = end - pos
  <2>1. \A i \in (pos + 1) .. end : h[i] \in Nat
    BY <1>1, <1>3
  <2>2. pos + 1 \in Int /\ end \in Int
    BY <1>1, <1>3
  <2>3. /\ SubSeq(h, pos + 1, end) \in Seq(Nat)
        /\ Len(SubSeq(h, pos + 1, end)) = IF pos + 1 <= end THEN end - (pos + 1) + 1 ELSE 0
    BY <2>1, <2>2, SubSeqProperties, Zenon
  <2>4. Chunk(h, pos) = SubSeq(h, pos + 1, end)
    BY Zenon DEF Chunk, end
  <2> QED
    BY <1>1, <1>3, <2>3, <2>4
<1>5. SubSeq(h, 1, pos) \o Chunk(h, pos) = SubSeq(h, 1, end)
  <2>1. 1 \in 1 .. Len(h) + 1 /\ pos \in 1 - 1 .. Len(h) /\ end \in pos .. Len(h)
    BY <1>1, <1>3
  <2> QED
    BY <1>1, <2>1, ConcatAdjacentSubSeq, Zenon DEF Chunk, end
<1>6. IsLast(Chunk(h, pos)) => end = Len(h)
  BY <1>1, <1>2, <1>4 DEF IsLast
<1>7. pos + Len(Chunk(h, pos)) = end /\ end \in 0 .. Len(h)
  BY <1>1, <1>3, <1>4
<1>8. SubSeq(h, 1, Len(h)) = h
  BY <1>1, SubSeqFull, Zenon
<1> QED
  BY <1>1, <1>4, <1>5, <1>6, <1>7, <1>8, Zenon

(* The first step of a fetch. *)
LEMMA ClaimInv ==
  ASSUME CorruptionInv, NEW t \in Thread, NEW c \in Conn, NEW w \in source, Claim(t, c, w),
         pc[t] \in {"idle", "woken"},
         conn' = [conn EXCEPT ![t] = c], want' = [want EXCEPT ![t] = w],
         UNCHANGED <<once, source, store, up, pending, output, seq, fatal>>
  PROVE  CorruptionInv'
<1>1. w \in Content /\ output[t] = <<>>
  BY Zenon DEF CorruptionInv, TypeOK, OutputInv
<1>2. PICK r \in {"got", "waiting", "call"} : pc' = [pc EXCEPT ![t] = r]
  BY Zenon DEF Claim
<1>3. fetching' \in [Conn -> SUBSET Content]
  <2>1. fetching[c] \cup {w} \in SUBSET Content
    BY <1>1, Zenon DEF CorruptionInv, TypeOK
  <2>2. fetching' = fetching \/ fetching' = [fetching EXCEPT ![c] = fetching[c] \cup {w}]
    BY Zenon DEF Claim
  <2> QED
    BY <2>1, <2>2, Zenon DEF CorruptionInv, TypeOK
<1>4. TypeOK'
  BY <1>1, <1>2, <1>3, Zenon DEF CorruptionInv, TypeOK, Place
<1>5. OutputInv'
  BY <1>1, <1>2, Zenon DEF CorruptionInv, TypeOK, OutputInv, Start
<1> QED
  BY <1>4, <1>5, Zenon DEF CorruptionInv, SequenceInv

(* A chunk that continues what the fetch has makes the file up to the next *)
(* offset, or all of it when it is the last one.                           *)
LEMMA DeliverInv ==
  ASSUME TypeOK, OutputInv, NEW t \in Thread, pc[t] \in {"take", "read"},
         Deliver(t, Chunk(want[t], Start(t))),
         UNCHANGED <<source, conn, want, seq>>
  PROVE  /\ pc' \in [Thread -> Place]
         /\ output' \in [Thread -> Seq(Nat)]
         /\ OutputInv'
<1> DEFINE data == Chunk(want[t], Start(t))
<1>1. want[t] \in Content /\ Start(t) \in 0 .. Len(want[t])
  BY Zenon DEF TypeOK, OutputInv
<1>2. /\ data \in Seq(Nat) /\ Start(t) + Len(data) \in 0 .. Len(want[t])
      /\ SubSeq(want[t], 1, Start(t)) \o data = SubSeq(want[t], 1, Start(t) + Len(data))
      /\ IsLast(data) => SubSeq(want[t], 1, Start(t)) \o data = want[t]
  BY <1>1, ChunkFacts, Zenon
<1> HIDE DEF data
<1>3. output[t] \in Seq(Nat) /\ output[t] = SubSeq(want[t], 1, Start(t))
  BY Zenon DEF TypeOK, OutputInv
<1>4. /\ output[t] \o data \in Seq(Nat)
      /\ Len(output[t] \o data) = Start(t) + Len(data)
  BY <1>2, <1>3 DEF Start
<1>5. /\ output' = [output EXCEPT ![t] = output[t] \o data]
      /\ pc' = [pc EXCEPT ![t] = IF IsLast(data) THEN "close" ELSE "take"]
  BY Zenon DEF Deliver, data
<1>6. output' \in [Thread -> Seq(Nat)] /\ output'[t] = output[t] \o data
      /\ \A u \in Thread : u # t => output'[u] = output[u] /\ pc'[u] = pc[u]
  BY <1>4, <1>5, Zenon DEF TypeOK
<1>7. pc' \in [Thread -> Place]
      /\ pc'[t] = IF IsLast(data) THEN "close" ELSE "take"
  BY <1>5, Zenon DEF TypeOK, Place
<1>8. Start(t)' = Start(t) + Len(data)
  BY <1>4, <1>6, Zenon DEF Start
<1>9. OutputInv'
  <2> SUFFICES ASSUME NEW u \in Thread
               PROVE  /\ pc'[u] # "idle" => conn[u] \in Conn /\ want[u] \in source
                      /\ pc'[u] \in {"idle", "waiting", "woken", "call"} => output'[u] = <<>>
                      /\ pc'[u] \in {"take", "read"} =>
                           /\ Start(u)' \in 0 .. Len(want[u])
                           /\ output'[u] = SubSeq(want[u], 1, Start(u)')
                      /\ pc'[u] = "read" => seq[u] = Start(u)'
                      /\ pc'[u] = "close" => output'[u] = want[u]
    BY Zenon DEF OutputInv
  <2>1. CASE u = t
    BY <1>2, <1>3, <1>6, <1>7, <1>8, <2>1, Zenon DEF OutputInv
  <2>2. CASE u # t
    BY <1>6, <2>2, Zenon DEF OutputInv, Start
  <2> QED
    BY <2>1, <2>2, Zenon
<1> QED
  BY <1>6, <1>7, <1>9, Zenon

(* A fetch that only moves on, to r, keeps all of it. *)
LEMMA MoveInv ==
  ASSUME OutputInv, pc \in [Thread -> Place],
         NEW t \in Thread, NEW r \in {"take", "endGot", "endFailed", "got", "failed"},
         pc[t] # "idle",
         pc' = [pc EXCEPT ![t] = r], r = "take" => pc[t] = "call" /\ want[t] \in Seq(Nat),
         UNCHANGED <<source, conn, want, output, seq>>
  PROVE  OutputInv' /\ pc' \in [Thread -> Place]
<1>1. pc' \in [Thread -> Place]
  BY Zenon DEF Place
<1>2. pc'[t] = r /\ \A u \in Thread : u # t => pc'[u] = pc[u]
  BY Zenon
<1>3. \A u \in Thread : Start(u)' = Start(u)
  BY Zenon DEF Start
<1>4. r = "take" => /\ Start(t) \in 0 .. Len(want[t])
                    /\ output[t] = SubSeq(want[t], 1, Start(t))
  <2>1. ASSUME r = "take"
        PROVE  output[t] = <<>> /\ want[t] \in Seq(Nat)
    BY <2>1, Zenon DEF OutputInv
  <2>2. \A w \in Seq(Nat) : SubSeq(w, 1, 0) = <<>> /\ 0 \in 0 .. Len(w)
    BY SubSeqEmpty
  <2> QED
    BY <2>1, <2>2, Zenon DEF Start
<1> QED
  BY <1>1, <1>2, <1>3, <1>4 DEF OutputInv

(* The sequences under one key are replaced by p, each at its offset. *)
LEMMA ReplaceInv ==
  ASSUME pending \in [Conn -> [Key -> Seq(Nat)]], SequenceInv,
         NEW c \in Conn, NEW k \in Key, NEW p \in Seq(Nat),
         \A i \in 1 .. Len(p) : p[i] = k[2],
         pending' = [pending EXCEPT ![c][k] = p]
  PROVE  pending' \in [Conn -> [Key -> Seq(Nat)]] /\ SequenceInv'
<1>1. pending' \in [Conn -> [Key -> Seq(Nat)]]
  BY Zenon
<1>2. \A d \in Conn, j \in Key :
        pending'[d][j] = IF d = c /\ j = k THEN p ELSE pending[d][j]
  BY Zenon
<1>3. ASSUME NEW d \in Conn, NEW j \in Key, NEW i \in 1 .. Len(pending'[d][j])
      PROVE  pending'[d][j][i] = j[2]
  <2>1. CASE d = c /\ j = k
    <3>1. pending'[d][j] = p
      BY <1>2, <2>1, Zenon
    <3> QED
      BY <2>1, <3>1, <1>3, Zenon
  <2>2. CASE ~(d = c /\ j = k)
    <3>1. pending'[d][j] = pending[d][j]
      BY <1>2, <2>2, Zenon
    <3> QED
      BY <3>1, <1>3, Zenon DEF SequenceInv
  <2> QED
    BY <2>1, <2>2, Zenon
<1> QED
  BY <1>1, <1>3, Zenon DEF SequenceInv

(* Another entry at the same offset. *)
LEMMA AppendFacts ==
  ASSUME NEW q \in Seq(Nat), NEW off \in Nat, \A i \in 1 .. Len(q) : q[i] = off
  PROVE  /\ Append(q, off) \in Seq(Nat) /\ Len(Append(q, off)) = Len(q) + 1
         /\ \A i \in 1 .. Len(Append(q, off)) : Append(q, off)[i] = off
OBVIOUS

(* insert puts a sequence that has been read to off under off. *)
LEMMA InsertInv ==
  ASSUME pending \in [Conn -> [Key -> Seq(Nat)]], SequenceInv,
         NEW c \in Conn, NEW w, NEW off \in Nat, <<w, off>> \in Key,
         pending' = insert(w, off, off, c)
  PROVE  pending' \in [Conn -> [Key -> Seq(Nat)]] /\ SequenceInv'
<1> DEFINE k == <<w, off>>
           p == Append(pending[c][k], off)
<1>1. pending[c][k] \in Seq(Nat) /\ \A i \in 1 .. Len(pending[c][k]) : pending[c][k][i] = off
  BY Zenon DEF SequenceInv
<1>2. p \in Seq(Nat) /\ \A i \in 1 .. Len(p) : p[i] = off
  BY <1>1, AppendFacts, ZenonT(60)
<1>3. pending' = [pending EXCEPT ![c][k] = p]
  BY Zenon DEF insert
<1>4. k[2] = off
  BY Zenon
<1> HIDE DEF p, k
<1> QED
  BY <1>2, <1>3, <1>4, ReplaceInv, Zenon DEF k

front(p) == SubSeq(p, 1, Len(p) - 1)
last(p) == p[Len(p)]

(* Without its last entry a sequence is shorter by one. *)
LEMMA FrontFacts ==
  ASSUME NEW p \in Seq(Nat), p # <<>>
  PROVE  /\ front(p) \in Seq(Nat) /\ Len(front(p)) = Len(p) - 1 /\ Len(p) \in Nat \ {0}
         /\ \A i \in 1 .. Len(front(p)) : i \in 1 .. Len(p) /\ front(p)[i] = p[i]
<1>1. PICK n \in Nat \ {0} : n = Len(p)
  BY EmptySeq, Zenon
<1>2. /\ SubSeq(p, 1, n - 1) \in Seq(Nat)
      /\ Len(SubSeq(p, 1, n - 1)) = IF 1 <= n - 1 THEN n - 1 - 1 + 1 ELSE 0
      /\ \A i \in 1 .. n - 1 - 1 + 1 : SubSeq(p, 1, n - 1)[i] = p[1 + i - 1]
  <2>1. 1 \in Int /\ n - 1 \in Int /\ \A i \in 1 .. n - 1 : p[i] \in Nat
    BY <1>1
  <2> QED
    BY <2>1, SubSeqProperties
<1>3. PICK f \in Seq(Nat) : f = front(p)
  BY <1>1, <1>2, Zenon DEF front
<1>4. Len(f) = IF 1 <= n - 1 THEN n - 1 - 1 + 1 ELSE 0
  BY <1>1, <1>2, <1>3, Zenon DEF front
<1>5. Len(f) = n - 1
  BY <1>4
<1>6. \A i \in 1 .. n - 1 - 1 + 1 : f[i] = p[1 + i - 1]
  BY <1>1, <1>2, <1>3, Zenon DEF front
<1>7. \A i \in 1 .. n - 1 : i \in 1 .. n /\ f[i] = p[i]
  <2>1. \A i \in 1 .. n - 1 : i \in 1 .. n - 1 - 1 + 1 /\ 1 + i - 1 = i /\ i \in 1 .. n
    OBVIOUS
  <2> QED
    BY <1>6, <2>1, Zenon
<1> QED
  BY <1>1, <1>3, <1>5, <1>7, Zenon

(* prepareServe opens a sequence at the start of a file that is there. *)
LEMMA PrepareInv ==
  ASSUME CorruptionInv, NEW t \in Thread, prepareServe(t)
  PROVE  CorruptionInv'
<1>1. /\ conn[t] \in Conn /\ want[t] \in Content /\ want[t] \in source
      /\ want[t] \in Seq(Nat) /\ pc[t] \in {"call"}
  BY ServeAssumption, Zenon DEF CorruptionInv, TypeOK, OutputInv, prepareServe
<1>2. /\ pending' = insert(want[t], 0, 0, conn[t])
      /\ pc' = [pc EXCEPT ![t] = "take"] /\ UNCHANGED fatal
      /\ UNCHANGED <<once, source, up, conn, want, store, fetching, output, seq>>
  BY <1>1, Zenon DEF prepareServe, newSpliceSequence, clientVars
<1>3. <<want[t], 0>> \in Key
  BY <1>1 DEF Key
<1>4. pending' \in [Conn -> [Key -> Seq(Nat)]] /\ SequenceInv'
  BY <1>1, <1>2, <1>3, InsertInv, Zenon DEF CorruptionInv, TypeOK
<1>5. OutputInv' /\ pc' \in [Thread -> Place]
  BY <1>1, <1>2, MoveInv, Zenon DEF CorruptionInv, TypeOK
<1> QED
  BY <1>2, <1>4, <1>5, Zenon DEF CorruptionInv, TypeOK

(* remove takes a sequence that waits at the offset of the fetch. *)
LEMMA RemoveInv ==
  ASSUME CorruptionInv, NEW t \in Thread, remove(t)
  PROVE  CorruptionInv'
<1> DEFINE c == conn[t]
           k == <<want[t], Start(t)>>
           p == pending[c][k]
<1>1. /\ c \in Conn /\ want[t] \in Content /\ Start(t) \in 0 .. Len(want[t])
      /\ pc[t] = "take"
  BY Zenon DEF CorruptionInv, TypeOK, OutputInv, remove
<1>2. k \in Key
  BY <1>1 DEF Key
<1>3. p \in Seq(Nat)
  BY <1>1, <1>2, Zenon DEF CorruptionInv, TypeOK
<1>4. UNCHANGED <<once, source, up, conn, want, store, fetching, fatal>>
  BY Zenon DEF remove, clientVars
<1>5. CASE p # <<>>
  <2>1. /\ pending' = [pending EXCEPT ![c][k] = front(p)]
        /\ seq' = [seq EXCEPT ![t] = last(p)]
        /\ pc' = [pc EXCEPT ![t] = "read"]
        /\ UNCHANGED output
    BY <1>5, Zenon DEF remove, front, last
  <2>2. /\ front(p) \in Seq(Nat) /\ Len(front(p)) = Len(p) - 1 /\ Len(p) \in Nat \ {0}
        /\ \A i \in 1 .. Len(front(p)) : i \in 1 .. Len(p) /\ front(p)[i] = p[i]
    BY <1>3, <1>5, FrontFacts, Zenon
  <2>3. last(p) = Start(t) /\ last(p) \in Nat
    <3>1. \A i \in 1 .. Len(p) : p[i] = Start(t)
      BY <1>1, <1>2, Zenon DEF CorruptionInv, SequenceInv
    <3>2. Len(p) \in 1 .. Len(p) /\ Start(t) \in Nat
      BY <1>1, <2>2
    <3> QED
      BY <3>1, <3>2, Zenon DEF last
  <2>4. pending' \in [Conn -> [Key -> Seq(Nat)]] /\ SequenceInv'
    <3>1. \A i \in 1 .. Len(front(p)) : front(p)[i] = k[2]
      BY <1>1, <1>2, <2>2, ZenonT(60) DEF CorruptionInv, SequenceInv
    <3> QED
      BY <1>1, <1>2, <2>1, <2>2, <3>1, ReplaceInv, Zenon DEF CorruptionInv, TypeOK
  <2>5. pc' \in [Thread -> Place] /\ seq' \in [Thread -> Nat]
    BY <2>1, <2>3, Zenon DEF CorruptionInv, TypeOK, Place
  <2>6. OutputInv'
    BY <1>1, <1>4, <2>1, <2>3, Zenon DEF CorruptionInv, TypeOK, OutputInv, Start
  <2> QED
    BY <1>4, <2>1, <2>4, <2>5, <2>6, Zenon DEF CorruptionInv, TypeOK
<1>6. CASE p = <<>>
  <2>1. Deliver(t, Chunk(want[t], Start(t))) /\ UNCHANGED <<pending, seq>>
    BY <1>6, Zenon DEF remove
  <2>2. pc' \in [Thread -> Place] /\ output' \in [Thread -> Seq(Nat)] /\ OutputInv'
    BY <1>1, <1>4, <2>1, DeliverInv, Zenon DEF CorruptionInv
  <2> QED
    BY <1>4, <2>1, <2>2, Zenon DEF CorruptionInv, TypeOK, SequenceInv
<1> QED
  BY <1>5, <1>6, Zenon

(* serve sends the next chunk and puts the sequence under the offset after *)
(* it.                                                                     *)
LEMMA ServeInv ==
  ASSUME CorruptionInv, NEW t \in Thread, serve(t)
  PROVE  CorruptionInv'
<1> DEFINE c == conn[t]
           data == Chunk(want[t], Start(t))
<1>1. /\ c \in Conn /\ want[t] \in Content /\ Start(t) \in 0 .. Len(want[t])
      /\ pc[t] = "read" /\ seq[t] = Start(t)
  BY Zenon DEF CorruptionInv, TypeOK, OutputInv, serve
<1>2. UNCHANGED <<once, source, up, conn, want, store, fetching, seq, fatal>>
  BY Zenon DEF serve, clientVars
<1>3. /\ Deliver(t, data)
      /\ \/ UNCHANGED pending
         \/ pending' = insert(want[t], Start(t) + Len(data), Start(t) + Len(data), c)
  BY <1>1, Zenon DEF serve
<1>4. pc' \in [Thread -> Place] /\ output' \in [Thread -> Seq(Nat)] /\ OutputInv'
  BY <1>1, <1>2, <1>3, DeliverInv, Zenon DEF CorruptionInv
<1>5. Start(t) + Len(data) \in 0 .. Len(want[t])
  BY <1>1, ChunkFacts, Zenon
<1>6. <<want[t], Start(t) + Len(data)>> \in Key /\ Start(t) + Len(data) \in Nat
  BY <1>1, <1>5 DEF Key
<1>7. pending' \in [Conn -> [Key -> Seq(Nat)]] /\ SequenceInv'
  <2>1. CASE UNCHANGED pending
    BY <2>1, Zenon DEF CorruptionInv, TypeOK, SequenceInv
  <2>2. CASE pending' = insert(want[t], Start(t) + Len(data), Start(t) + Len(data), c)
    BY <1>1, <1>6, <2>2, InsertInv, Zenon DEF CorruptionInv, TypeOK
  <2> QED
    BY <1>3, <2>1, <2>2, Zenon
<1> QED
  BY <1>2, <1>4, <1>7, Zenon DEF CorruptionInv, TypeOK

(* A file goes to the store: what it holds begins one of the contents. *)
LEMMA StoreInv ==
  ASSUME CorruptionInv, NEW t \in Thread, pc[t] \in {"take", "read", "close"}
  PROVE  \A x \in store \cup {output[t]} : Beginning(x)
<1>1. \A x \in store : Beginning(x)
  BY Zenon DEF CorruptionInv, TypeOK
<1>2. want[t] \in Content
  BY Zenon DEF CorruptionInv, TypeOK, OutputInv
<1>3. want[t] \in Seq(Nat)
  BY <1>2, ServeAssumption, Zenon
<1>4. Len(output[t]) \in 0 .. Len(want[t]) /\ output[t] = SubSeq(want[t], 1, Len(output[t]))
  <2>1. CASE pc[t] = "close"
    BY <1>3, <2>1, SubSeqFull DEF CorruptionInv, OutputInv
  <2>2. CASE pc[t] \in {"take", "read"}
    BY <2>2, Zenon DEF CorruptionInv, OutputInv, Start
  <2> QED
    BY <2>1, <2>2, Zenon
<1> QED
  BY <1>1, <1>2, <1>4, Zenon DEF Beginning

(* Every step of either side keeps what fetches have in order. *)
LEMMA CorruptionStep == CorruptionInv /\ [~fatal /\ Next]_vars => CorruptionInv'
<1> SUFFICES ASSUME CorruptionInv, [~fatal /\ Next]_vars
             PROVE  CorruptionInv'
  BY Zenon
<1>1. ASSUME NEW t \in Thread, Woken(t)
      PROVE  CorruptionInv'
  <2>1. conn[t] \in Conn /\ want[t] \in source /\ pc[t] \in {"idle", "woken"}
    BY <1>1, Zenon DEF Woken, CorruptionInv, OutputInv
  <2>2. /\ UNCHANGED <<once, source, store, up, pending, output, seq, fatal>>
        /\ Claim(t, conn[t], want[t]) /\ UNCHANGED <<conn, want>>
    BY <1>1, Zenon DEF Woken, clientVars
  <2>3. conn' = [conn EXCEPT ![t] = conn[t]] /\ want' = [want EXCEPT ![t] = want[t]]
    BY <2>2, Zenon DEF CorruptionInv, TypeOK
  <2> QED
    BY <2>1, <2>2, <2>3, ClaimInv, Zenon
<1>2. ASSUME NEW t \in Thread, Close(t)
      PROVE  CorruptionInv'
  <2>1. pc[t] = "close" /\ output[t] = want[t]
    BY <1>2, Zenon DEF Close, CorruptionInv, OutputInv
  <2>2. /\ store' = store \cup {output[t]} /\ ~fatal'
        /\ pc' = [pc EXCEPT ![t] = "endGot"]
        /\ UNCHANGED <<once, source, up, conn, want, fetching, pending, output, seq>>
    BY <1>2, <2>1, Zenon DEF Close, HashWriter, clientVars, CorruptionInv
  <2>3. OutputInv' /\ pc' \in [Thread -> Place]
    BY <2>1, <2>2, MoveInv, Zenon DEF CorruptionInv, TypeOK
  <2>4. \A x \in store' : Beginning(x)
    BY <2>1, <2>2, StoreInv, Zenon
  <2>5. fatal' \in BOOLEAN
    BY <1>2, Zenon DEF Close
  <2> QED
    BY <2>2, <2>3, <2>4, <2>5 DEF CorruptionInv, TypeOK, SequenceInv
<1>3. ASSUME NEW t \in Thread, CallFails(t)
      PROVE  CorruptionInv'
  <2>1. /\ pc[t] \in {"call", "take", "read"} /\ store' \in {store, store \cup {output[t]}}
        /\ output[t] # <<>> \/ store' = store
        /\ pc' = [pc EXCEPT ![t] = "endFailed"]
        /\ UNCHANGED <<once, source, up, conn, want, fetching, pending, output, seq, fatal>>
    <3>1. /\ pc[t] \in {"call", "take", "read"} /\ pc' = [pc EXCEPT ![t] = "endFailed"]
          /\ UNCHANGED <<once, source, up, conn, want, fetching, pending, output, seq, fatal>>
      BY <1>3, Zenon DEF CallFails, clientVars
    <3>2. CASE output[t] = <<>>
      BY <1>3, <3>1, <3>2, Zenon DEF CallFails
    <3>3. CASE output[t] # <<>>
      BY <1>3, <3>1, <3>3, Zenon DEF CallFails, HashWriter
    <3> QED
      BY <3>2, <3>3, Zenon
  <2>2. OutputInv' /\ pc' \in [Thread -> Place]
    BY <2>1, MoveInv, Zenon DEF CorruptionInv, TypeOK
  <2>3. \A x \in store' : Beginning(x)
    <3>1. CASE store' = store
      BY <3>1, Zenon DEF CorruptionInv, TypeOK
    <3>2. CASE store' = store \cup {output[t]} /\ output[t] # <<>>
      <4>1. pc[t] \in {"take", "read", "close"}
        BY <2>1, <3>2, Zenon DEF CorruptionInv, OutputInv
      <4> QED
        BY <3>2, <4>1, StoreInv, Zenon
    <3> QED
      BY <2>1, <3>1, <3>2, Zenon
  <2> QED
    BY <2>1, <2>2, <2>3 DEF CorruptionInv, TypeOK, SequenceInv
<1>4. ASSUME NEW t \in Thread, End(t)
      PROVE  CorruptionInv'
  <2>1. /\ pc[t] \in {"endGot", "endFailed"}
        /\ fetching' = [fetching EXCEPT ![conn[t]] = fetching[conn[t]] \ {want[t]}]
        /\ UNCHANGED <<once, source, up, conn, want, store, pending, output, seq, fatal>>
    BY <1>4, Zenon DEF End, clientVars
  <2>2. pc' = [u \in Thread |-> IF u = t THEN (IF pc[t] = "endGot" THEN "got" ELSE "failed")
                                ELSE IF Wakes(t, u) THEN "woken" ELSE pc[u]]
    BY <1>4, Zenon DEF End
  <2>3. fetching' \in [Conn -> SUBSET Content]
    BY <2>1, Zenon DEF CorruptionInv, TypeOK
  <2>4. pc' \in [Thread -> Place]
    BY <2>2, Zenon DEF CorruptionInv, TypeOK, Place
  <2>5. pc'[t] \in {"got", "failed"}
    BY <2>2, Zenon
  <2>6. \A u \in Thread : u # t =>
          pc'[u] = pc[u] \/ (pc[u] = "waiting" /\ pc'[u] = "woken")
    BY <2>2, Zenon DEF Wakes
  <2>7. OutputInv'
    BY <2>1, <2>5, <2>6 DEF CorruptionInv, OutputInv, Start
  <2> QED
    BY <2>1, <2>3, <2>4, <2>7 DEF CorruptionInv, TypeOK, SequenceInv
<1>5. ASSUME NEW t \in Thread, NEW c \in Conn, NEW w \in Content, Begin(t, c, w), Claim(t, c, w)
      PROVE  CorruptionInv'
  BY <1>5, ClaimInv, Zenon DEF Begin
<1>6. ASSUME NEW t \in Thread, NEW c \in Conn, NEW w \in Content, Fetch(t, c, w)
      PROVE  CorruptionInv'
  <2>1. /\ pc[t] = "idle" /\ w \in source
        /\ conn' = [conn EXCEPT ![t] = c] /\ want' = [want EXCEPT ![t] = w]
        /\ UNCHANGED <<once, source, store, up, fetching, pending, output, seq, fatal>>
    BY <1>6, Zenon DEF Fetch, Begin
  <2>2. PICK r \in {"got", "call"} : pc' = [pc EXCEPT ![t] = r]
    BY <1>6, ZenonT(60) DEF Fetch
  <2>3. OutputInv'
    BY <2>1, <2>2, Zenon DEF CorruptionInv, TypeOK, OutputInv, Start
  <2> QED
    BY <2>1, <2>2, <2>3, Zenon DEF CorruptionInv, TypeOK, SequenceInv, Place
<1>7. ASSUME NEW w \in Content, SavePath(w) \/ DestructiveSavePath(w)
      PROVE  CorruptionInv'
  <2>1. /\ source' \in {source, source \cup {w}} /\ store' \in {store, store \cup {w}}
        /\ UNCHANGED <<once, up, fetching, pending, pc, conn, want, output, seq, fatal>>
    BY <1>7, Zenon DEF SavePath, DestructiveSavePath
  <2>2. Beginning(w)
    BY ServeAssumption, SubSeqFull DEF Beginning
  <2>3. \A x \in store' : Beginning(x)
    BY <2>1, <2>2 DEF CorruptionInv, TypeOK
  <2>4. OutputInv'
    BY <2>1, Zenon DEF CorruptionInv, OutputInv, Start
  <2> QED
    BY <2>1, <2>3, <2>4, Zenon DEF CorruptionInv, TypeOK, SequenceInv
<1>8. ASSUME NEW c \in Conn, Lose(c)
      PROVE  CorruptionInv'
  <2>1. /\ pending' = [pending EXCEPT ![c] = NonePending] /\ up' = [up EXCEPT ![c] = FALSE]
        /\ UNCHANGED <<once, source, store, fetching, pc, conn, want, output, seq, fatal>>
    BY <1>8, Zenon DEF Lose
  <2>2. NonePending \in [Key -> Seq(Nat)] /\ \A k \in Key : Len(NonePending[k]) = 0
    BY DEF NonePending
  <2>3. pending' \in [Conn -> [Key -> Seq(Nat)]] /\ up' \in [Conn -> BOOLEAN]
    BY <2>1, <2>2, Zenon DEF CorruptionInv, TypeOK
  <2>4. \A d \in Conn : pending'[d] = IF d = c THEN NonePending ELSE pending[d]
    BY <2>1, Zenon DEF CorruptionInv, TypeOK
  <2>5. SequenceInv'
    BY <2>2, <2>4 DEF CorruptionInv, SequenceInv
  <2> QED
    BY <2>1, <2>3, <2>5, Zenon DEF CorruptionInv, TypeOK, OutputInv, Start
<1>9. ASSUME NEW c \in Conn, Connect(c)
      PROVE  CorruptionInv'
  BY <1>9 DEF Connect, CorruptionInv, TypeOK, OutputInv, SequenceInv, Start
<1>10. CASE UNCHANGED vars
  BY <1>10 DEF vars, CorruptionInv, TypeOK, OutputInv, SequenceInv, Start
<1> QED
  BY Zenon, <1>1, <1>2, <1>3, <1>4, <1>5, <1>6, <1>7, <1>8, <1>9, <1>10,
     PrepareInv, RemoveInv, ServeInv DEF Next, Step, FetchOnce

(* What the client holds of a file is that file, for all contents and any  *)
(* chunk size, and nobody's call ends the process in log.Fatal.            *)
THEOREM Corruption == Spec => []CorruptionInv
<1>1. Init => CorruptionInv
  <2> SUFFICES ASSUME Init
               PROVE  CorruptionInv
    BY Zenon
  <2>1. NonePending \in [Key -> Seq(Nat)] /\ \A k \in Key : Len(NonePending[k]) = 0
    BY DEF NonePending
  <2>2. pending \in [Conn -> [Key -> Seq(Nat)]]
    BY <2>1, Zenon DEF Init
  <2>3. "idle" \in Place /\ <<>> \in Seq(Nat)
    BY DEF Place
  <2>4. TypeOK
    BY <2>2, <2>3, Zenon DEF Init, TypeOK
  <2>5. OutputInv
    BY Zenon DEF Init, OutputInv
  <2>6. SequenceInv
    BY <2>1 DEF Init, SequenceInv
  <2> QED
    BY <2>4, <2>5, <2>6, Zenon DEF Init, CorruptionInv
<1> QED
  BY <1>1, CorruptionStep, PTL DEF Spec

(* No fetch ends in "file corruption". *)
THEOREM NeverCorrupt == Spec => []NoCorruption
<1>1. CorruptionInv => NoCorruption
  BY Zenon DEF CorruptionInv, NoCorruption
<1> QED
  BY <1>1, Corruption, PTL

-----------------------------------------------------------------------------
(* A fetch that is under way is marked in Client.fetching, and so no other *)
(* can claim the same file.                                                *)
OnceInv ==
  /\ once => \A t \in Thread : Fetching(t) => want[t] \in fetching[conn[t]]
  /\ FetchedOnce

(* Steps that begin no fetch and end none. *)
LEMMA OnceFrame ==
  ASSUME OnceInv, UNCHANGED <<once, fetching, conn, want>>,
         \A u \in Thread : Fetching(u)' => Fetching(u)
  PROVE  OnceInv'
BY Zenon DEF OnceInv, FetchedOnce

(* A claim marks the file first. *)
LEMMA OnceClaim ==
  ASSUME CorruptionInv, OnceInv, NEW t \in Thread, NEW c \in Conn, NEW w \in Content,
         Claim(t, c, w), ~Fetching(t), UNCHANGED once,
         conn' = [conn EXCEPT ![t] = c], want' = [want EXCEPT ![t] = w]
  PROVE  OnceInv'
<1>1. /\ conn'[t] = c /\ want'[t] = w
      /\ \A u \in Thread : u # t => conn'[u] = conn[u] /\ want'[u] = want[u]
  BY Zenon DEF CorruptionInv, TypeOK
<1>2. \A u \in Thread : u # t => (Fetching(u)' <=> Fetching(u))
  BY Zenon DEF Claim, Fetching, CorruptionInv, TypeOK
<1>3. \A d \in Conn : fetching[d] \subseteq fetching'[d]
  BY DEF Claim, CorruptionInv, TypeOK
<1>4. \A u \in Thread : Fetching(u) => conn[u] \in Conn
  BY Zenon DEF Fetching, CorruptionInv, OutputInv
<1>5. Fetching(t)' => w \notin fetching[c] /\ w \in fetching'[c]
  BY DEF Claim, Fetching, CorruptionInv, TypeOK
<1> QED
  BY <1>1, <1>2, <1>3, <1>4, <1>5 DEF OnceInv, FetchedOnce

(* Only the fetch that ends loses its mark. *)
LEMMA OnceEnd ==
  ASSUME CorruptionInv, OnceInv, NEW t \in Thread, End(t)
  PROVE  OnceInv'
<1>1. UNCHANGED <<once, conn, want>> /\ Fetching(t) /\ conn[t] \in Conn
  BY Zenon DEF End, clientVars, Fetching, CorruptionInv, OutputInv
<1>2. \A d \in Conn : fetching'[d] = IF d = conn[t] THEN fetching[d] \ {want[t]} ELSE fetching[d]
  BY ZenonT(60) DEF End, CorruptionInv, TypeOK
<1>3. \A u \in Thread : Fetching(u)' => Fetching(u) /\ u # t
  BY Zenon DEF End, Fetching, Wakes
<1>4. \A u \in Thread : Fetching(u) => conn[u] \in Conn
  BY Zenon DEF Fetching, CorruptionInv, OutputInv
<1> QED
  BY <1>1, <1>2, <1>3, <1>4, Zenon DEF OnceInv, FetchedOnce

(* Every step keeps the marks and the fetches together. *)
LEMMA OnceStep == CorruptionInv /\ OnceInv /\ [~fatal /\ Next]_vars => OnceInv'
<1> SUFFICES ASSUME CorruptionInv, OnceInv, [~fatal /\ Next]_vars
             PROVE  OnceInv'
  BY Zenon
<1>1. ASSUME NEW t \in Thread, Woken(t)
      PROVE  OnceInv'
  <2>1. /\ conn[t] \in Conn /\ want[t] \in Content /\ ~Fetching(t)
    BY <1>1, Zenon DEF Woken, CorruptionInv, TypeOK, OutputInv, Fetching
  <2>2. Claim(t, conn[t], want[t]) /\ UNCHANGED <<once, conn, want>>
    BY <1>1, Zenon DEF Woken, clientVars
  <2>3. conn' = [conn EXCEPT ![t] = conn[t]] /\ want' = [want EXCEPT ![t] = want[t]]
    BY <2>2, Zenon DEF CorruptionInv, TypeOK
  <2> QED
    BY <2>1, <2>2, <2>3, OnceClaim, Zenon
<1>2. ASSUME NEW t \in Thread, prepareServe(t) \/ remove(t) \/ serve(t) \/ Close(t) \/ CallFails(t)
      PROVE  OnceInv'
  <2>1. UNCHANGED <<once, fetching, conn, want>> /\ Fetching(t)
    BY <1>2, Zenon DEF prepareServe, remove, serve, Close, CallFails, clientVars, Fetching
  <2>2. \A u \in Thread : u # t => pc'[u] = pc[u]
    BY <1>2, Zenon DEF prepareServe, remove, serve, Close, CallFails, Deliver, CorruptionInv, TypeOK
  <2>3. \A u \in Thread : Fetching(u)' => Fetching(u)
    BY <2>1, <2>2, Zenon DEF Fetching
  <2> QED
    BY <2>1, <2>3, OnceFrame, Zenon
<1>3. ASSUME NEW t \in Thread, NEW c \in Conn, NEW w \in Content, FetchOnce(t, c, w)
      PROVE  OnceInv'
  BY <1>3, OnceClaim, Zenon DEF FetchOnce, Begin, Fetching
<1>4. ASSUME NEW t \in Thread, NEW c \in Conn, NEW w \in Content, Fetch(t, c, w)
      PROVE  OnceInv'
  BY <1>4, Zenon DEF Fetch, Begin, OnceInv, FetchedOnce
<1>5. ASSUME NEW w \in Content, SavePath(w) \/ DestructiveSavePath(w)
      PROVE  OnceInv'
  BY <1>5, OnceFrame, Zenon DEF SavePath, DestructiveSavePath, Fetching
<1>6. ASSUME NEW c \in Conn, Lose(c) \/ Connect(c)
      PROVE  OnceInv'
  BY <1>6, OnceFrame, Zenon DEF Lose, Connect, Fetching
<1>7. CASE UNCHANGED vars
  BY <1>7, OnceFrame, Zenon DEF vars, Fetching
<1> QED
  BY <1>1, <1>2, <1>3, <1>4, <1>5, <1>6, <1>7, OnceEnd, Zenon DEF Next, Step

(* FetchOnce, for any number of goroutines, connections and failures. *)
THEOREM OnlyOneFetch == Spec => []FetchedOnce
<1>1. Init => OnceInv
  BY Zenon DEF Init, OnceInv, FetchedOnce, Fetching
<1>2. OnceInv => FetchedOnce
  BY Zenon DEF OnceInv
<1> QED
  BY <1>1, <1>2, OnceStep, Corruption, PTL DEF Spec

-----------------------------------------------------------------------------
(* The goroutines that will take a sequence from under k. *)
Takers(c, k) == {t \in Thread : conn[t] = c /\ pc[t] = "take" /\ k = <<want[t], Start(t)>>}

(* A server that has been closed keeps no sequences. *)
PerFetchInv ==
  /\ OneSequencePerFetch
  /\ \A c \in Conn : ~up[c] => pending[c] = NonePending

(* They are finitely many. *)
LEMMA TakersFinite == \A c, k : IsFiniteSet(Takers(c, k))
BY ServeAssumption, FS_Subset, Zenon DEF Takers

(* Steps that leave those waiting for a sequence alone. *)
LEMMA PerFetchFrame ==
  ASSUME PerFetchInv, UNCHANGED <<up, pending>>,
         \A u \in Thread :
           \/ pc[u] # "take" /\ pc'[u] # "take"
           \/ pc'[u] = pc[u] /\ conn'[u] = conn[u] /\ want'[u] = want[u] /\ output'[u] = output[u]
           \/ conn'[u] = conn[u] /\ ~up[conn[u]]
  PROVE  PerFetchInv'
<1>1. ASSUME NEW c \in Conn, NEW k \in Key, up[c]
      PROVE  Takers(c, k)' = Takers(c, k)
  BY <1>1, Zenon DEF Takers, Start
<1>2. \A c \in Conn, k \in Key : up[c] => Len(pending[c][k]) = Cardinality(Takers(c, k))
  BY Zenon DEF PerFetchInv, OneSequencePerFetch, Takers
<1>3. \A c \in Conn, k \in Key : up'[c] => Len(pending'[c][k]) = Cardinality(Takers(c, k)')
  BY <1>1, <1>2, Zenon
<1> QED
  BY <1>3, Zenon DEF PerFetchInv, OneSequencePerFetch, Takers

(* insert for a goroutine that is going to take the sequence. *)
LEMMA PerFetchInsert ==
  ASSUME CorruptionInv, PerFetchInv, NEW t \in Thread, NEW off \in Nat,
         conn[t] \in Conn, up[conn[t]], pc[t] # "take", <<want[t], off>> \in Key,
         pending' = insert(want[t], off, off, conn[t]),
         pc' = [pc EXCEPT ![t] = "take"],
         UNCHANGED <<up, conn, want>>, Start(t)' = off,
         \A u \in Thread : u # t => Start(u)' = Start(u)
  PROVE  PerFetchInv'
<1> DEFINE d == conn[t]
           j == <<want[t], off>>
<1>1. \A c \in Conn, k \in Key : pending[c][k] \in Seq(Nat)
  BY Zenon DEF CorruptionInv, TypeOK
<1>2. \A c \in Conn, k \in Key :
        pending'[c][k] = IF c = d /\ k = j THEN Append(pending[c][k], off) ELSE pending[c][k]
  BY ZenonT(60) DEF insert, CorruptionInv, TypeOK
<1>3. /\ \A u \in Thread : u # t => pc'[u] = pc[u]
      /\ pc'[t] = "take"
  BY Zenon DEF CorruptionInv, TypeOK
<1>4. ASSUME NEW c \in Conn, NEW k \in Key
      PROVE  /\ t \notin Takers(c, k)
             /\ Takers(c, k)' = IF c = d /\ k = j THEN Takers(c, k) \cup {t} ELSE Takers(c, k)
  BY <1>3, Zenon DEF Takers
<1>5. ASSUME NEW c \in Conn, NEW k \in Key, up[c]
      PROVE  Len(pending'[c][k]) = Cardinality(Takers(c, k)')
  <2>1. Len(pending[c][k]) = Cardinality(Takers(c, k))
    BY <1>5, Zenon DEF PerFetchInv, OneSequencePerFetch, Takers
  <2>2. CASE c = d /\ k = j
    <3>1. Cardinality(Takers(c, k) \cup {t}) = Cardinality(Takers(c, k)) + 1
      BY <1>4, TakersFinite, FS_AddElement, Zenon
    <3>2. Len(Append(pending[c][k], off)) = Len(pending[c][k]) + 1
      BY <1>1
    <3> QED
      BY <1>2, <1>4, <2>1, <2>2, <3>1, <3>2, Zenon
  <2>3. CASE ~(c = d /\ k = j)
    BY <1>2, <1>4, <2>1, <2>3
  <2> QED
    BY <2>2, <2>3, Zenon
<1>6. \A c \in Conn : ~up[c] => pending'[c] = pending[c]
  BY Zenon DEF insert, CorruptionInv, TypeOK
<1> QED
  BY <1>5, <1>6, Zenon DEF PerFetchInv, OneSequencePerFetch, Takers

(* remove finds the sequence it looks for. *)
LEMMA PerFetchRemove ==
  ASSUME CorruptionInv, PerFetchInv, NEW t \in Thread, remove(t)
  PROVE  PerFetchInv'
<1> DEFINE d == conn[t]
           j == <<want[t], Start(t)>>
           p == pending[d][j]
<1>1. /\ d \in Conn /\ want[t] \in Content /\ Start(t) \in 0 .. Len(want[t])
      /\ pc[t] = "take" /\ up[d]
  BY Zenon DEF CorruptionInv, TypeOK, OutputInv, remove
<1>2. j \in Key
  BY <1>1 DEF Key
<1>3. \A c \in Conn, k \in Key : pending[c][k] \in Seq(Nat)
  BY Zenon DEF CorruptionInv, TypeOK
<1>4. t \in Takers(d, j)
  BY <1>1, Zenon DEF Takers
<1>5. Len(p) = Cardinality(Takers(d, j))
  BY <1>1, <1>2, Zenon DEF PerFetchInv, OneSequencePerFetch, Takers
<1>6. p # <<>>
  <2>1. Cardinality(Takers(d, j)) # 0
    BY <1>4, TakersFinite, FS_EmptySet, Zenon
  <2> QED
    BY <1>5, <2>1, Zenon
<1>7. /\ pending' = [pending EXCEPT ![d][j] = front(p)]
      /\ pc' = [pc EXCEPT ![t] = "read"]
      /\ UNCHANGED <<up, conn, want, output>>
  BY <1>6, Zenon DEF remove, clientVars, front
<1>8. \A c \in Conn, k \in Key :
        pending'[c][k] = IF c = d /\ k = j THEN front(p) ELSE pending[c][k]
  BY <1>1, <1>2, <1>7, Zenon DEF CorruptionInv, TypeOK
<1>9. /\ \A u \in Thread : u # t => pc'[u] = pc[u]
      /\ pc'[t] = "read"
  BY <1>7, Zenon DEF CorruptionInv, TypeOK
<1>10. ASSUME NEW c \in Conn, NEW k \in Key
       PROVE  /\ ~(c = d /\ k = j) => t \notin Takers(c, k)
              /\ Takers(c, k)' = Takers(c, k) \ {t}
  BY <1>7, <1>9, Zenon DEF Takers, Start
<1>11. ASSUME NEW c \in Conn, NEW k \in Key, up[c]
       PROVE  Len(pending'[c][k]) = Cardinality(Takers(c, k)')
  <2>1. Len(pending[c][k]) = Cardinality(Takers(c, k))
    BY <1>11, Zenon DEF PerFetchInv, OneSequencePerFetch, Takers
  <2>2. CASE c = d /\ k = j
    <3>1. Cardinality(Takers(d, j) \ {t}) = Cardinality(Takers(d, j)) - 1
      BY <1>4, TakersFinite, FS_RemoveElement, ZenonT(60)
    <3>2. Len(front(p)) = Len(p) - 1
      BY <1>1, <1>2, <1>3, <1>6, FrontFacts, Zenon
    <3> QED
      BY <1>8, <1>10, <2>1, <2>2, <3>1, <3>2, Zenon
  <2>3. CASE ~(c = d /\ k = j)
    <3>1. Takers(c, k) \ {t} = Takers(c, k)
      BY <1>10, <2>3, Zenon
    <3> QED
      BY <1>8, <1>10, <2>1, <2>3, <3>1, Zenon
  <2> QED
    BY <2>2, <2>3, Zenon
<1>12. \A c \in Conn : ~up[c] => pending'[c] = pending[c]
  BY <1>1, <1>7, Zenon DEF CorruptionInv, TypeOK
<1> QED
  BY <1>7, <1>11, <1>12, Zenon DEF PerFetchInv, OneSequencePerFetch, Takers

(* serve puts the sequence where its fetch goes on. *)
LEMMA PerFetchServe ==
  ASSUME CorruptionInv, PerFetchInv, NEW t \in Thread, serve(t)
  PROVE  PerFetchInv'
<1> DEFINE data == Chunk(want[t], Start(t))
           off == Start(t) + Len(data)
<1>1. /\ conn[t] \in Conn /\ want[t] \in Content /\ Start(t) \in 0 .. Len(want[t])
      /\ pc[t] = "read" /\ seq[t] = Start(t) /\ up[conn[t]]
  BY Zenon DEF CorruptionInv, TypeOK, OutputInv, serve
<1>2. UNCHANGED <<up, conn, want>>
  BY Zenon DEF serve, clientVars
<1>3. /\ output' = [output EXCEPT ![t] = output[t] \o data]
      /\ pc' = [pc EXCEPT ![t] = IF IsLast(data) THEN "close" ELSE "take"]
      /\ pending' = IF IsLast(data) THEN pending ELSE insert(want[t], off, off, conn[t])
  BY <1>1, Zenon DEF serve, Deliver
<1>4. data \in Seq(Nat) /\ off \in 0 .. Len(want[t])
  BY <1>1, ChunkFacts, Zenon
<1>5. <<want[t], off>> \in Key /\ off \in Nat
  BY <1>1, <1>4 DEF Key
<1>6. /\ \A u \in Thread : u # t => output'[u] = output[u] /\ Start(u)' = Start(u)
      /\ output'[t] = output[t] \o data /\ output[t] \in Seq(Nat)
  BY <1>3, Zenon DEF CorruptionInv, TypeOK, Start
<1>7. Start(t)' = off
  BY <1>4, <1>6 DEF Start
<1> HIDE DEF data, off
<1>8. CASE IsLast(data)
  <2>1. UNCHANGED pending /\ pc' = [pc EXCEPT ![t] = "close"]
    BY <1>3, <1>8, Zenon
  <2>2. pc'[t] = "close" /\ \A u \in Thread : u # t => pc'[u] = pc[u]
    BY <2>1, Zenon DEF CorruptionInv, TypeOK
  <2> QED
    BY <1>1, <1>2, <1>6, <2>1, <2>2, PerFetchFrame, Zenon
<1>9. CASE ~IsLast(data)
  <2>1. /\ pending' = insert(want[t], off, off, conn[t])
        /\ pc' = [pc EXCEPT ![t] = "take"] /\ pc[t] # "take"
    BY <1>1, <1>3, <1>9, Zenon
  <2> QED
    BY <1>1, <1>2, <1>5, <1>6, <1>7, <2>1, PerFetchInsert, Zenon
<1> QED
  BY <1>8, <1>9, Zenon

(* Every step keeps one sequence for each fetch. *)
LEMMA PerFetchStep == CorruptionInv /\ PerFetchInv /\ [~fatal /\ Next]_vars => PerFetchInv'
<1> SUFFICES ASSUME CorruptionInv, PerFetchInv, [~fatal /\ Next]_vars
             PROVE  PerFetchInv'
  BY Zenon
<1>1. ASSUME NEW t \in Thread, Woken(t) \/ Close(t) \/ CallFails(t) \/ End(t)
      PROVE  PerFetchInv'
  <2>1. UNCHANGED <<up, pending, conn, want, output>>
    BY <1>1, Zenon DEF Woken, Close, CallFails, End, clientVars
  <2>2. /\ pc'[t] # "take"
        /\ pc[t] # "take" \/ ~up[conn[t]]
    BY <1>1, Zenon DEF Woken, Close, CallFails, End, Claim, CorruptionInv, TypeOK
  <2>3. \A u \in Thread : u # t => pc'[u] = pc[u] \/ (pc[u] # "take" /\ pc'[u] # "take")
    BY <1>1, Zenon DEF Woken, Close, CallFails, End, Wakes, Claim, CorruptionInv, TypeOK
  <2> QED
    BY <2>1, <2>2, <2>3, PerFetchFrame, Zenon
<1>2. ASSUME NEW t \in Thread, prepareServe(t)
      PROVE  PerFetchInv'
  <2>1. /\ conn[t] \in Conn /\ want[t] \in Content /\ want[t] \in source
        /\ want[t] \in Seq(Nat) /\ pc[t] # "take" /\ up[conn[t]] /\ output[t] = <<>>
    BY <1>2, ServeAssumption, Zenon DEF CorruptionInv, TypeOK, OutputInv, prepareServe
  <2>2. /\ pending' = insert(want[t], 0, 0, conn[t])
        /\ pc' = [pc EXCEPT ![t] = "take"]
        /\ UNCHANGED <<up, conn, want, output>>
    BY <1>2, <2>1, ZenonT(60) DEF prepareServe, newSpliceSequence, clientVars
  <2>3. <<want[t], 0>> \in Key /\ 0 \in Nat
    BY <2>1 DEF Key
  <2>4. Start(t)' = 0 /\ \A u \in Thread : u # t => Start(u)' = Start(u)
    BY <2>1, <2>2, Zenon DEF Start
  <2> QED
    BY <2>1, <2>2, <2>3, <2>4, PerFetchInsert, ZenonT(60)
<1>3. ASSUME NEW t \in Thread, NEW c \in Conn, NEW w \in Content,
             FetchOnce(t, c, w) \/ Fetch(t, c, w)
      PROVE  PerFetchInv'
  <2>1. UNCHANGED <<up, pending, output>> /\ pc[t] = "idle"
    BY <1>3, Zenon DEF FetchOnce, Fetch, Begin
  <2>2. /\ pc'[t] # "take"
        /\ \A u \in Thread : u # t => pc'[u] = pc[u] /\ conn'[u] = conn[u] /\ want'[u] = want[u]
    BY <1>3 DEF FetchOnce, Fetch, Begin, Claim, CorruptionInv, TypeOK
  <2> QED
    BY <2>1, <2>2, PerFetchFrame, Zenon
<1>4. ASSUME NEW w \in Content, SavePath(w) \/ DestructiveSavePath(w)
      PROVE  PerFetchInv'
  BY <1>4, PerFetchFrame, ZenonT(60) DEF SavePath, DestructiveSavePath
<1>5. ASSUME NEW c \in Conn, Lose(c)
      PROVE  PerFetchInv'
  <2>1. /\ \A d \in Conn : up'[d] = (up[d] /\ d # c)
        /\ \A d \in Conn : pending'[d] = IF d = c THEN NonePending ELSE pending[d]
    BY <1>5, Zenon DEF Lose, CorruptionInv, TypeOK
  <2>2. \A d \in Conn, k \in Key : Takers(d, k)' = Takers(d, k)
    BY <1>5, Zenon DEF Lose, Takers, Start
  <2>3. \A d \in Conn, k \in Key :
          up'[d] => d # c /\ Len(pending[d][k]) = Cardinality(Takers(d, k))
    BY <2>1, Zenon DEF PerFetchInv, OneSequencePerFetch, Takers
  <2>4. \A d \in Conn, k \in Key : up'[d] => Len(pending'[d][k]) = Cardinality(Takers(d, k)')
    BY <2>1, <2>2, <2>3, Zenon
  <2>5. \A d \in Conn : ~up'[d] => pending'[d] = NonePending
    BY <2>1, ZenonT(60) DEF PerFetchInv
  <2>6. (\A d \in Conn : ~up[d] => pending[d] = NonePending)'
    BY <2>5, Zenon DEF NonePending
  <2> QED
    BY <2>4, <2>6, Zenon DEF PerFetchInv, OneSequencePerFetch, Takers
<1>6. ASSUME NEW c \in Conn, Connect(c)
      PROVE  PerFetchInv'
  <2>1. \A d \in Conn : up'[d] <=> up[d] \/ d = c
    BY <1>6, Zenon DEF Connect, CorruptionInv, TypeOK
  <2>2. UNCHANGED <<pending, pc, conn, want, output>>
    BY <1>6, Zenon DEF Connect
  <2>3. \A d \in Conn, k \in Key : Takers(d, k)' = Takers(d, k)
    BY <2>2, Zenon DEF Takers, Start
  <2>4. \A k \in Key : Takers(c, k) = {} /\ Len(pending[c][k]) = 0
    BY <1>6 DEF Connect, Busy, Takers, PerFetchInv, NonePending
  <2>5. Cardinality({}) = 0
    BY FS_EmptySet, Zenon
  <2>6. \A d \in Conn, k \in Key : Len(pending[d][k]) = Cardinality(Takers(d, k)) \/ ~up'[d]
    <3>1. \A d \in Conn, k \in Key : up[d] => Len(pending[d][k]) = Cardinality(Takers(d, k))
      BY Zenon DEF PerFetchInv, OneSequencePerFetch, Takers
    <3>2. \A k \in Key : Len(pending[c][k]) = Cardinality(Takers(c, k))
      BY <2>4, <2>5, Zenon
    <3> QED
      BY <2>1, <3>1, <3>2, Zenon
  <2>7. \A d \in Conn, k \in Key : up'[d] => Len(pending'[d][k]) = Cardinality(Takers(d, k)')
    BY <2>2, <2>3, <2>6, Zenon
  <2> QED
    BY <2>1, <2>2, <2>7, Zenon DEF PerFetchInv, OneSequencePerFetch, Takers, NonePending
<1>7. CASE UNCHANGED vars
  BY <1>7, PerFetchFrame, Zenon DEF vars
<1> QED
  BY <1>1, <1>2, <1>3, <1>4, <1>5, <1>6, <1>7, PerFetchRemove, PerFetchServe, Zenon DEF Next, Step

(* The server keeps one sequence for each fetch on a connection that is    *)
(* there: remove always finds one, and no open file is left behind.        *)
THEOREM SequencesAccounted == Spec => []OneSequencePerFetch
<1>1. Init => PerFetchInv
  <2> SUFFICES ASSUME Init
               PROVE  PerFetchInv
    BY Zenon
  <2>1. \A c \in Conn, k \in Key : Takers(c, k) = {} /\ Len(pending[c][k]) = 0
    BY Zenon DEF Init, Takers, NonePending
  <2>2. Cardinality({}) = 0
    BY FS_EmptySet, Zenon
  <2> QED
    BY <2>1, <2>2, Zenon DEF Init, PerFetchInv, OneSequencePerFetch, Takers
<1>2. PerFetchInv => OneSequencePerFetch
  BY Zenon DEF PerFetchInv
<1> QED
  BY <1>1, <1>2, PerFetchStep, Corruption, PTL DEF Spec

=============================================================================
