-------------------------- MODULE MirrorSetupProofs --------------------------
(***************************************************************************)
(* MirrorSetup, for any number of calls, masters and jobs.                 *)
(*                                                                         *)
(* The argument: as long as no id is used again while a connection under   *)
(* it is pending, the ids tell the pending connections apart.  An entry of *)
(* PendingConnections is then a pending connection under its own id, and   *)
(* the connection a handler waits for is pending too: the entry it finds   *)
(* is the one its call dialled.  So mirrors have distinct keys, and what   *)
(* getMirror puts into the map stays there until that mirror has ended.    *)
(***************************************************************************)
EXTENDS MirrorSetup, FiniteSetTheorems, TLAPS

(* How far a call and its handler are. *)
Waiting(c) == hpc[c] \in {"wait", "asleep", "woken", "stuck"}

Progressed ==
  \A c \in Call :
    /\ Len(ids[c]) <= Kinds /\ Len(took[c]) <= Kinds
    /\ pc[c] = "dial" => Len(ids[c]) < Kinds
    /\ pc[c] \in {"call", "ok"} => Len(ids[c]) = Kinds
    /\ hpc[c] # "idle" => Len(ids[c]) = Kinds
    /\ hpc[c] = "idle" => took[c] = <<>>
    /\ Waiting(c) => Len(took[c]) < Kinds
    /\ hpc[c] \in {"get", "granted"} => Len(took[c]) = Kinds

(* A master draws no more ids than its calls have connections. *)
Drawn(m) ==
  {x \in Conn : /\ master[x[1]] = m
                /\ \/ x[2] <= Len(ids[x[1]])
                   \/ pc[x[1]] = "err" /\ x[2] = Len(ids[x[1]]) + 1}

IdsDrawn == \A m \in Master : nextConnectionId[m] <= Cardinality(Drawn(m))

Dialled == \A x \in arriving : x[2] <= Len(ids[x[1]])

(* While no id is used again too early. *)
Distinct == \A x, y \in Pending : IdOf(x) = IdOf(y) => x = y
Entries == \A i \in Id : \A x \in conns[i] : x \in Pending /\ IdOf(x) = i
Arrivals == \A x \in arriving : x \in Pending /\ \A i \in Id : x \notin conns[i]
Signalled == \A c \in Call : hpc[c] = "woken" => woke[c] \subseteq conns[WaitsFor(c)]
Own == \A c \in Call : \A k \in DOMAIN took[c] : took[c][k] = <<c, k>>
Orderly == Distinct /\ Entries /\ Arrivals /\ Signalled /\ Own /\ ~panicked

Bounded == Used(mirrorMap) <= Jobs
Listed == stop \in {"sleep", "exit"} \/ live \subseteq mirrorMap

Base == TypeOK /\ Progressed /\ IdsDrawn /\ Dialled
SetupInv == Base /\ Bounded /\ (clash \/ (Orderly /\ Listed))

-----------------------------------------------------------------------------
(* Counting connections. *)
LEMMA ConnCount ==
  /\ Cardinality(Call) \in Nat
  /\ \A D \in SUBSET Conn : /\ IsFiniteSet(D) /\ Cardinality(D) \in Nat
                            /\ Cardinality(D) <= Kinds * Cardinality(Call)
<1>1. IsFiniteSet(Call) /\ Cardinality(Call) \in Nat
  BY SetupAssumption, FS_CardinalityType, Zenon
<1>2. IsFiniteSet(1 .. Kinds) /\ Cardinality(1 .. Kinds) = Kinds
  <2>1. Kinds \in Nat /\ Kinds > 0
    BY DEF Kinds
  <2> QED
    BY <2>1, FS_Interval
<1>3. IsFiniteSet(Conn) /\ Cardinality(Conn) = Cardinality(Call) * Kinds
  BY <1>1, <1>2, FS_Product, Zenon DEF Conn
<1>4. ASSUME NEW D \in SUBSET Conn
      PROVE  IsFiniteSet(D) /\ Cardinality(D) \in Nat /\ Cardinality(D) <= Cardinality(Conn)
  BY <1>3, FS_Subset, FS_CardinalityType, Zenon
<1>5. Cardinality(Call) * Kinds = Kinds * Cardinality(Call)
  BY <1>1 DEF Kinds
<1> QED
  BY <1>1, <1>3, <1>4, <1>5, Zenon

(* A set of connections that grows. *)
LEMMA ConnGrows ==
  ASSUME NEW D \in SUBSET Conn, NEW E \in SUBSET Conn, D \subseteq E
  PROVE  /\ Cardinality(D) <= Cardinality(E)
         /\ \A x \in E : x \notin D => Cardinality(D) + 1 <= Cardinality(E)
<1>1. IsFiniteSet(D) /\ IsFiniteSet(E)
  BY ConnCount, Zenon
<1>2. Cardinality(D) <= Cardinality(E)
  BY <1>1, FS_Subset, Zenon
<1>3. ASSUME NEW x \in E, x \notin D
      PROVE  Cardinality(D) + 1 <= Cardinality(E)
  <2>1. Cardinality(D \cup {x}) = Cardinality(D) + 1
    BY <1>1, <1>3, FS_AddElement, Zenon
  <2>2. D \cup {x} \in SUBSET E
    BY <1>3, Zenon
  <2>3. Cardinality(D \cup {x}) <= Cardinality(E)
    BY <1>1, <2>2, FS_Subset, Zenon
  <2> QED
    BY <2>1, <2>3, Zenon
<1> QED
  BY <1>2, <1>3, Zenon

(* Counting job slots. *)
LEMMA SlotsFinite ==
  ASSUME NEW S \in SUBSET Call, NEW n \in [Call -> 0 .. Jobs]
  PROVE  IsFiniteSet(Slots(S, n)) /\ Cardinality(Slots(S, n)) \in Nat
<1>1. IsFiniteSet(Call) /\ Jobs \in Nat
  BY SetupAssumption, Zenon
<1>2. IsFiniteSet(Call \X (1 .. Jobs))
  <2>1. IsFiniteSet(1 .. Jobs)
    BY <1>1, FS_Interval
  <2> QED
    BY <1>1, <2>1, FS_Product, Zenon
<1>3. Slots(S, n) \subseteq Call \X (1 .. Jobs)
  <2>1. ASSUME NEW x \in Slots(S, n)
        PROVE  x \in Call \X (1 .. Jobs)
    <3>1. PICK c \in S : x \in {c} \X (1 .. n[c])
      BY <2>1, Zenon DEF Slots
    <3>2. c \in Call /\ n[c] \in 0 .. Jobs
      BY Zenon
    <3>3. PICK i \in 1 .. n[c] : x = <<c, i>>
      BY <3>1
    <3>4. i \in 1 .. Jobs
      BY <1>1, <3>2, <3>3
    <3> QED
      BY <3>2, <3>3, <3>4, Zenon
  <2> QED
    BY <2>1, Zenon
<1> QED
  BY <1>2, <1>3, FS_Subset, FS_CardinalityType, Zenon

(* A mirror less is no more jobs. *)
LEMMA FewerSlots ==
  ASSUME NEW S \in SUBSET Call, NEW T \in SUBSET S, NEW n \in [Call -> 0 .. Jobs]
  PROVE  Cardinality(Slots(T, n)) <= Cardinality(Slots(S, n))
<1>1. IsFiniteSet(Slots(S, n))
  BY SlotsFinite, Zenon
<1>2. Slots(T, n) \in SUBSET Slots(S, n)
  BY Zenon DEF Slots
<1> QED
  BY <1>1, <1>2, FS_Subset, Zenon

(* A mirror more is the jobs it is granted more. *)
LEMMA MoreSlots ==
  ASSUME NEW S \in SUBSET Call, NEW c \in Call, c \notin S, NEW T \in SUBSET S,
         NEW n \in [Call -> 0 .. Jobs], NEW k \in 0 .. Jobs
  PROVE  Cardinality(Slots(T \cup {c}, [n EXCEPT ![c] = k])) <= Cardinality(Slots(S, n)) + k
<1> DEFINE g == [n EXCEPT ![c] = k]
           A == Slots(S, n)
           B == {c} \X (1 .. k)
<1>1. IsFiniteSet(A) /\ Cardinality(A) \in Nat
  BY SlotsFinite, Zenon
<1>2. IsFiniteSet(B) /\ Cardinality(B) = k
  <2>1. IsFiniteSet({c}) /\ Cardinality({c}) = 1
    BY FS_Singleton, Zenon
  <2>2. k \in Nat
    BY SetupAssumption
  <2>3. IsFiniteSet(1 .. k) /\ Cardinality(1 .. k) = k
    BY <2>2, FS_Interval
  <2>4. IsFiniteSet(B) /\ Cardinality(B) = Cardinality({c}) * Cardinality(1 .. k)
    BY <2>1, <2>3, FS_Product, Zenon
  <2> QED
    BY <2>1, <2>2, <2>3, <2>4
<1>3. Slots(T \cup {c}, g) \subseteq A \cup B
  <2>1. ASSUME NEW x \in Slots(T \cup {c}, g)
        PROVE  x \in A \cup B
    <3>1. PICK d \in T \cup {c} : x \in {d} \X (1 .. g[d])
      BY <2>1, Zenon DEF Slots
    <3>2. CASE d = c
      <4>1. g[d] = k
        BY <3>2, Zenon
      <4> QED
        BY <3>1, <3>2, <4>1, Zenon
    <3>3. CASE d # c
      <4>1. d \in S /\ g[d] = n[d]
        BY <3>3, Zenon
      <4> QED
        BY <3>1, <4>1, Zenon DEF Slots
    <3> QED
      BY <3>2, <3>3, Zenon
  <2> QED
    BY <2>1, Zenon
<1>4. /\ IsFiniteSet(A \cup B) /\ IsFiniteSet(A \cap B)
      /\ Cardinality(A \cup B) = Cardinality(A) + Cardinality(B) - Cardinality(A \cap B)
  <2>1. IsFiniteSet(A \cap B)
    BY <1>1, FS_Subset, Zenon
  <2> QED
    BY <1>1, <1>2, <2>1, FS_Union, Zenon
<1>5. Cardinality(A \cap B) \in Nat
  BY <1>4, FS_CardinalityType, Zenon
<1>6. Cardinality(Slots(T \cup {c}, g)) <= Cardinality(A \cup B)
  BY <1>3, <1>4, FS_Subset, Zenon
<1>7. IsFiniteSet(Slots(T \cup {c}, g)) /\ Cardinality(Slots(T \cup {c}, g)) \in Nat
  BY <1>3, <1>4, FS_Subset, FS_CardinalityType, Zenon
<1>8. k \in Nat
  BY SetupAssumption
<1> HIDE DEF A, B, g
<1>9. Cardinality(Slots(T \cup {c}, g)) <= Cardinality(A) + k
  BY <1>1, <1>2, <1>4, <1>5, <1>6, <1>7, <1>8
<1> QED
  BY <1>9, Zenon DEF A, g
-----------------------------------------------------------------------------
(* No id is drawn. *)
LEMMA IdsKept ==
  ASSUME Base, UNCHANGED <<master, nextConnectionId, ids>>,
         \A c \in Call : pc[c] = "err" => pc'[c] = "err"
  PROVE  IdsDrawn'
<1>1. ASSUME NEW m \in Master
      PROVE  Cardinality(Drawn(m)) <= Cardinality(Drawn(m)')
  <2>1. Drawn(m) \in SUBSET Conn /\ Drawn(m)' \in SUBSET Conn
    BY Zenon DEF Drawn, Conn
  <2>2. Drawn(m) \subseteq Drawn(m)'
    BY Zenon DEF Drawn, Conn
  <2> QED
    BY <2>1, <2>2, ConnGrows, Zenon
<1>2. \A m \in Master : /\ Cardinality(Drawn(m)) \in Nat /\ Cardinality(Drawn(m)') \in Nat
                        /\ nextConnectionId[m] \in Nat
  <2>1. \A m \in Master : Drawn(m) \in SUBSET Conn /\ Drawn(m)' \in SUBSET Conn
    BY Zenon DEF Drawn, Conn
  <2> QED
    BY <2>1, ConnCount, Zenon DEF Base, TypeOK
<1> QED
  BY <1>1, <1>2 DEF IdsDrawn, Base

(* An id is drawn, for a connection for which none was. *)
LEMMA IdDrawn ==
  ASSUME Base, NEW c \in Call, pc[c] = "dial", UNCHANGED master,
         nextConnectionId' = [nextConnectionId EXCEPT ![master[c]] = @ + 1],
         \A m \in Master : Drawn(m) \subseteq Drawn(m)',
         <<c, Len(ids[c]) + 1>> \in Drawn(master[c])'
  PROVE  IdsDrawn' /\ nextConnectionId[master[c]] \in Id
<1> DEFINE x == <<c, Len(ids[c]) + 1>>
           q == master[c]
<1>1. q \in Master
  BY Zenon DEF Base, TypeOK
<1>2. \A m \in Master : Drawn(m) \in SUBSET Conn /\ Drawn(m)' \in SUBSET Conn
  BY Zenon DEF Drawn, Conn
<1>3. \A m \in Master : /\ Cardinality(Drawn(m)) \in Nat /\ Cardinality(Drawn(m)') \in Nat
                        /\ Cardinality(Drawn(m)) <= Cardinality(Drawn(m)')
                        /\ nextConnectionId[m] \in Nat
                        /\ nextConnectionId[m] <= Cardinality(Drawn(m))
  BY <1>2, ConnCount, ConnGrows, Zenon DEF Base, TypeOK, IdsDrawn
<1>4. x \notin Drawn(q)
  BY DEF Drawn, Base, TypeOK
<1>5. Cardinality(Drawn(q)) + 1 <= Cardinality(Drawn(q)')
  BY <1>1, <1>2, <1>4, ConnGrows, Zenon
<1>6. Cardinality(Drawn(q)') <= Kinds * Cardinality(Call)
  BY <1>1, <1>2, ConnCount, Zenon
<1>7. nextConnectionId[q] \in Id
  BY <1>1, <1>3, <1>5, <1>6, ConnCount DEF Id, Kinds
<1>8. ASSUME NEW m \in Master
      PROVE  nextConnectionId'[m] <= Cardinality(Drawn(m)')
  <2>1. CASE m = q
    <3>1. nextConnectionId'[q] = nextConnectionId[q] + 1
      BY <1>1, Zenon DEF Base, TypeOK
    <3> QED
      BY <1>1, <1>3, <1>5, <2>1, <3>1
  <2>2. CASE m # q
    <3>1. nextConnectionId'[m] = nextConnectionId[m]
      BY <2>2, Zenon DEF Base, TypeOK
    <3> QED
      BY <1>3, <3>1
  <2> QED
    BY <2>1, <2>2, Zenon
<1> QED
  BY <1>7, <1>8, Zenon DEF IdsDrawn

(* No connection is dialled, accepted or taken. *)
LEMMA ConnectionsKept ==
  ASSUME Orderly, UNCHANGED <<ids, took, conns, woke, arriving, panicked>>,
         \A c \in Call : hpc'[c] = "woken" => hpc[c] = "woken"
  PROVE  Orderly'
<1>1. (\A x : IdOf(x)' = IdOf(x)) /\ (\A c : WaitsFor(c)' = WaitsFor(c))
  BY Zenon DEF IdOf, WaitsFor
<1>2. Taken' = Taken
  BY DEF Taken, TakenBy
<1>3. Pending' = Pending
  BY <1>2, Zenon DEF Pending
<1>4. (Distinct /\ Entries)'
  BY <1>1, <1>3, Zenon DEF Orderly, Distinct, Entries
<1>5. (Arrivals /\ Own /\ ~panicked)'
  BY <1>3, Zenon DEF Orderly, Arrivals, Own
<1>6. Signalled'
  BY <1>1, Zenon DEF Orderly, Signalled
<1> QED
  BY <1>4, <1>5, <1>6, Zenon DEF Orderly

(* No mirror is made. *)
LEMMA SlotsKept ==
  ASSUME TypeOK, Bounded, UNCHANGED grant, mirrorMap' \subseteq mirrorMap
  PROVE  Bounded'
<1>1. mirrorMap \in SUBSET Call /\ mirrorMap' \in SUBSET mirrorMap /\ grant \in [Call -> 0 .. Jobs]
  BY Zenon DEF TypeOK
<1>2. /\ Used(mirrorMap)' = Cardinality(Slots(mirrorMap', grant))
      /\ Used(mirrorMap) = Cardinality(Slots(mirrorMap, grant))
  BY Zenon DEF Used
<1>3. Cardinality(Slots(mirrorMap', grant)) <= Cardinality(Slots(mirrorMap, grant))
  BY <1>1, FewerSlots, Zenon
<1>4. Cardinality(Slots(mirrorMap', grant)) \in Nat /\ Cardinality(Slots(mirrorMap, grant)) \in Nat
  BY <1>1, SlotsFinite, Zenon
<1> QED
  BY <1>2, <1>3, <1>4, SetupAssumption DEF Bounded
(* A step that neither dials, accepts, takes nor makes a mirror. *)
LEMMA QuietStep ==
  ASSUME SetupInv,
         UNCHANGED <<master, nextConnectionId, ids, took, conns, woke, arriving, panicked, grant,
                     clash>>,
         TypeOK', Progressed',
         \A c \in Call : pc[c] = "err" => pc'[c] = "err",
         \A c \in Call : hpc'[c] = "woken" => hpc[c] = "woken",
         mirrorMap' \subseteq mirrorMap,
         clash \/ Listed'
  PROVE  SetupInv'
<1>1. IdsDrawn'
  BY IdsKept, Zenon DEF SetupInv
<1>2. Dialled'
  BY Zenon DEF SetupInv, Base, Dialled
<1>3. Bounded'
  BY SlotsKept, Zenon DEF SetupInv, Base
<1>4. clash \/ Orderly'
  BY ConnectionsKept, Zenon DEF SetupInv
<1> QED
  BY <1>1, <1>2, <1>3, <1>4, Zenon DEF SetupInv, Base

-----------------------------------------------------------------------------
(* A connection is a call and its place among the call's. *)
LEMMA ConnParts ==
  \A x \in Conn : x[1] \in Call /\ x[2] \in 1 .. Kinds /\ x = <<x[1], x[2]>>
  BY DEF Conn

(* Dial: a connection under a new id, or clash from here on. *)
LEMMA DialInv ==
  ASSUME SetupInv, NEW c \in Call, Dial(c)
  PROVE  SetupInv'
<1> DEFINE n == Len(ids[c]) + 1
           x == <<c, n>>
           i == nextConnectionId[master[c]]
<1>0. TypeOK /\ Progressed
  BY Zenon DEF SetupInv, Base
<1>1. /\ pc[c] = "dial" /\ UNCHANGED <<master, closed, pendingVars, hpc, took, mirrorVars, stopVars>>
      /\ ids' = [ids EXCEPT ![c] = Append(@, i)]
      /\ nextConnectionId' = [nextConnectionId EXCEPT ![master[c]] = @ + 1]
      /\ arriving' = {x}
      /\ pc' = [pc EXCEPT ![c] = IF n = Kinds THEN "call" ELSE @]
      /\ clash' = (clash \/ \E y \in Pending : IdOf(y) = i)
  BY Zenon DEF Dial
<1>2. n \in 1 .. Kinds /\ hpc[c] = "idle" /\ took[c] = <<>>
  BY <1>0, <1>1 DEF TypeOK, Progressed, Kinds
<1>3. /\ \A d \in Call : d # c => ids'[d] = ids[d] /\ pc'[d] = pc[d]
      /\ Len(ids'[c]) = n /\ pc'[c] # "err"
      /\ \A k \in 1 .. Len(ids[c]) : ids'[c][k] = ids[c][k]
      /\ ids'[c][n] = i
  BY <1>0, <1>1 DEF TypeOK
<1>4. x \in Conn
  BY <1>2, Zenon DEF Conn
<1>5. \A m \in Master : Drawn(m) \subseteq Drawn(m)'
  BY <1>0, <1>1, <1>3 DEF Drawn, Conn, TypeOK
<1>6. x \in Drawn(master[c])'
  BY <1>1, <1>3, <1>4 DEF Drawn
<1>7. IdsDrawn' /\ i \in Id
  BY <1>1, <1>5, <1>6, IdDrawn, Zenon DEF SetupInv
<1>8. TypeOK'
  <2>1. ids' \in [Call -> Seq(Id)]
    BY <1>0, <1>1, <1>7 DEF TypeOK
  <2>2. nextConnectionId' \in [Master -> Nat]
    BY <1>0, <1>1 DEF TypeOK
  <2>3. arriving' \subseteq Conn /\ Cardinality(arriving') <= 1
    <3>1. Cardinality(arriving') = 1
      BY <1>1, FS_Singleton, Zenon
    <3> QED
      BY <1>1, <1>4, <3>1
  <2>4. pc' \in [Call -> CallState]
    BY <1>0, <1>1, Zenon DEF TypeOK, CallState
  <2>5. clash' \in BOOLEAN
    BY <1>0, <1>1, Zenon DEF TypeOK
  <2> QED
    BY <1>0, <1>1, <2>1, <2>2, <2>3, <2>4, <2>5, Zenon
    DEF TypeOK, pendingVars, mirrorVars, stopVars
<1>9. Progressed'
  <2>1. UNCHANGED <<hpc, took>>
    BY <1>1, Zenon
  <2>2. ASSUME NEW d \in Call, d # c
        PROVE  ids'[d] = ids[d] /\ pc'[d] = pc[d]
    BY <1>3, <2>2, Zenon
  <2>3. n = Kinds => pc'[c] = "call"
    BY <1>0, <1>1, Zenon DEF TypeOK
  <2>4. n # Kinds => pc'[c] = "dial" /\ n < Kinds
    BY <1>0, <1>1, <1>2 DEF TypeOK, Kinds
  <2>5. Len(ids'[c]) = n /\ n <= Kinds /\ hpc[c] = "idle" /\ took[c] = <<>> /\ 0 < Kinds
    BY <1>2, <1>3 DEF Kinds
  <2> HIDE DEF n, x, i
  <2>6. \A d \in Call : d = c \/ (ids'[d] = ids[d] /\ pc'[d] = pc[d])
    BY <2>2, Zenon
  <2> QED
    BY <1>0, <2>1, <2>3, <2>4, <2>5, <2>6 DEF Progressed, Waiting
<1>10. Dialled'
  BY <1>1, <1>3 DEF Dialled
<1>11. Bounded'
  BY <1>0, <1>1, SlotsKept, Zenon DEF SetupInv, mirrorVars
<1>12. clash \/ Listed'
  BY <1>1, Zenon DEF SetupInv, Listed, mirrorVars, stopVars
<1>13. ASSUME ~clash'
       PROVE  Orderly'
  <2>1. Orderly /\ \A y \in Pending : IdOf(y) # i
    BY <1>1, <1>13, Zenon DEF SetupInv
  <2>2. x \notin Taken
    <3>1. ASSUME NEW d \in Call, NEW k \in DOMAIN took[d], took[d][k] = x
          PROVE  FALSE
      <4>1. d = c
        BY <2>1, <3>1 DEF Orderly, Own
      <4> QED
        BY <1>2, <3>1, <4>1
    <3> QED
      BY <3>1, Zenon DEF Taken, TakenBy
  <2>3. Taken' = Taken
    BY <1>1 DEF Taken, TakenBy
  <2>4. Pending' = Pending \cup {x} /\ x \notin Pending
    <3>1. x \notin Pending
      BY <1>0 DEF Pending, TypeOK
    <3>2. ASSUME NEW y \in Conn, y[1] # c
          PROVE  y \in Pending' <=> y \in Pending \cup {x}
      <4>1. y # x /\ y[1] \in Call
        BY <3>2, ConnParts
      <4>2. ids'[y[1]] = ids[y[1]]
        BY <1>3, <3>2, <4>1, Zenon
      <4> HIDE DEF x
      <4> QED
        BY <2>3, <4>1, <4>2, Zenon DEF Pending
    <3>3. ASSUME NEW y \in Conn, y[1] = c
          PROVE  y \in Pending' <=> y \in Pending \cup {x}
      <4>1. y = <<c, y[2]>> /\ y[2] \in 1 .. Kinds
        BY <3>3, ConnParts, Zenon
      <4>2. y[2] <= n <=> y[2] <= Len(ids[c]) \/ y[2] = n
        BY <1>0, <4>1 DEF TypeOK, Kinds
      <4>3. y \in Pending' <=> y[2] <= n /\ y \notin Taken
        BY <1>3, <2>3, <3>3, Zenon DEF Pending
      <4>4. y \in Pending <=> y[2] <= Len(ids[c]) /\ y \notin Taken
        BY <3>3, Zenon DEF Pending
      <4>5. y = x <=> y[2] = n
        BY <4>1
      <4> QED
        BY <2>2, <4>2, <4>3, <4>4, <4>5, Zenon
    <3>4. Pending \subseteq Conn /\ Pending' \subseteq Conn
      BY Zenon DEF Pending, Conn
    <3> QED
      BY <1>4, <3>1, <3>2, <3>3, <3>4, Zenon
  <2> DEFINE New(y) == ids'[y[1]][y[2]]
  <2>5. New(x) = i /\ \A y \in Pending : New(y) = IdOf(y)
    <3>1. New(x) = i
      <4>1. x[1] = c /\ x[2] = n
        BY Zenon
      <4> HIDE DEF x
      <4> QED
        BY <1>3, <4>1, Zenon
    <3>2. ASSUME NEW y \in Pending
          PROVE  New(y) = IdOf(y)
      <4>1. y \in Conn /\ y[2] <= Len(ids[y[1]])
        BY Zenon DEF Pending
      <4>2. y[1] \in Call /\ y[2] \in 1 .. Kinds
        BY <4>1, ConnParts, Zenon
      <4>3. CASE y[1] = c
        <5>1. y[2] \in 1 .. Len(ids[c])
          BY <1>0, <4>1, <4>2, <4>3 DEF TypeOK, Kinds
        <5> QED
          BY <1>3, <4>3, <5>1, Zenon DEF IdOf
      <4>4. CASE y[1] # c
        BY <1>3, <4>2, <4>4, Zenon DEF IdOf
      <4> QED
        BY <4>3, <4>4, Zenon
    <3> QED
      BY <3>1, <3>2, Zenon
  <2>6. Distinct'
    <3> HIDE DEF x, i, n, New
    <3>1. \A y \in Pending' : y = x \/ y \in Pending
      BY <2>4, Zenon
    <3>2. ASSUME NEW y \in Pending, NEW z \in Pending, New(y) = New(z)
          PROVE  y = z
      <4>1. IdOf(y) = IdOf(z)
        BY <2>5, <3>2, Zenon
      <4> QED
        BY <2>1, <4>1, Zenon DEF Orderly, Distinct
    <3>3. \A y \in Pending : New(y) # New(x)
      BY <2>1, <2>5, Zenon
    <3>4. ASSUME NEW y \in Pending', NEW z \in Pending', New(y) = New(z)
          PROVE  y = z
      <4>1. CASE y = x /\ z = x
        BY <4>1, Zenon
      <4>2. CASE y # x /\ z # x
        BY <3>1, <3>2, <3>4, <4>2, Zenon
      <4>3. CASE y = x /\ z # x
        BY <3>1, <3>3, <3>4, <4>3, Zenon
      <4>4. CASE y # x /\ z = x
        BY <3>1, <3>3, <3>4, <4>4, Zenon
      <4> QED
        BY <4>1, <4>2, <4>3, <4>4, Zenon
    <3> QED
      BY <3>4, Zenon DEF Distinct, IdOf, New
  <2>7. Entries'
    BY <1>1, <2>1, <2>4, <2>5, Zenon DEF Orderly, Entries, IdOf, pendingVars
  <2>8. Arrivals'
    BY <1>1, <2>1, <2>4, Zenon DEF Orderly, Arrivals, Entries, pendingVars
  <2>9. Signalled'
    <3>1. ASSUME NEW d \in Call, hpc'[d] = "woken"
          PROVE  woke'[d] \subseteq conns'[WaitsFor(d)']
      <4>1. hpc[d] = "woken" /\ d # c
        BY <1>1, <1>2, <3>1, Zenon
      <4>2. WaitsFor(d)' = WaitsFor(d)
        BY <1>1, <1>3, <4>1, Zenon DEF WaitsFor
      <4> QED
        BY <1>1, <2>1, <4>1, <4>2, Zenon DEF Orderly, Signalled, pendingVars
    <3> QED
      BY <3>1, Zenon DEF Signalled
  <2> QED
    BY <1>1, <2>1, <2>6, <2>7, <2>8, <2>9, Zenon DEF Orderly, Own, pendingVars
<1> QED
  BY <1>1, <1>7, <1>8, <1>9, <1>10, <1>11, <1>12, <1>13, Zenon DEF SetupInv, Base
(* Fail may use up an id, for a connection that is not there. *)
LEMMA FailInv ==
  ASSUME SetupInv, NEW c \in Call, Fail(c)
  PROVE  SetupInv'
<1>0. TypeOK /\ Progressed
  BY Zenon DEF SetupInv, Base
<1>1. /\ UNCHANGED <<master, ids, arriving, pendingVars, hpc, took, mirrorVars, stopVars, clash>>
      /\ pc' = [pc EXCEPT ![c] = "err"] /\ closed' = closed \cup {c}
      /\ pc[c] \in {"dial", "call"}
  BY Zenon DEF Fail
<1>2. /\ pc'[c] = "err"
      /\ \A d \in Call : d # c => pc'[d] = pc[d]
      /\ \A d \in Call : pc[d] = "err" => pc'[d] = "err"
  BY <1>0, <1>1, Zenon DEF TypeOK
<1>3. IdsDrawn' /\ nextConnectionId' \in [Master -> Nat]
  <2>1. CASE UNCHANGED nextConnectionId
    BY <1>0, <1>1, <1>2, <2>1, IdsKept, Zenon DEF SetupInv, TypeOK
  <2>2. CASE /\ pc[c] = "dial"
             /\ nextConnectionId' = [nextConnectionId EXCEPT ![master[c]] = @ + 1]
    <3>1. <<c, Len(ids[c]) + 1>> \in Conn
      <4>1. Len(ids[c]) \in Nat /\ Len(ids[c]) < Kinds
        BY <1>0, <2>2 DEF TypeOK, Progressed
      <4> QED
        BY <4>1 DEF Conn, Kinds
    <3>2. <<c, Len(ids[c]) + 1>> \in Drawn(master[c])'
      BY <1>1, <1>2, <3>1, Zenon DEF Drawn
    <3>3. \A m \in Master : Drawn(m) \subseteq Drawn(m)'
      BY <1>1, <1>2, ConnParts, Zenon DEF Drawn
    <3>4. IdsDrawn'
      BY <1>1, <2>2, <3>2, <3>3, IdDrawn, Zenon DEF SetupInv
    <3>5. nextConnectionId' \in [Master -> Nat]
      BY <1>0, <2>2 DEF TypeOK
    <3> QED
      BY <3>4, <3>5, Zenon
  <2> QED
    BY <2>1, <2>2, Zenon DEF Fail
<1>4. TypeOK'
  <2>1. pc' \in [Call -> CallState] /\ closed' \subseteq Call
    BY <1>0, <1>1, Zenon DEF TypeOK, CallState
  <2> QED
    BY <1>0, <1>1, <1>3, <2>1, Zenon DEF TypeOK, pendingVars, mirrorVars, stopVars
<1>5. Progressed'
  BY <1>0, <1>1, <1>2, Zenon DEF Progressed, Waiting
<1>6. Dialled'
  BY <1>1, Zenon DEF SetupInv, Base, Dialled
<1>7. Bounded'
  BY <1>0, <1>1, SlotsKept, Zenon DEF SetupInv, mirrorVars
<1>8. clash \/ (Orderly' /\ Listed')
  BY <1>1, ConnectionsKept, Zenon DEF SetupInv, Listed, pendingVars, mirrorVars, stopVars
<1> QED
  BY <1>1, <1>3, <1>4, <1>5, <1>6, <1>7, <1>8, Zenon DEF SetupInv, Base

(* The end of createMirror, and of the mirror. *)
LEMMA ReturnInv ==
  ASSUME SetupInv, NEW c \in Call, Return(c) \/ Close(c)
  PROVE  SetupInv'
<1>0. TypeOK /\ Progressed
  BY Zenon DEF SetupInv, Base
<1>1. UNCHANGED <<master, nextConnectionId, ids, arriving, pendingVars, hpc, took, mirrorVars,
                  stopVars, clash>>
  BY Zenon DEF Return, Close
<1>2. closed' \subseteq Call
  BY <1>0, Zenon DEF Return, Close, TypeOK
<1>3. \/ pc' = pc
      \/ pc[c] = "call" /\ \E p \in {"ok", "err"} : pc' = [pc EXCEPT ![c] = p]
  BY Zenon DEF Return, Close
<1>4. TypeOK'
  <2>1. pc' \in [Call -> CallState]
    BY <1>0, <1>3, Zenon DEF TypeOK, CallState
  <2> QED
    BY <1>0, <1>1, <1>2, <2>1, Zenon DEF TypeOK, pendingVars, mirrorVars, stopVars
<1>5. \A d \in Call : \/ pc'[d] = pc[d]
                      \/ pc[d] = "call" /\ pc'[d] \in {"ok", "err"}
  BY <1>0, <1>3, Zenon DEF TypeOK
<1>6. Progressed'
  BY <1>0, <1>1, <1>5, Zenon DEF Progressed, Waiting
<1>7. \A d \in Call : pc[d] = "err" => pc'[d] = "err"
  BY <1>5, Zenon
<1>8. clash \/ Listed'
  BY <1>1, Zenon DEF SetupInv, Listed, mirrorVars, stopVars
<1> QED
  BY <1>1, <1>4, <1>6, <1>7, <1>8, QuietStep, Zenon DEF pendingVars, mirrorVars

(* The handler starts, or refuses the call: it has no connection yet. *)
LEMMA CreateMirrorInv ==
  ASSUME SetupInv, NEW c \in Call, CreateMirror(c)
  PROVE  SetupInv'
<1>0. TypeOK /\ Progressed
  BY Zenon DEF SetupInv, Base
<1>1. /\ UNCHANGED <<masterVars, arriving, pendingVars, took, mirrorVars, stopVars, clash>>
      /\ pc[c] = "call" /\ hpc[c] = "idle"
      /\ \E h \in {"wait", "refused"} : hpc' = [hpc EXCEPT ![c] = h]
  BY Zenon DEF CreateMirror
<1>2. /\ hpc'[c] \in {"wait", "refused"}
      /\ \A d \in Call : d # c => hpc'[d] = hpc[d]
  BY <1>0, <1>1, Zenon DEF TypeOK
<1>3. TypeOK'
  <2>1. hpc' \in [Call -> HandlerState]
    BY <1>0, <1>1, Zenon DEF TypeOK, HandlerState
  <2>2. (mirrorMap \cup live \cup waits \subseteq {d \in Call : hpc[d] = "granted"})'
    BY <1>0, <1>1, <1>2, Zenon DEF TypeOK, mirrorVars, stopVars
  <2> QED
    BY <1>0, <1>1, <2>1, <2>2, Zenon DEF TypeOK, masterVars, pendingVars, mirrorVars, stopVars
<1>4. Progressed'
  <2>1. Len(ids[c]) = Kinds /\ took[c] = <<>> /\ Len(took[c]) < Kinds
    BY <1>0, <1>1 DEF Progressed, Kinds
  <2> QED
    BY <1>0, <1>1, <1>2, <2>1, Zenon DEF Progressed, Waiting, masterVars
<1>5. clash \/ Listed'
  BY <1>1, Zenon DEF SetupInv, Listed, mirrorVars, stopVars
<1>6. \A d \in Call : hpc'[d] = "woken" => hpc[d] = "woken"
  BY <1>2, Zenon
<1> QED
  BY <1>1, <1>3, <1>4, <1>5, <1>6, QuietStep, Zenon DEF masterVars, pendingVars, mirrorVars

(* The steps of shutdown only shorten the list of mirrors. *)
LEMMA StopInv ==
  ASSUME SetupInv, shutdown \/ mirrors \/ ShutDown \/ Exit
  PROVE  SetupInv'
<1>0. TypeOK /\ Progressed
  BY Zenon DEF SetupInv, Base
<1>1. /\ UNCHANGED <<masterVars, arriving, pendingVars, hpc, took, live, grant, clash>>
      /\ accepting' \in BOOLEAN
      /\ mirrorMap' \subseteq mirrorMap /\ waits' \subseteq mirrorMap \cup waits
      /\ stop' \in {"mirrors", "wait", "sleep", "exit"}
  BY <1>0, Zenon DEF shutdown, mirrors, ShutDown, Exit, mirrorVars, TypeOK
<1>2. stop' \in {"sleep", "exit"} \/ (stop \notin {"sleep", "exit"} /\ UNCHANGED mirrorMap)
  BY Zenon DEF shutdown, mirrors, ShutDown, Exit, mirrorVars
<1>3. TypeOK'
  BY <1>0, <1>1, Zenon DEF TypeOK, masterVars, pendingVars
<1>4. Progressed'
  BY <1>0, <1>1, Zenon DEF Progressed, Waiting, masterVars
<1>5. clash \/ Listed'
  BY <1>1, <1>2, Zenon DEF SetupInv, Listed
<1> QED
  BY <1>1, <1>3, <1>4, <1>5, QuietStep, Zenon DEF masterVars, pendingVars

-----------------------------------------------------------------------------
(* Under distinct ids the connection a handler waits for is the only one   *)
(* it can be given.                                                        *)
LEMMA Awaited ==
  ASSUME TypeOK, Progressed, Orderly, NEW c \in Call, Waiting(c)
  PROVE  /\ <<c, Len(took[c]) + 1>> \in Pending
         /\ WaitsFor(c) \in Id /\ WaitsFor(c) = IdOf(<<c, Len(took[c]) + 1>>)
         /\ \A x \in Pending : IdOf(x) = WaitsFor(c) => x = <<c, Len(took[c]) + 1>>
<1> DEFINE k == Len(took[c]) + 1
<1>1. k \in 1 .. Kinds /\ Len(ids[c]) = Kinds /\ Len(took[c]) \in Nat
  BY DEF TypeOK, Progressed, Waiting, Kinds
<1>2. WaitsFor(c) \in Id
  BY <1>1 DEF WaitsFor, TypeOK
<1>3. IdOf(<<c, k>>) = WaitsFor(c)
  BY Zenon DEF IdOf, WaitsFor
<1>4. <<c, k>> \notin Taken
  <2>1. ASSUME NEW d \in Call, NEW j \in DOMAIN took[d], took[d][j] = <<c, k>>
        PROVE  FALSE
    <3>1. d = c /\ j = k
      BY <2>1 DEF Orderly, Own
    <3>2. j \in 1 .. Len(took[c])
      BY <3>1 DEF TypeOK
    <3> QED
      BY <1>1, <3>1, <3>2
  <2> QED
    BY <2>1, Zenon DEF Taken, TakenBy
<1>5. <<c, k>> \in Pending
  BY <1>1, <1>4 DEF Pending, Conn
<1> QED
  BY <1>2, <1>3, <1>5, Zenon DEF Orderly, Distinct

(* A handler waits for an id that was drawn, clash or not. *)
LEMMA WaitsForId ==
  ASSUME TypeOK, Progressed, NEW c \in Call, Waiting(c)
  PROVE  WaitsFor(c) \in Id
<1>1. Len(took[c]) + 1 \in 1 .. Kinds /\ Len(ids[c]) = Kinds
  BY DEF TypeOK, Progressed, Waiting, Kinds
<1> QED
  BY <1>1 DEF WaitsFor, TypeOK

(* The entry a handler takes is the connection of its call, the others are *)
(* left to theirs, and nobody else was signalled for it.                   *)
LEMMA TakeOrderly ==
  ASSUME TypeOK, Progressed, Orderly, NEW c \in Call, Waiting(c),
         NEW x \in conns[WaitsFor(c)], Take(c, x), UNCHANGED <<ids, arriving, panicked>>,
         \A d \in Call : d # c => woke'[d] = woke[d]
  PROVE  Orderly'
<1> DEFINE k == Len(took[c]) + 1
           i == WaitsFor(c)
<1>1. i \in Id /\ x \in Pending /\ IdOf(x) = i
  <2>1. i \in Id
    BY WaitsForId, Zenon
  <2> QED
    BY <2>1, Zenon DEF Orderly, Entries
<1>2. x = <<c, k>>
  BY <1>1, Awaited, Zenon
<1>3. /\ took' = [took EXCEPT ![c] = Append(@, x)] /\ conns' = [conns EXCEPT ![i] = {}]
      /\ hpc' = [d \in Call |->
               IF d = c THEN IF Len(took[c]) + 1 = Kinds THEN "get" ELSE "wait"
               ELSE IF d \in Asleep(i) THEN "stuck" ELSE hpc[d]]
  BY Zenon DEF Take
<1>4. /\ conns'[i] = {} /\ \A j \in Id : j # i => conns'[j] = conns[j]
      /\ \A d \in Call : d # c => took'[d] = took[d]
      /\ took'[c] = Append(took[c], x)
  BY <1>1, <1>3, Zenon DEF TypeOK
<1>5. DOMAIN took'[c] = DOMAIN took[c] \cup {k} /\ k \notin DOMAIN took[c]
  <2>1. took[c] \in Seq(Conn) /\ x \in Conn
    BY <1>1, Zenon DEF TypeOK, Pending
  <2> QED
    BY <1>4, <2>1
<1>6. took'[c][k] = x /\ \A j \in DOMAIN took[c] : took'[c][j] = took[c][j]
  <2>1. took[c] \in Seq(Conn) /\ x \in Conn
    BY <1>1, Zenon DEF TypeOK, Pending
  <2> QED
    BY <1>4, <2>1
<1> HIDE DEF k, i
<1>7. Own'
  <2>1. ASSUME NEW d \in Call, NEW j \in DOMAIN took'[d]
        PROVE  took'[d][j] = <<d, j>>
    <3>1. CASE d # c
      <4>1. took'[d] = took[d]
        BY <1>4, <3>1, Zenon
      <4>2. j \in DOMAIN took[d]
        BY <4>1, Zenon
      <4> QED
        BY <4>1, <4>2, Zenon DEF Orderly, Own
    <3>2. CASE d = c /\ j = k
      BY <1>2, <1>6, <3>2, Zenon
    <3>3. CASE d = c /\ j # k
      BY <1>5, <1>6, <3>3, Zenon DEF Orderly, Own
    <3> QED
      BY <3>1, <3>2, <3>3, Zenon
  <2> QED
    BY <2>1, Zenon DEF Own
<1>8. Taken' = Taken \cup {x}
  <2>1. \A y : y \in Taken <=> \E d \in Call : \E j \in DOMAIN took[d] : y = took[d][j]
    BY DEF Taken, TakenBy
  <2>2. \A y : y \in Taken' <=> \E d \in Call : \E j \in DOMAIN took'[d] : y = took'[d][j]
    BY DEF Taken, TakenBy
  <2>3. x \in Taken'
    BY <1>5, <1>6, <2>2, Zenon
  <2>4. ASSUME NEW d \in Call, NEW j \in DOMAIN took[d]
        PROVE  took[d][j] \in Taken'
    <3>1. j \in DOMAIN took'[d] /\ took'[d][j] = took[d][j]
      BY <1>4, <1>5, <1>6, Zenon
    <3> QED
      BY <2>2, <3>1, Zenon
  <2>5. ASSUME NEW d \in Call, NEW j \in DOMAIN took'[d]
        PROVE  took'[d][j] \in Taken \cup {x}
    <3>1. CASE d # c
      BY <1>4, <2>1, <3>1, Zenon
    <3>2. CASE d = c /\ j # k
      <4>1. j \in DOMAIN took[d] /\ took'[d][j] = took[d][j]
        BY <1>5, <1>6, <3>2, Zenon
      <4> QED
        BY <2>1, <4>1, Zenon
    <3>3. CASE d = c /\ j = k
      BY <1>6, <3>3, Zenon
    <3> QED
      BY <3>1, <3>2, <3>3, Zenon
  <2>6. Taken \subseteq Taken'
    BY <2>1, <2>4
  <2>7. Taken' \subseteq Taken \cup {x}
    BY <2>2, <2>5
  <2> QED
    BY <2>3, <2>6, <2>7, Zenon
<1>9. Pending' = Pending \ {x}
  BY <1>8, Zenon DEF Pending
<1>10. (\A y : IdOf(y)' = IdOf(y))
  BY Zenon DEF IdOf
<1>11. Distinct'
  BY <1>9, <1>10, Zenon DEF Orderly, Distinct
<1>12. Entries'
  <2>1. ASSUME NEW j \in Id, NEW y \in conns'[j]
        PROVE  y \in Pending' /\ IdOf(y) = j
    <3>1. j # i /\ y \in conns[j]
      BY <1>4, <2>1, Zenon
    <3>2. y \in Pending /\ IdOf(y) = j
      BY <3>1, Zenon DEF Orderly, Entries
    <3> QED
      BY <1>1, <1>9, <3>1, <3>2, Zenon
  <2> QED
    BY <1>10, <2>1, Zenon DEF Entries
<1>13. Arrivals'
  <2>1. ASSUME NEW y \in arriving
        PROVE  y \in Pending' /\ \A j \in Id : y \notin conns'[j]
    <3>1. y \in Pending /\ \A j \in Id : y \notin conns[j]
      BY Zenon DEF Orderly, Arrivals
    <3>2. y # x
      BY <1>1, <3>1, Zenon DEF i
    <3> QED
      BY <1>4, <1>9, <3>1, <3>2, Zenon
  <2> QED
    BY <2>1, Zenon DEF Arrivals
<1>14. Signalled'
  <2>1. ASSUME NEW d \in Call, hpc'[d] = "woken"
        PROVE  woke'[d] \subseteq conns'[WaitsFor(d)']
    <3>1. d # c /\ hpc[d] = "woken"
      BY <1>3, <2>1, Zenon
    <3>2. WaitsFor(d)' = WaitsFor(d)
      BY <1>4, <3>1, Zenon DEF WaitsFor
    <3>3. WaitsFor(d) \in Id /\ WaitsFor(d) # i
      <4>1. Waiting(d)
        BY <3>1, Zenon DEF Waiting
      <4>2. WaitsFor(d) = i => x = <<d, Len(took[d]) + 1>>
        BY <1>1, <4>1, Awaited, Zenon
      <4>3. x = <<d, Len(took[d]) + 1>> => d = c
        BY <1>2, Zenon
      <4> QED
        BY <3>1, <4>1, <4>2, <4>3, WaitsForId, Zenon
    <3> QED
      BY <1>4, <3>1, <3>2, <3>3, Zenon DEF Orderly, Signalled
  <2> QED
    BY <2>1, Zenon DEF Signalled
<1> QED
  BY <1>7, <1>11, <1>12, <1>13, <1>14, Zenon DEF Orderly

(* Take, as WaitConnection and Wake do it, with an entry of the map or not. *)
LEMMA TakeInv ==
  ASSUME SetupInv, NEW c \in Call, Waiting(c), NEW x \in Conn, Take(c, x),
         ~clash => x \in conns[WaitsFor(c)],
         UNCHANGED <<masterVars, arriving, panicked, mirrorVars, stopVars, clash>>,
         woke' \in [Call -> SUBSET Conn],
         \A d \in Call : d # c => woke'[d] = woke[d]
  PROVE  SetupInv'
<1>0. TypeOK /\ Progressed
  BY Zenon DEF SetupInv, Base
<1>1. WaitsFor(c) \in Id
  BY <1>0, WaitsForId, Zenon
<1>2. /\ conns' = [conns EXCEPT ![WaitsFor(c)] = {}]
      /\ took' = [took EXCEPT ![c] = Append(@, x)]
      /\ hpc' = [d \in Call |->
               IF d = c THEN IF Len(took[c]) + 1 = Kinds THEN "get" ELSE "wait"
               ELSE IF d \in Asleep(WaitsFor(c)) THEN "stuck" ELSE hpc[d]]
  BY Zenon DEF Take
<1>3. /\ hpc'[c] = IF Len(took[c]) + 1 = Kinds THEN "get" ELSE "wait"
      /\ \A d \in Call : d # c => \/ hpc'[d] = hpc[d]
                                  \/ hpc[d] = "asleep" /\ hpc'[d] = "stuck"
  BY <1>2, Zenon DEF Asleep
<1>4. /\ Len(took'[c]) = Len(took[c]) + 1 /\ Len(took[c]) \in Nat
      /\ took' \in [Call -> Seq(Conn)]
      /\ \A d \in Call : d # c => took'[d] = took[d]
  BY <1>0, <1>2 DEF TypeOK
<1>5. TypeOK'
  <2>1. conns' \in [Id -> SUBSET Conn] /\ \A j \in Id : Cardinality(conns'[j]) <= 1
    <3>1. conns' \in [Id -> SUBSET Conn]
      BY <1>0, <1>2, Zenon DEF TypeOK
    <3>2. Cardinality({}) <= 1
      BY FS_EmptySet
    <3>3. \A j \in Id : conns'[j] = {} \/ conns'[j] = conns[j]
      BY <1>0, <1>2, Zenon DEF TypeOK
    <3> QED
      BY <1>0, <3>1, <3>2, <3>3, Zenon DEF TypeOK
  <2>2. hpc' \in [Call -> HandlerState]
    BY <1>0, <1>2, Zenon DEF TypeOK, HandlerState
  <2>3. (mirrorMap \cup live \cup waits \subseteq {d \in Call : hpc[d] = "granted"})'
    <3>1. \A d \in Call : hpc[d] = "granted" => hpc'[d] = "granted"
      BY <1>3, Zenon DEF Waiting
    <3> QED
      BY <1>0, <3>1, Zenon DEF TypeOK, mirrorVars, stopVars
  <2> QED
    BY <1>0, <1>4, <2>1, <2>2, <2>3, Zenon DEF TypeOK, masterVars, mirrorVars, stopVars
<1>6. Progressed'
  <2>1. Len(took[c]) < Kinds /\ Len(ids[c]) = Kinds
    BY <1>0, Zenon DEF Progressed, Waiting
  <2>2. /\ Len(took'[c]) <= Kinds /\ hpc'[c] \in {"wait", "get"}
        /\ hpc'[c] = "wait" => Len(took'[c]) < Kinds
        /\ hpc'[c] = "get" => Len(took'[c]) = Kinds
    BY <1>3, <1>4, <2>1 DEF Kinds
  <2>3. UNCHANGED <<ids, pc>>
    BY Zenon DEF masterVars
  <2>4. ASSUME NEW d \in Call
        PROVE  /\ Len(ids[d]) <= Kinds /\ Len(took'[d]) <= Kinds
               /\ hpc'[d] # "idle" => Len(ids[d]) = Kinds
               /\ hpc'[d] = "idle" => took'[d] = <<>>
               /\ hpc'[d] \in {"wait", "asleep", "woken", "stuck"} => Len(took'[d]) < Kinds
               /\ hpc'[d] \in {"get", "granted"} => Len(took'[d]) = Kinds
    <3>1. CASE d = c
      BY <1>0, <2>1, <2>2, <3>1, Zenon DEF Progressed
    <3>2. CASE d # c
      BY <1>0, <1>3, <1>4, <3>2, Zenon DEF Progressed, Waiting
    <3> QED
      BY <3>1, <3>2, Zenon
  <2> QED
    BY <1>0, <2>3, <2>4, Zenon DEF Progressed, Waiting
<1>7. IdsDrawn'
  BY IdsKept, Zenon DEF SetupInv, masterVars
<1>8. Dialled'
  BY Zenon DEF SetupInv, Base, Dialled, masterVars
<1>9. Bounded'
  BY <1>0, SlotsKept, Zenon DEF SetupInv, mirrorVars
<1>10. clash \/ Listed'
  BY Zenon DEF SetupInv, Listed, mirrorVars, stopVars
<1>11. clash \/ Orderly'
  BY <1>0, TakeOrderly, Zenon DEF SetupInv, masterVars
<1> QED
  BY <1>5, <1>6, <1>7, <1>8, <1>9, <1>10, <1>11, Zenon DEF SetupInv, Base

(* WaitConnection takes the entry it finds, or sleeps. *)
LEMMA WaitConnectionInv ==
  ASSUME SetupInv, NEW c \in Call, WaitConnection(c)
  PROVE  SetupInv'
<1>0. TypeOK /\ Progressed
  BY Zenon DEF SetupInv, Base
<1>1. /\ hpc[c] = "wait" /\ Waiting(c) /\ WaitsFor(c) \in Id
      /\ UNCHANGED <<masterVars, arriving, woke, panicked, mirrorVars, stopVars, clash>>
  BY <1>0, WaitsForId, Zenon DEF WaitConnection, Waiting
<1>2. ASSUME NEW x \in conns[WaitsFor(c)], Take(c, x)
      PROVE  SetupInv'
  <2>1. x \in Conn /\ woke' \in [Call -> SUBSET Conn]
    BY <1>0, <1>1, Zenon DEF TypeOK
  <2> QED
    BY <1>1, <1>2, <2>1, TakeInv, Zenon
<1>3. ASSUME hpc' = [hpc EXCEPT ![c] = "asleep"], UNCHANGED <<conns, took>>
      PROVE  SetupInv'
  <2>1. hpc'[c] = "asleep" /\ \A d \in Call : d # c => hpc'[d] = hpc[d]
    BY <1>0, <1>3, Zenon DEF TypeOK
  <2>2. TypeOK'
    <3>1. hpc' \in [Call -> HandlerState]
      BY <1>0, <1>3, Zenon DEF TypeOK, HandlerState
    <3>2. (mirrorMap \cup live \cup waits \subseteq {d \in Call : hpc[d] = "granted"})'
      BY <1>0, <1>1, <2>1, Zenon DEF TypeOK, mirrorVars, stopVars
    <3> QED
      BY <1>0, <1>1, <1>3, <3>1, <3>2, Zenon DEF TypeOK, masterVars, mirrorVars, stopVars
  <2>3. Progressed'
    BY <1>0, <1>1, <1>3, <2>1, Zenon DEF Progressed, Waiting, masterVars
  <2>4. clash \/ Listed'
    BY <1>1, Zenon DEF SetupInv, Listed, mirrorVars, stopVars
  <2>5. \A d \in Call : hpc'[d] = "woken" => hpc[d] = "woken"
    BY <2>1, Zenon
  <2> QED
    BY <1>1, <1>3, <2>2, <2>3, <2>4, <2>5, QuietStep, Zenon DEF masterVars, mirrorVars
<1> QED
  BY <1>2, <1>3, Zenon DEF WaitConnection

(* Who is signalled finds the connection it was signalled for. *)
LEMMA WakeInv ==
  ASSUME SetupInv, NEW c \in Call, Wake(c)
  PROVE  SetupInv'
<1>0. TypeOK
  BY Zenon DEF SetupInv, Base
<1>1. /\ hpc[c] = "woken" /\ Waiting(c) /\ woke' = [woke EXCEPT ![c] = {}]
      /\ UNCHANGED <<masterVars, arriving, panicked, mirrorVars, stopVars, clash>>
  BY Zenon DEF Wake, Waiting
<1>2. PICK x \in woke[c] : Take(c, x)
  BY Zenon DEF Wake
<1>3. x \in Conn /\ woke' \in [Call -> SUBSET Conn] /\ \A d \in Call : d # c => woke'[d] = woke[d]
  BY <1>0, <1>1, Zenon DEF TypeOK
<1>4. ~clash => x \in conns[WaitsFor(c)]
  BY <1>1, Zenon DEF SetupInv, Orderly, Signalled
<1> QED
  BY <1>1, <1>2, <1>3, <1>4, TakeInv, Zenon

(* Accept finds no entry under the id of the connection, or there was a    *)
(* clash.                                                                  *)
LEMMA AcceptInv ==
  ASSUME SetupInv, Accept
  PROVE  SetupInv'
<1>0. TypeOK /\ Progressed /\ Dialled
  BY Zenon DEF SetupInv, Base
<1>1. PICK x \in arriving :
        /\ arriving' = {}
        /\ \/ /\ conns[IdOf(x)] # {}
              /\ panicked' = TRUE
              /\ UNCHANGED <<conns, hpc, woke>>
           \/ /\ conns[IdOf(x)] = {}
              /\ conns' = [conns EXCEPT ![IdOf(x)] = {x}]
              /\ Signal(IdOf(x), x)
              /\ UNCHANGED panicked
        /\ UNCHANGED <<masterVars, took, mirrorVars, stopVars, clash>>
  BY Zenon DEF Accept
<1> DEFINE i == IdOf(x)
<1>2. x \in Conn /\ i \in Id
  <2>1. x \in Conn /\ x[2] <= Len(ids[x[1]])
    BY <1>0, Zenon DEF TypeOK, Dialled
  <2>2. x[1] \in Call /\ x[2] \in 1 .. Kinds
    BY <2>1, ConnParts, Zenon
  <2>3. ids[x[1]] \in Seq(Id)
    BY <1>0, <2>2, Zenon DEF TypeOK
  <2>4. x[2] \in 1 .. Len(ids[x[1]])
    BY <2>1, <2>2, <2>3 DEF Kinds
  <2> QED
    BY <2>1, <2>3, <2>4 DEF IdOf
<1>3. ~clash => conns[i] = {}
  <2> SUFFICES ASSUME ~clash, NEW y \in conns[i]
               PROVE  FALSE
    BY Zenon
  <2>1. Orderly
    BY Zenon DEF SetupInv
  <2>2. x \in Pending /\ x \notin conns[i]
    BY <1>2, <2>1, Zenon DEF Orderly, Arrivals
  <2>3. y \in Pending /\ IdOf(y) = i
    BY <1>2, <2>1, Zenon DEF Orderly, Entries
  <2>4. y = x
    BY <2>1, <2>2, <2>3, Zenon DEF Orderly, Distinct
  <2> QED
    BY <2>2, <2>4, Zenon
<1>4. /\ IdsDrawn'
      /\ Bounded'
      /\ clash \/ Listed'
  <2>1. IdsDrawn'
    BY <1>1, IdsKept, Zenon DEF SetupInv, masterVars
  <2>2. Bounded'
    BY <1>0, <1>1, SlotsKept, Zenon DEF SetupInv, mirrorVars
  <2>3. clash \/ Listed'
    BY <1>1, Zenon DEF SetupInv, Listed, mirrorVars, stopVars
  <2> QED
    BY <2>1, <2>2, <2>3, Zenon
<1>5. Dialled' /\ arriving' \subseteq Conn /\ Cardinality(arriving') <= 1
  <2>1. Cardinality({}) <= 1
    BY FS_EmptySet
  <2> QED
    BY <1>1, <2>1, Zenon DEF Dialled
<1>6. CASE conns[i] # {} /\ panicked' = TRUE /\ UNCHANGED <<conns, hpc, woke>>
  <2>1. TypeOK'
    BY <1>0, <1>1, <1>5, <1>6, Zenon DEF TypeOK, masterVars, mirrorVars, stopVars
  <2>2. Progressed'
    BY <1>0, <1>1, <1>6, Zenon DEF Progressed, Waiting, masterVars
  <2>3. clash'
    BY <1>1, <1>3, <1>6, Zenon
  <2> QED
    BY <1>4, <1>5, <2>1, <2>2, <2>3, Zenon DEF SetupInv, Base
<1>7. CASE /\ conns[i] = {} /\ conns' = [conns EXCEPT ![i] = {x}] /\ Signal(i, x)
           /\ UNCHANGED panicked
  <2>1. \/ Asleep(i) = {} /\ UNCHANGED <<hpc, woke>>
        \/ \E c \in Asleep(i) : /\ hpc' = [hpc EXCEPT ![c] = "woken"]
                                /\ woke' = [woke EXCEPT ![c] = {x}]
    BY <1>7, Zenon DEF Signal
  <2>2. /\ hpc' \in [Call -> HandlerState] /\ woke' \in [Call -> SUBSET Conn]
        /\ \A d \in Call : \/ hpc'[d] = hpc[d] /\ woke'[d] = woke[d]
                           \/ d \in Asleep(i) /\ hpc'[d] = "woken" /\ woke'[d] = {x}
    <3>1. hpc \in [Call -> HandlerState] /\ woke \in [Call -> SUBSET Conn]
      BY <1>0, Zenon DEF TypeOK
    <3>2. CASE UNCHANGED <<hpc, woke>>
      BY <3>1, <3>2, Zenon
    <3>3. ASSUME NEW c \in Asleep(i), hpc' = [hpc EXCEPT ![c] = "woken"],
                 woke' = [woke EXCEPT ![c] = {x}]
          PROVE  /\ hpc' \in [Call -> HandlerState] /\ woke' \in [Call -> SUBSET Conn]
                 /\ hpc'[c] = "woken" /\ woke'[c] = {x}
                 /\ \A d \in Call : d # c => hpc'[d] = hpc[d] /\ woke'[d] = woke[d]
      <4>1. c \in Call /\ "woken" \in HandlerState
        BY Zenon DEF Asleep, HandlerState
      <4> QED
        BY <1>2, <3>1, <3>3, <4>1, Zenon
    <3> QED
      BY <2>1, <3>2, <3>3, Zenon
  <2>3. /\ conns' \in [Id -> SUBSET Conn] /\ conns'[i] = {x}
        /\ \A j \in Id : j # i => conns'[j] = conns[j]
    BY <1>0, <1>2, <1>7, Zenon DEF TypeOK
  <2>4. \A j \in Id : Cardinality(conns'[j]) <= 1
    <3>1. Cardinality({x}) = 1
      BY FS_Singleton, Zenon
    <3>2. Cardinality({x}) <= 1
      BY <3>1
    <3> QED
      BY <1>0, <2>3, <3>2, Zenon DEF TypeOK
  <2>5. TypeOK'
    <3>1. (mirrorMap \cup live \cup waits \subseteq {d \in Call : hpc[d] = "granted"})'
      BY <1>0, <1>1, <2>2, Zenon DEF TypeOK, Asleep, mirrorVars, stopVars
    <3> QED
      BY <1>0, <1>1, <1>5, <1>7, <2>2, <2>3, <2>4, <3>1, Zenon
      DEF TypeOK, masterVars, mirrorVars, stopVars
  <2>6. Progressed'
    BY <1>0, <1>1, <2>2, Zenon DEF Progressed, Waiting, Asleep, masterVars
  <2>7. ASSUME ~clash
        PROVE  Orderly'
    <3>1. Orderly /\ x \in Pending
      BY <2>7, Zenon DEF SetupInv, Orderly, Arrivals
    <3>2. (\A y : IdOf(y)' = IdOf(y)) /\ (\A c : WaitsFor(c)' = WaitsFor(c))
      BY <1>1, Zenon DEF IdOf, WaitsFor, masterVars
    <3>3. UNCHANGED <<ids, took>>
      BY <1>1, Zenon DEF masterVars
    <3>4. Taken' = Taken
      BY <3>3 DEF Taken, TakenBy
    <3>5. Pending' = Pending
      BY <3>3, <3>4, Zenon DEF Pending
    <3>6. (Distinct /\ Own /\ ~panicked)'
      BY <1>7, <3>1, <3>2, <3>3, <3>5, Zenon DEF Orderly, Distinct, Own
    <3>7. Entries'
      BY <2>3, <3>1, <3>2, <3>5, Zenon DEF Orderly, Entries
    <3>8. Arrivals'
      BY <1>1, Zenon DEF Arrivals
    <3>9. Signalled'
      <4>1. ASSUME NEW d \in Call, hpc'[d] = "woken"
            PROVE  woke'[d] \subseteq conns'[WaitsFor(d)]
        <5>1. CASE d \in Asleep(i) /\ woke'[d] = {x}
          BY <2>3, <5>1, Zenon DEF Asleep
        <5>2. CASE hpc'[d] = hpc[d] /\ woke'[d] = woke[d]
          <6>1. woke[d] \subseteq conns[WaitsFor(d)]
            BY <3>1, <4>1, <5>2, Zenon DEF Orderly, Signalled
          <6>2. WaitsFor(d) \in Id
            BY <1>0, <4>1, <5>2, WaitsForId, Zenon DEF Waiting
          <6> QED
            BY <1>7, <2>3, <5>2, <6>1, <6>2, Zenon
        <5> QED
          BY <2>2, <5>1, <5>2, Zenon
      <4> QED
        BY <3>2, <4>1, Zenon DEF Signalled
    <3> QED
      BY <3>6, <3>7, <3>8, <3>9, Zenon DEF Orderly
  <2> QED
    BY <1>1, <1>4, <1>5, <2>5, <2>6, <2>7, Zenon DEF SetupInv, Base
<1> QED
  BY <1>1, <1>6, <1>7, Zenon

-----------------------------------------------------------------------------
(* Mirrors have their own connections, and so their own keys. *)
LEMMA OwnKey ==
  ASSUME TypeOK, Progressed, Own, NEW c \in Call, hpc[c] \in {"get", "granted"}
  PROVE  SameKey(c) \subseteq {c}
<1>1. ASSUME NEW d \in SameKey(c)
      PROVE  d = c
  <2>1. d \in Call /\ hpc[d] = "granted" /\ took[d][Rpc] = took[c][Rpc]
    BY Zenon DEF SameKey, TypeOK
  <2>2. Rpc \in DOMAIN took[d] /\ Rpc \in DOMAIN took[c]
    BY <2>1 DEF TypeOK, Progressed, Rpc, Kinds
  <2>3. took[d][Rpc] = <<d, Rpc>> /\ took[c][Rpc] = <<c, Rpc>>
    BY <2>1, <2>2, Zenon DEF Own
  <2>4. <<d, Rpc>> = <<c, Rpc>>
    BY <2>1, <2>3, Zenon
  <2> QED
    BY <2>4, Zenon
<1> QED
  BY <1>1, Zenon

(* getMirror replaces no other mirror and grants what remains. *)
LEMMA getMirrorInv ==
  ASSUME SetupInv, NEW c \in Call, getMirror(c)
  PROVE  SetupInv'
<1> DEFINE remaining == Jobs - Used(mirrorMap)
<1>0. TypeOK /\ Progressed /\ Bounded
  BY Zenon DEF SetupInv, Base
<1>1. /\ hpc[c] = "get"
      /\ UNCHANGED <<master, nextConnectionId, pc, ids, arriving, pendingVars, took, stopVars,
                     clash>>
  BY Zenon DEF getMirror
<1>2. \/ /\ remaining > 0
         /\ grant' = [grant EXCEPT ![c] = Granted(c, remaining)]
         /\ mirrorMap' = (mirrorMap \ SameKey(c)) \cup {c}
         /\ live' = live \cup {c}
         /\ hpc' = [hpc EXCEPT ![c] = "granted"]
         /\ UNCHANGED closed
      \/ /\ hpc' = [hpc EXCEPT ![c] = "refused"]
         /\ closed' = closed \cup {x[1] : x \in TakenBy(c)}
         /\ UNCHANGED mirrorVars
  BY Zenon DEF getMirror
<1>3. c \notin mirrorMap /\ c \notin live /\ c \notin waits
  BY <1>0, <1>1, Zenon DEF TypeOK
<1>4. /\ \A d \in Call : d # c => hpc'[d] = hpc[d]
      /\ hpc'[c] \in {"granted", "refused"} /\ hpc' \in [Call -> HandlerState]
  BY <1>0, <1>2, Zenon DEF TypeOK, HandlerState
<1>5. Progressed'
  BY <1>0, <1>1, <1>4, Zenon DEF Progressed, Waiting
<1>6. \A d \in Call : hpc'[d] = "woken" => hpc[d] = "woken"
  BY <1>4, Zenon
<1>7. CASE /\ hpc' = [hpc EXCEPT ![c] = "refused"]
           /\ closed' = closed \cup {x[1] : x \in TakenBy(c)}
           /\ UNCHANGED mirrorVars
  <2>1. closed' \subseteq Call
    <3>1. \A x \in TakenBy(c) : x \in Conn
      BY <1>0 DEF TakenBy, TypeOK
    <3> QED
      <4>1. \A x \in TakenBy(c) : x[1] \in Call
        BY <3>1, ConnParts, Zenon
      <4>2. closed \subseteq Call
        BY <1>0, Zenon DEF TypeOK
      <4> QED
        BY <1>7, <4>1, <4>2, Zenon
  <2>2. (mirrorMap \cup live \cup waits \subseteq {d \in Call : hpc[d] = "granted"})'
    BY <1>0, <1>1, <1>3, <1>4, <1>7, Zenon DEF TypeOK, mirrorVars, stopVars
  <2>3. TypeOK'
    BY <1>0, <1>1, <1>4, <1>7, <2>1, <2>2, Zenon DEF TypeOK, pendingVars, mirrorVars, stopVars
  <2>4. clash \/ Listed'
    BY <1>1, <1>7, Zenon DEF SetupInv, Listed, mirrorVars, stopVars
  <2> QED
    BY <1>1, <1>5, <1>6, <1>7, <2>3, <2>4, QuietStep, Zenon DEF pendingVars, mirrorVars
<1>8. CASE /\ remaining > 0
           /\ grant' = [grant EXCEPT ![c] = Granted(c, remaining)]
           /\ mirrorMap' = (mirrorMap \ SameKey(c)) \cup {c}
           /\ live' = live \cup {c}
           /\ hpc' = [hpc EXCEPT ![c] = "granted"]
           /\ UNCHANGED closed
  <2>1. Used(mirrorMap) \in Nat /\ Used(mirrorMap) = Cardinality(Slots(mirrorMap, grant))
    <3>1. mirrorMap \in SUBSET Call /\ grant \in [Call -> 0 .. Jobs]
      BY <1>0, Zenon DEF TypeOK
    <3> QED
      BY <3>1, SlotsFinite, Zenon DEF Used
  <2>2. /\ Granted(c, remaining) \in 0 .. Jobs
        /\ Granted(c, remaining) + Used(mirrorMap) <= Jobs
    <3>1. Jobs \in Nat /\ Wanted[c] \in Nat
      BY SetupAssumption, Zenon
    <3>2. remaining \in Nat /\ remaining <= Jobs /\ remaining + Used(mirrorMap) = Jobs
      BY <1>8, <2>1, <3>1
    <3>3. /\ Granted(c, remaining) \in Nat /\ Granted(c, remaining) <= remaining
      BY <3>1, <3>2 DEF Granted
    <3> QED
      BY <2>1, <3>1, <3>2, <3>3
  <2>3. TypeOK'
    <3>1. grant' \in [Call -> 0 .. Jobs]
      BY <1>0, <1>8, <2>2, Zenon DEF TypeOK
    <3>2. hpc'[c] = "granted"
      BY <1>0, <1>8, Zenon DEF TypeOK
    <3>3. (mirrorMap \cup live \cup waits \subseteq {d \in Call : hpc[d] = "granted"})'
      <4>1. \A d \in Call : hpc[d] = "granted" => hpc'[d] = "granted"
        BY <1>4, <3>2, Zenon
      <4>2. /\ mirrorMap' \subseteq mirrorMap \cup {c} /\ live' \subseteq live \cup {c}
            /\ waits' = waits
        BY <1>1, <1>8, Zenon DEF stopVars
      <4> QED
        BY <1>0, <3>2, <4>1, <4>2, Zenon DEF TypeOK
    <3> QED
      BY <1>0, <1>1, <1>4, <1>8, <3>1, <3>3, Zenon DEF TypeOK, pendingVars, stopVars
  <2>4. Bounded'
    <3>1. /\ mirrorMap \in SUBSET Call /\ grant \in [Call -> 0 .. Jobs]
          /\ mirrorMap \ SameKey(c) \in SUBSET mirrorMap
      BY <1>0, Zenon DEF TypeOK
    <3> DEFINE g == Granted(c, remaining)
               u == Cardinality(Slots((mirrorMap \ SameKey(c)) \cup {c}, [grant EXCEPT ![c] = g]))
    <3>2. u <= Cardinality(Slots(mirrorMap, grant)) + g
      BY <1>3, <2>2, <3>1, MoreSlots, Zenon
    <3>3. Used(mirrorMap)' = u
      BY <1>8, Zenon DEF Used
    <3>4. Used(mirrorMap)' \in Nat
      <4>1. mirrorMap' \in SUBSET Call /\ grant' \in [Call -> 0 .. Jobs]
        BY <2>3, Zenon DEF TypeOK
      <4>2. Cardinality(Slots(mirrorMap', grant')) \in Nat
        BY <4>1, SlotsFinite, Zenon
      <4> QED
        BY <4>2, Zenon DEF Used
    <3> HIDE DEF g, u
    <3>5. g \in Nat /\ g + Used(mirrorMap) <= Jobs
      BY <2>2, SetupAssumption DEF g
    <3> QED
      BY <2>1, <3>2, <3>3, <3>4, <3>5, SetupAssumption DEF Bounded
  <2>5. clash \/ Listed'
    <3>1. clash \/ SameKey(c) = {}
      <4>1. SameKey(c) \subseteq mirrorMap
        BY Zenon DEF SameKey
      <4>2. clash \/ SameKey(c) \subseteq {c}
        BY <1>0, <1>1, OwnKey, Zenon DEF SetupInv, Orderly
      <4> QED
        BY <1>3, <4>1, <4>2, Zenon
    <3> QED
      BY <1>1, <1>8, <3>1, Zenon DEF SetupInv, Listed, stopVars
  <2>6. IdsDrawn' /\ Dialled'
    BY <1>1, IdsKept, Zenon DEF SetupInv, Base, Dialled
  <2>7. clash \/ Orderly'
    BY <1>1, <1>6, ConnectionsKept, Zenon DEF SetupInv, pendingVars
  <2> QED
    BY <1>1, <1>5, <2>3, <2>4, <2>5, <2>6, <2>7, Zenon DEF SetupInv, Base
<1> QED
  BY <1>2, <1>7, <1>8, Zenon

(* DropMirror deletes the entry of the mirror that has ended. *)
LEMMA MirrorEndsInv ==
  ASSUME SetupInv, NEW c \in Call, MirrorShutdown(c) \/ DropMirror(c)
  PROVE  SetupInv'
<1>0. TypeOK /\ Progressed
  BY Zenon DEF SetupInv, Base
<1>1. /\ UNCHANGED <<grant, master, nextConnectionId, pc, ids, arriving, pendingVars, hpc, took,
                     stopVars, clash>>
      /\ mirrorMap' \subseteq mirrorMap /\ live' \subseteq live
  BY Zenon DEF MirrorShutdown, DropMirror, masterVars
<1>2. closed' \subseteq Call
  <2>1. CASE DropMirror(c)
    BY <1>0, <2>1, Zenon DEF DropMirror, masterVars, TypeOK
  <2>2. CASE MirrorShutdown(c)
    <3>1. hpc[c] = "granted"
      BY <1>0, <2>2, Zenon DEF MirrorShutdown, TypeOK
    <3>2. \A k \in {Rpc, Content} : took[c][k] \in Conn
      BY <1>0, <3>1 DEF TypeOK, Progressed, Rpc, Content, Kinds
    <3>3. \A k \in {Rpc, Content} : took[c][k][1] \in Call
      BY <3>2, ConnParts, Zenon
    <3> QED
      BY <1>0, <2>2, <3>3, Zenon DEF MirrorShutdown, TypeOK
  <2> QED
    BY <2>1, <2>2, Zenon
<1>3. TypeOK'
  BY <1>0, <1>1, <1>2, Zenon DEF TypeOK, pendingVars, stopVars
<1>4. Progressed'
  BY <1>0, <1>1, Zenon DEF Progressed, Waiting
<1>5. clash \/ Listed'
  <2>1. CASE MirrorShutdown(c)
    BY <1>1, <2>1, Zenon DEF SetupInv, Listed, MirrorShutdown, stopVars
  <2>2. CASE DropMirror(c)
    <3>1. clash \/ SameKey(c) \subseteq {c}
      BY <1>0, <2>2, OwnKey, Zenon DEF SetupInv, Orderly, DropMirror
    <3> QED
      BY <1>1, <2>2, <3>1, Zenon DEF SetupInv, Listed, DropMirror, stopVars
  <2> QED
    BY <2>1, <2>2, Zenon
<1> QED
  BY <1>1, <1>3, <1>4, <1>5, QuietStep, Zenon DEF pendingVars

-----------------------------------------------------------------------------
(* Before the first call. *)
LEMMA InitInv == Init => SetupInv
<1> SUFFICES ASSUME Init PROVE SetupInv
  BY Zenon
<1>1. TypeOK
  <2>1. Cardinality({}) = 0 /\ IsFiniteSet({})
    BY FS_EmptySet, Zenon
  <2>2. Cardinality({}) <= 1 /\ 0 \in Nat /\ 0 \in 0 .. Jobs
    BY <2>1, SetupAssumption
  <2>3. <<>> \in Seq(Id) /\ <<>> \in Seq(Conn)
    OBVIOUS
  <2>4. master \in [Call -> Master]
    BY SetupAssumption, Zenon DEF Init
  <2> QED
    BY <2>2, <2>3, <2>4, Zenon DEF Init, TypeOK, CallState, HandlerState
<1>2. Progressed
  BY DEF Init, Progressed, Waiting, Kinds
<1>3. IdsDrawn
  <2>1. \A m \in Master : Drawn(m) \in SUBSET Conn
    BY Zenon DEF Drawn, Conn
  <2>2. \A m \in Master : Cardinality(Drawn(m)) \in Nat /\ nextConnectionId[m] = 0
    BY <2>1, ConnCount, Zenon DEF Init
  <2> QED
    BY <2>2 DEF IdsDrawn
<1>4. Dialled /\ Listed
  BY Zenon DEF Init, Dialled, Listed
<1>5. Bounded
  <2>1. Slots(mirrorMap, grant) = {}
    BY Zenon DEF Init, Slots
  <2>2. Cardinality({}) = 0
    BY FS_EmptySet, Zenon
  <2> QED
    BY <2>1, <2>2, SetupAssumption DEF Bounded, Used
<1>6. Orderly
  <2>1. Pending = {}
    BY DEF Init, Pending, Conn
  <2>2. Own
    BY DEF Init, Own
  <2>3. Distinct /\ Entries /\ Arrivals /\ ~panicked
    BY <2>1, Zenon DEF Init, Distinct, Entries, Arrivals
  <2>4. Signalled
    BY Zenon DEF Init, Signalled
  <2> QED
    BY <2>2, <2>3, <2>4, Zenon DEF Orderly
<1> QED
  BY <1>1, <1>2, <1>3, <1>4, <1>5, <1>6, Zenon DEF SetupInv, Base

(* Every step keeps the invariant. *)
LEMMA NextInv == SetupInv /\ [Next]_vars => SetupInv'
<1> SUFFICES ASSUME SetupInv, [Next]_vars PROVE SetupInv'
  BY Zenon
<1>1. CASE UNCHANGED vars
  <2>1. TypeOK'
    BY <1>1, Zenon DEF SetupInv, Base, vars, masterVars, pendingVars, mirrorVars, stopVars, TypeOK
  <2>2. Progressed'
    BY <1>1, Zenon DEF SetupInv, Base, vars, masterVars, Progressed, Waiting
  <2>3. clash \/ Listed'
    BY <1>1, Zenon DEF SetupInv, Listed, vars, mirrorVars, stopVars
  <2> QED
    BY <1>1, <2>1, <2>2, <2>3, QuietStep, Zenon DEF vars, masterVars, pendingVars, mirrorVars
<1>2. ASSUME NEW c \in Call, Dial(c) \/ Fail(c) \/ Return(c) \/ Close(c)
      PROVE  SetupInv'
  BY <1>2, DialInv, FailInv, ReturnInv, Zenon
<1>3. ASSUME NEW c \in Call, Handler(c)
      PROVE  SetupInv'
  BY <1>3, CreateMirrorInv, WaitConnectionInv, WakeInv, getMirrorInv, Zenon DEF Handler
<1>4. ASSUME NEW c \in Call, MirrorShutdown(c) \/ DropMirror(c)
      PROVE  SetupInv'
  BY <1>4, MirrorEndsInv, Zenon
<1>5. CASE Accept
  BY <1>5, AcceptInv, Zenon
<1>6. CASE shutdown \/ mirrors \/ ShutDown \/ Exit
  BY <1>6, StopInv, Zenon
<1> QED
  BY <1>1, <1>2, <1>3, <1>4, <1>5, <1>6, Zenon DEF Next

(* The invariant, for any number of calls, masters and jobs. *)
THEOREM SetupInvariant == Spec => []SetupInv
  BY InitInv, NextInv, PTL DEF Spec

(* Types; among them, that a master draws no more ids than its calls have  *)
(* connections, and no mirror is granted more than the worker's jobs.      *)
THEOREM SetupTypes == Spec => []TypeOK
<1>1. SetupInv => TypeOK
  BY Zenon DEF SetupInv, Base
<1> QED
  BY <1>1, SetupInvariant, PTL

(* Accept panics ("accepted the same connection id twice") only when an id *)
(* is used again before the connection under it was taken.                 *)
THEOREM PanicsNeedAClash == Spec => []PanicMeansClash
<1>1. SetupInv => PanicMeansClash
  BY Zenon DEF SetupInv, Orderly, PanicMeansClash
<1> QED
  BY <1>1, SetupInvariant, PTL

(* Short of that, CreateMirror gets the connections of its own call, each in *)
(* its role, however many masters and calls interleave.                    *)
THEOREM ConnectionsReachTheirMirror == Spec => []OwnConnections
<1>1. SetupInv => OwnConnections
  BY Zenon DEF SetupInv, Orderly, Own, OwnConnections
<1> QED
  BY <1>1, SetupInvariant, PTL

(* A mirror that can run tasks is counted in getMirror, and no job is      *)
(* promised twice, until shutdown replaces the map.                        *)
THEOREM MirrorsAreCounted == Spec => []SlotsCounted
<1>1. SetupInv => SlotsCounted
  BY Zenon DEF SetupInv, Bounded, Listed, SlotsCounted
<1> QED
  BY <1>1, SetupInvariant, PTL
=============================================================================
