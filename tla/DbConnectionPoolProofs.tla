----------------------- MODULE DbConnectionPoolProofs -----------------------
(***************************************************************************)
(* IInv is an inductive invariant of DbConnectionPool for every number of  *)
(* workers and connections; ExclusiveLease and NoLostWakeup follow, and    *)
(* with them the refinement of ConnectionLease.                            *)
(***************************************************************************)
EXTENDS DbConnectionPool, FiniteSetTheorems, TLAPS

-----------------------------------------------------------------------------
(* The sets behind NoLostWakeup are finite.                                *)

\* Waiting and notified workers are finitely many.
LEMMA WorkerSetsFinite ==
  ASSUME NEW p
  PROVE  IsFiniteSet(Waiters(p)) /\ IsFiniteSet(Notified(p))
         /\ Cardinality(Notified(p)) \in Nat
<1>1. Waiters(p) \subseteq Workers /\ Notified(p) \subseteq Workers
  BY DEF Waiters, Notified
<1>2. IsFiniteSet(Waiters(p)) /\ IsFiniteSet(Notified(p))
  BY <1>1, PoolAssumption, FS_Subset
<1> QED
  BY <1>2, FS_CardinalityType

\* A worker that becomes notified adds one to the count.
LEMMA NotifiedAdd ==
  ASSUME NEW p \in [Workers -> WorkerPcs], NEW v \in Workers, p[v] # "notified"
  PROVE  Cardinality(Notified([p EXCEPT ![v] = "notified"]))
           = Cardinality(Notified(p)) + 1
<1>1. Notified([p EXCEPT ![v] = "notified"]) = Notified(p) \cup {v}
  BY DEF Notified
<1>2. v \notin Notified(p)
  BY DEF Notified
<1> QED
  BY <1>1, <1>2, WorkerSetsFinite, FS_AddElement

\* A worker that moves elsewhere takes at most one from the count.
LEMMA NotifiedLeave ==
  ASSUME NEW p \in [Workers -> WorkerPcs], NEW v \in Workers,
         NEW x \in WorkerPcs, x # "notified"
  PROVE  /\ p[v] = "notified" =>
              Cardinality(Notified([p EXCEPT ![v] = x])) = Cardinality(Notified(p)) - 1
         /\ p[v] # "notified" =>
              Cardinality(Notified([p EXCEPT ![v] = x])) = Cardinality(Notified(p))
<1>1. Notified([p EXCEPT ![v] = x]) = Notified(p) \ {v}
  BY DEF Notified
<1>2. CASE p[v] = "notified"
  <2>1. v \in Notified(p)
    BY <1>2 DEF Notified
  <2> QED
    BY <1>1, <1>2, <2>1, WorkerSetsFinite, FS_RemoveElement
<1>3. CASE p[v] # "notified"
  <2>1. Notified(p) \ {v} = Notified(p)
    BY <1>3 DEF Notified
  <2> QED
    BY <1>1, <1>3, <2>1
<1> QED
  BY <1>2, <1>3

\* notify_one() after the worker's own step keeps types, moves only one
\* waiter, and when it finds no waiter there is none.
LEMMA NotifyOneEffect ==
  ASSUME NEW p \in [Workers -> WorkerPcs], NEW q \in NotifyOne(p)
  PROVE  /\ q \in [Workers -> WorkerPcs]
         /\ \A u \in Workers : q[u] = p[u] \/ (p[u] = "waiting" /\ q[u] = "notified")
         /\ Waiters(q) # {} => Cardinality(Notified(q)) = Cardinality(Notified(p)) + 1
<1>1. CASE Waiters(p) = {}
  BY <1>1 DEF NotifyOne
<1>2. CASE Waiters(p) # {}
  <2>1. PICK v \in Waiters(p) : q = [p EXCEPT ![v] = "notified"]
    BY <1>2 DEF NotifyOne
  <2>2. v \in Workers /\ p[v] = "waiting"
    BY <2>1 DEF Waiters
  <2>3. Cardinality(Notified(q)) = Cardinality(Notified(p)) + 1
    BY <2>1, <2>2, NotifiedAdd
  <2> QED
    BY <2>1, <2>2, <2>3 DEF WorkerPcs
<1> QED
  BY <1>1, <1>2

-----------------------------------------------------------------------------
(* The two queue operations.                                               *)

\* push() puts the connection behind the others.
LEMMA PushFacts ==
  ASSUME NEW q \in Seq(Conns), NEW c \in Conns
  PROVE  /\ Append(q, c) \in Seq(Conns)
         /\ Len(Append(q, c)) = Len(q) + 1
         /\ Append(q, c)[Len(q) + 1] = c
         /\ \A i \in 1..Len(q) : Append(q, c)[i] = q[i]
OBVIOUS

\* pop() shifts the rest forward.
LEMMA PopFacts ==
  ASSUME NEW q \in Seq(Conns), q # << >>
  PROVE  /\ Tail(q) \in Seq(Conns)
         /\ Len(q) \in Nat \ {0}
         /\ Len(Tail(q)) = Len(q) - 1
         /\ Head(q) = q[1] /\ q[1] \in Conns
         /\ \A i \in 1..(Len(q) - 1) : Tail(q)[i] = q[i + 1]
OBVIOUS

-----------------------------------------------------------------------------
(* One lemma per kind of step.                                             *)

\* Arithmetic of one more notified worker.
LEMMA StillBelow ==
  ASSUME NEW n \in Nat, NEW m \in Nat, n <= m
  PROVE  n <= m + 1
OBVIOUS

\* Arithmetic of one connection fewer.
LEMMA OneFewer ==
  ASSUME NEW n \in Nat \ {0}, NEW m \in Nat, n <= m, NEW k \in {m, m - 1}
  PROVE  n - 1 <= k
OBVIOUS

\* Arithmetic of one connection and one notification more.
LEMMA OneMoreEach ==
  ASSUME NEW n \in Nat, NEW m \in Nat, n <= m
  PROVE  n + 1 <= m + 1
OBVIOUS

\* Steps that leave queue, leases, workers and initialisation alone.
LEMMA QuietStep ==
  ASSUME IInv, TypeOK',
         UNCHANGED <<connections, lease, created, pc, initialized>>,
         initPc' = "creating" => ~initialized
  PROVE  IInv'
BY DEF IInv, HoldsWhileLeased, ExclusiveLease, Queued, Leased,
       WaitOnlyInitialized, NoLostWakeup, Waiters, Notified

\* A worker moves and nothing else changes.  It may only stop being notified
\* when the queue is empty.
LEMMA WorkerStep ==
  ASSUME IInv, TypeOK',
         UNCHANGED <<connections, lease, created, initialized, initPc>>,
         NEW w \in Workers, NEW x \in WorkerPcs,
         pc' = [pc EXCEPT ![w] = x],
         x \in Holding <=> pc[w] \in Holding,
         x \in {"waiting", "notified"} => initialized,
         x = "waiting" => connections = << >>,
         pc[w] = "notified" => connections = << >>
  PROVE  IInv'
<1>1. HoldsWhileLeased' /\ ExclusiveLease'
  BY DEF IInv, TypeOK, HoldsWhileLeased, ExclusiveLease, Queued, Leased
<1>2. WaitOnlyInitialized'
  BY DEF IInv, TypeOK, WaitOnlyInitialized, Waiters, Notified
<1>3. NoLostWakeup'
  <2>1. CASE connections = << >>
    <3>1. Len(connections') = 0 /\ Cardinality(Notified(pc')) \in Nat
      BY <2>1, WorkerSetsFinite
    <3> QED
      BY <3>1 DEF NoLostWakeup
  <2>2. CASE connections # << >> /\ x = "notified"
    <3>1. Cardinality(Notified(pc')) = Cardinality(Notified(pc)) + 1
      BY <2>2, NotifiedAdd DEF IInv, TypeOK
    <3>2. Waiters(pc') # {} => Waiters(pc) # {}
      BY <2>2 DEF IInv, TypeOK, Waiters
    <3>3. Cardinality(Notified(pc)) \in Nat /\ Len(connections) \in Nat
      BY WorkerSetsFinite DEF IInv, TypeOK
    <3>4. Len(connections') = Len(connections)
      OBVIOUS
    <3>5. Waiters(pc) # {} => Len(connections) <= Cardinality(Notified(pc))
      BY DEF NoLostWakeup, IInv
    <3>6. Waiters(pc) # {} => Len(connections) <= Cardinality(Notified(pc)) + 1
      BY <3>3, <3>5, StillBelow
    <3> QED
      BY <3>1, <3>2, <3>4, <3>6 DEF NoLostWakeup
  <2>3. CASE connections # << >> /\ x # "notified"
    <3>1. Cardinality(Notified(pc')) = Cardinality(Notified(pc))
      BY <2>3, NotifiedLeave DEF IInv, TypeOK
    <3>2. Waiters(pc') # {} => Waiters(pc) # {}
      BY <2>3 DEF IInv, TypeOK, Waiters
    <3>3. Len(connections') = Len(connections)
      OBVIOUS
    <3>4. Waiters(pc) # {} => Len(connections) <= Cardinality(Notified(pc))
      BY DEF NoLostWakeup, IInv
    <3> QED
      BY <3>1, <3>2, <3>3, <3>4 DEF NoLostWakeup
  <2> QED
    BY <2>1, <2>2, <2>3
<1> QED
  BY <1>1, <1>2, <1>3 DEF IInv

\* init() pushes a fresh connection while nobody can be waiting.
LEMMA InitPushStep ==
  ASSUME IInv, TypeOK', InitPush
  PROVE  IInv'
<1>1. PICK c \in Conns \ created :
        connections' = Append(connections, c) /\ created' = created \cup {c}
  BY DEF InitPush
<1>2. /\ UNCHANGED <<lease, pc, initialized, initPc>>
      /\ initPc = "creating"
      /\ connections \in Seq(Conns)
      /\ lease \in [Workers -> Conns \cup {NoConn}]
      /\ Len(connections) \in Nat
  BY DEF InitPush, IInv, TypeOK
<1>3. \A i \in 1..Len(connections) : connections[i] \in created /\ connections[i] # c
  BY <1>1 DEF IInv, ExclusiveLease, Queued
<1>4. \A v \in Workers : lease[v] # c
  BY <1>1, PoolAssumption DEF IInv, ExclusiveLease, Leased
<1>5. /\ Len(connections') = Len(connections) + 1
      /\ connections'[Len(connections) + 1] = c
      /\ \A i \in 1..Len(connections) : connections'[i] = connections[i]
  BY <1>1, <1>2, PushFacts
<1>6. Queued' = Queued \cup {c}
  BY <1>2, <1>5 DEF Queued
<1>7. ExclusiveLease'
  <2>1. \A i, j \in 1..Len(connections)' : connections'[i] = connections'[j] => i = j
    BY <1>2, <1>3, <1>5 DEF IInv, ExclusiveLease
  <2>2. \A i \in 1..Len(connections)', v \in Workers : connections'[i] # lease'[v]
    BY <1>2, <1>4, <1>5 DEF IInv, ExclusiveLease
  <2>3. created' = Queued' \cup Leased'
    BY <1>1, <1>2, <1>6 DEF IInv, ExclusiveLease, Leased
  <2> QED
    BY <1>2, <2>1, <2>2, <2>3 DEF IInv, ExclusiveLease
<1>8. HoldsWhileLeased' /\ WaitOnlyInitialized' /\ (initPc' = "creating" => ~initialized')
  BY <1>2 DEF IInv, HoldsWhileLeased, WaitOnlyInitialized, Waiters, Notified
<1>9. NoLostWakeup'
  BY <1>2 DEF IInv, WaitOnlyInitialized, NoLostWakeup, Waiters, Notified
<1> QED
  BY <1>7, <1>8, <1>9 DEF IInv

\* A worker pops the front: the connection changes hands, and a woken worker
\* that pops leaves one connection and one notification fewer.
LEMMA PopStep ==
  ASSUME IInv, TypeOK', NEW w \in Workers, GetPop(w)
  PROVE  IInv'
<1> DEFINE c == connections[1]
<1>1. /\ UNCHANGED <<created, initialized, initPc>>
      /\ connections \in Seq(Conns) /\ connections # << >>
      /\ lease \in [Workers -> Conns \cup {NoConn}]
      /\ pc \in [Workers -> WorkerPcs]
      /\ pc[w] \in {"locking", "notified"}
      /\ connections' = Tail(connections)
      /\ lease' = [lease EXCEPT ![w] = Head(connections)]
      /\ pc' = [pc EXCEPT ![w] = "pinging"]
  BY DEF GetPop, TakeFront, IInv, TypeOK, initVars
<1>2. /\ Len(connections) \in Nat \ {0}
      /\ Len(connections') = Len(connections) - 1
      /\ lease' = [lease EXCEPT ![w] = c] /\ c \in Conns
      /\ \A i \in 1..(Len(connections) - 1) : connections'[i] = connections[i + 1]
  BY <1>1, PopFacts
<1>3. lease[w] = NoConn /\ c # NoConn
  BY <1>1, <1>2, PoolAssumption DEF IInv, HoldsWhileLeased, Holding
<1>4. HoldsWhileLeased'
  BY <1>1, <1>2, <1>3 DEF IInv, HoldsWhileLeased, Holding
<1>5. ExclusiveLease'
  <2> HIDE DEF c
  <2>1. \A i, j \in 1..Len(connections)' : connections'[i] = connections'[j] => i = j
    <3>1. SUFFICES ASSUME NEW i \in 1..(Len(connections) - 1),
                          NEW j \in 1..(Len(connections) - 1),
                          connections[i + 1] = connections[j + 1]
                   PROVE  i = j
      BY <1>2
    <3>2. i + 1 \in 1..Len(connections) /\ j + 1 \in 1..Len(connections)
      BY <1>2
    <3>3. i + 1 = j + 1
      BY <3>1, <3>2 DEF IInv, ExclusiveLease
    <3> QED
      BY <3>3
  <2>2. \A v \in Workers : lease[v] # c
    BY <1>2 DEF IInv, ExclusiveLease, c
  <2>3. \A u, v \in Workers : lease'[u] # NoConn /\ lease'[u] = lease'[v] => u = v
    BY <1>1, <1>2, <2>2 DEF IInv, ExclusiveLease
  <2>4. \A i \in 1..Len(connections)' : connections'[i] # c
    BY <1>2 DEF IInv, ExclusiveLease, c
  <2>5. \A i \in 1..Len(connections)', v \in Workers : connections'[i] # lease'[v]
    BY <1>1, <1>2, <2>4 DEF IInv, ExclusiveLease
  <2>6. Queued = Queued' \cup {c}
    <3>1. ASSUME NEW i \in 1..Len(connections)
          PROVE  connections[i] \in Queued' \cup {c}
      <4>1. CASE i = 1
        BY <4>1 DEF c
      <4>2. CASE i # 1
        <5>1. i - 1 \in 1..(Len(connections) - 1) /\ (i - 1) + 1 = i
          BY <4>2, <1>2
        <5>2. connections'[i - 1] = connections[i] /\ i - 1 \in 1..Len(connections)'
          BY <5>1, <1>2
        <5> QED
          BY <5>2 DEF Queued
      <4> QED
        BY <4>1, <4>2
    <3>2. ASSUME NEW i \in 1..Len(connections)'
          PROVE  connections'[i] \in Queued
      BY <1>2 DEF Queued
    <3>3. c \in Queued
      BY <1>2 DEF Queued, c
    <3> QED
      BY <3>1, <3>2, <3>3 DEF Queued
  <2>7. Leased' = Leased \cup {c}
    BY <1>1, <1>2, <1>3 DEF Leased
  <2>8. created' = Queued' \cup Leased'
    BY <1>1, <2>6, <2>7 DEF IInv, ExclusiveLease
  <2> QED
    BY <2>1, <2>3, <2>5, <2>8 DEF ExclusiveLease
<1>6. WaitOnlyInitialized' /\ (initPc' = "creating" => ~initialized')
  BY <1>1 DEF IInv, WaitOnlyInitialized, Waiters, Notified
<1>7. NoLostWakeup'
  <2>1. Waiters(pc') # {} => Waiters(pc) # {}
    BY <1>1 DEF Waiters
  <2>2. Cardinality(Notified(pc)) \in Nat
    BY WorkerSetsFinite
  <2>3. Cardinality(Notified(pc')) \in {Cardinality(Notified(pc)), Cardinality(Notified(pc)) - 1}
    BY <1>1, NotifiedLeave DEF WorkerPcs
  <2>4. Waiters(pc) # {} => Len(connections) <= Cardinality(Notified(pc))
    BY DEF IInv, NoLostWakeup
  <2>5. ASSUME Waiters(pc) # {}
        PROVE  Len(connections') <= Cardinality(Notified(pc'))
    BY <2>5, <1>2, <2>2, <2>3, <2>4, OneFewer
  <2> QED
    BY <2>1, <2>5 DEF NoLostWakeup
<1> QED
  BY <1>4, <1>5, <1>6, <1>7 DEF IInv

\* The deleter and the catch block: the connection goes back to the queue and
\* one waiter, if there is one, is notified.
LEMMA GiveBackStep ==
  ASSUME IInv, TypeOK', NEW w \in Workers, pc[w] \in {"releasing", "catching"},
         GiveBack(w), UNCHANGED <<created, initialized, initPc>>
  PROVE  IInv'
<1> DEFINE c == lease[w]
           p == [pc EXCEPT ![w] = "idle"]
<1>1. /\ connections \in Seq(Conns) /\ Len(connections) \in Nat
      /\ lease \in [Workers -> Conns \cup {NoConn}]
      /\ pc \in [Workers -> WorkerPcs]
      /\ p \in [Workers -> WorkerPcs]
      /\ connections' = Append(connections, c)
      /\ lease' = [lease EXCEPT ![w] = NoConn]
      /\ pc' \in NotifyOne(p)
  BY DEF GiveBack, IInv, TypeOK, WorkerPcs
<1>2. c # NoConn /\ c \in Conns
  BY <1>1 DEF IInv, HoldsWhileLeased, Holding
<1>3. /\ \A u \in Workers : pc'[u] = p[u] \/ (p[u] = "waiting" /\ pc'[u] = "notified")
      /\ Waiters(pc') # {} => Cardinality(Notified(pc')) = Cardinality(Notified(p)) + 1
  BY <1>1, NotifyOneEffect
<1>4. \A u \in Workers : u # w =>
        pc'[u] = pc[u] \/ (pc[u] = "waiting" /\ pc'[u] = "notified")
  BY <1>1, <1>3
<1>5. pc'[w] = "idle"
  BY <1>1, <1>3
<1>6. /\ Len(connections') = Len(connections) + 1
      /\ connections'[Len(connections) + 1] = c
      /\ \A i \in 1..Len(connections) : connections'[i] = connections[i]
  BY <1>1, <1>2, PushFacts
<1>7. HoldsWhileLeased'
  BY <1>1, <1>4, <1>5 DEF IInv, HoldsWhileLeased, Holding
<1>8. ExclusiveLease'
  <2> HIDE DEF c
  <2>1. \A i \in 1..Len(connections) : connections[i] # c
    BY DEF IInv, ExclusiveLease, c
  <2>2. \A i, j \in 1..Len(connections)' : connections'[i] = connections'[j] => i = j
    BY <1>1, <1>6, <2>1 DEF IInv, ExclusiveLease
  <2>3. \A u, v \in Workers : lease'[u] # NoConn /\ lease'[u] = lease'[v] => u = v
    BY <1>1 DEF IInv, ExclusiveLease
  <2>4. \A v \in Workers : lease'[v] # c
    BY <1>1, <1>2 DEF IInv, ExclusiveLease, c
  <2>5. \A i \in 1..Len(connections) : connections[i] # NoConn
    BY <1>1, PoolAssumption
  <2>6. \A i \in 1..Len(connections)', v \in Workers : connections'[i] # lease'[v]
    BY <1>1, <1>6, <2>4, <2>5 DEF IInv, ExclusiveLease
  <2>7. Queued' = Queued \cup {c}
    BY <1>1, <1>6 DEF Queued
  <2>8. Leased \subseteq Leased' \cup {c} /\ Leased' \subseteq Leased /\ c \in Leased
    BY <1>1, <1>2 DEF Leased, c
  <2>9. created' = Queued' \cup Leased'
    BY <2>7, <2>8 DEF IInv, ExclusiveLease
  <2> QED
    BY <2>2, <2>3, <2>6, <2>9 DEF ExclusiveLease
<1>9. WaitOnlyInitialized' /\ (initPc' = "creating" => ~initialized')
  BY <1>4, <1>5 DEF IInv, WaitOnlyInitialized, Waiters, Notified
<1>10. NoLostWakeup'
  <2>1. Waiters(pc') # {} => Waiters(pc) # {}
    BY <1>4, <1>5 DEF Waiters
  <2>2. Cardinality(Notified(p)) = Cardinality(Notified(pc))
    BY <1>1, NotifiedLeave DEF WorkerPcs
  <2>3. Waiters(pc) # {} => Len(connections) <= Cardinality(Notified(pc))
    BY DEF IInv, NoLostWakeup
  <2>4. Cardinality(Notified(pc)) \in Nat
    BY WorkerSetsFinite
  <2>5. ASSUME Waiters(pc) # {}
        PROVE  Len(connections) + 1 <= Cardinality(Notified(pc)) + 1
    BY <2>5, <1>1, <2>3, <2>4, OneMoreEach
  <2> QED
    BY <1>3, <1>6, <2>1, <2>2, <2>5 DEF NoLostWakeup
<1> QED
  BY <1>7, <1>8, <1>9, <1>10 DEF IInv

-----------------------------------------------------------------------------
(* Putting the steps together.                                             *)

\* Nothing is created, leased or waited for initially.
LEMMA InitIInv == Init => IInv
<1> SUFFICES ASSUME Init PROVE IInv
  OBVIOUS
<1>1. TypeOK
  <2>1. << >> \in Seq(Conns) /\ 0 \in 0..PoolSize /\ 0 \in 0..MaxInits /\ 0 \in 0..MaxCalls
    BY PoolAssumption
  <2>2. initialized \in BOOLEAN /\ created \in SUBSET Conns
    BY DEF Init
  <2> QED
    BY <2>1, <2>2 DEF Init, TypeOK, WorkerPcs, CheckPcs
<1>2. HoldsWhileLeased
  BY DEF Init, HoldsWhileLeased, Holding
<1>3. ExclusiveLease
  BY DEF Init, ExclusiveLease, Queued, Leased
<1>4. WaitOnlyInitialized
  BY DEF Init, WaitOnlyInitialized, Waiters, Notified
<1>5. NoLostWakeup
  BY DEF Init, NoLostWakeup, Waiters
<1> QED
  BY <1>1, <1>2, <1>3, <1>4, <1>5 DEF IInv, Init

\* Every action keeps the types.
LEMMA TypeStep == TypeOK /\ HoldsWhileLeased /\ [Next]_vars => TypeOK'
<1> SUFFICES ASSUME TypeOK, HoldsWhileLeased, [Next]_vars PROVE TypeOK'
  OBVIOUS
<1> USE DEF WorkerPcs, CheckPcs, initVars, checkVars
<1>1. CASE InitCall
  BY <1>1, PoolAssumption DEF TypeOK, InitCall
<1>2. CASE InitPush
  BY <1>2, PoolAssumption DEF TypeOK, InitPush
<1>3. CASE InitThrow
  BY <1>3 DEF TypeOK, InitThrow
<1>4. CASE InitFinish
  BY <1>4 DEF TypeOK, InitFinish
<1>5. ASSUME NEW w \in Workers, GetCall(w) PROVE TypeOK'
  BY <1>5, PoolAssumption DEF TypeOK, GetCall
<1>6. ASSUME NEW w \in Workers, GetThrow(w) PROVE TypeOK'
  BY <1>6 DEF TypeOK, GetThrow
<1>7. ASSUME NEW w \in Workers, GetWait(w) PROVE TypeOK'
  BY <1>7 DEF TypeOK, GetWait
<1>8. ASSUME NEW w \in Workers, GetPop(w) PROVE TypeOK'
  <2>1. Tail(connections) \in Seq(Conns) /\ Head(connections) \in Conns
    BY <1>8, PopFacts DEF TypeOK, GetPop
  <2> QED
    BY <1>8, <2>1 DEF TypeOK, GetPop, TakeFront
<1>9. ASSUME NEW w \in Workers, SpuriousWake(w) PROVE TypeOK'
  BY <1>9 DEF TypeOK, SpuriousWake
<1>10. ASSUME NEW w \in Workers, Private(w) PROVE TypeOK'
  BY <1>10 DEF TypeOK, Private, Ping, Reconnect, Execute
<1>11. CASE CheckLock
  BY <1>11 DEF TypeOK, CheckLock
<1>12. CASE Check
  <2>1. CASE CheckPing
    <3>1. Tail(connsToCheck) \in Seq(Conns)
      BY <2>1, PopFacts DEF TypeOK, CheckPing
    <3> QED
      BY <2>1, <3>1 DEF TypeOK, CheckPing
  <2> QED
    BY <1>12, <2>1 DEF TypeOK, Check, CheckWake, CheckSleep, CheckAgain
<1>13. CASE UNCHANGED vars
  BY <1>13 DEF TypeOK, vars
<1>14. ASSUME NEW w \in Workers, Return(w) PROVE TypeOK'
  <2>1. GiveBack(w) /\ UNCHANGED <<initVars, calls, checkVars>>
    BY <1>14 DEF Return, Deleter, CatchPush
  <2>2. lease[w] \in Conns
    BY <1>14 DEF Return, Deleter, CatchPush, TypeOK, HoldsWhileLeased, Holding
  <2>3. Append(connections, lease[w]) \in Seq(Conns)
    BY <2>2, PushFacts DEF TypeOK
  <2>4. pc' \in [Workers -> WorkerPcs]
    BY <2>1, NotifyOneEffect DEF TypeOK, GiveBack
  <2> QED
    BY <2>1, <2>3, <2>4 DEF TypeOK, GiveBack
<1> QED
  BY <1>1, <1>2, <1>3, <1>4, <1>5, <1>6, <1>7, <1>8, <1>9, <1>10, <1>11, <1>12, <1>13, <1>14
     DEF Next, InitStep, GetLock

\* Every action keeps the inductive invariant.
LEMMA StepIInv == IInv /\ [Next]_vars => IInv'
<1> SUFFICES ASSUME IInv, [Next]_vars PROVE IInv'
  OBVIOUS
<1>0. TypeOK'
  BY TypeStep DEF IInv
<1> USE DEF initVars, checkVars
<1>1. CASE InitCall
  BY <1>0, <1>1, QuietStep DEF InitCall
<1>2. CASE InitPush
  BY <1>0, <1>2, InitPushStep
<1>3. CASE InitThrow
  BY <1>0, <1>3, QuietStep DEF InitThrow
<1>4. CASE InitFinish
  <2>1. UNCHANGED <<connections, lease, created, pc>> /\ initPc' = "out" /\ initialized' = TRUE
    BY <1>4 DEF InitFinish
  <2> QED
    BY <1>0, <2>1 DEF IInv, HoldsWhileLeased, ExclusiveLease, Queued, Leased,
                      WaitOnlyInitialized, NoLostWakeup, Waiters, Notified
<1>5. ASSUME NEW w \in Workers, GetCall(w) \/ GetThrow(w) \/ Private(w) PROVE IInv'
  <2>1. PICK x \in {"locking", "idle", "using", "reconnecting", "catching", "releasing"} :
          /\ pc' = [pc EXCEPT ![w] = x]
          /\ x \in Holding <=> pc[w] \in Holding
          /\ pc[w] = "notified" => connections = << >>
    <3>1. CASE GetCall(w)
      BY <3>1 DEF GetCall, Holding
    <3>2. CASE GetThrow(w)
      BY <3>2 DEF GetThrow, Holding
    <3>3. CASE Ping(w)
      BY <3>3 DEF Ping, Holding
    <3>4. CASE Reconnect(w)
      BY <3>4 DEF Reconnect, Holding
    <3>5. CASE Execute(w)
      BY <3>5 DEF Execute, Holding
    <3> QED
      BY <1>5, <3>1, <3>2, <3>3, <3>4, <3>5 DEF Private
  <2>2. UNCHANGED <<connections, lease, created, initialized, initPc>>
    BY <1>5 DEF GetCall, GetThrow, Private, Ping, Reconnect, Execute
  <2>3. x \in WorkerPcs /\ x # "waiting" /\ x # "notified"
    BY <2>1 DEF WorkerPcs
  <2> QED
    BY <1>0, <2>1, <2>2, <2>3, WorkerStep
<1>6. ASSUME NEW w \in Workers, GetWait(w) PROVE IInv'
  BY <1>0, <1>6, WorkerStep DEF GetWait, WorkerPcs, Holding
<1>7. ASSUME NEW w \in Workers, GetPop(w) PROVE IInv'
  BY <1>0, <1>7, PopStep
<1>8. ASSUME NEW w \in Workers, SpuriousWake(w) PROVE IInv'
  <2>1. initialized
    BY <1>8 DEF SpuriousWake, IInv, WaitOnlyInitialized, Waiters
  <2> QED
    BY <1>0, <1>8, <2>1, WorkerStep DEF SpuriousWake, WorkerPcs, Holding
<1>9. ASSUME NEW w \in Workers, Return(w) PROVE IInv'
  <2>1. /\ pc[w] \in {"releasing", "catching"}
        /\ GiveBack(w)
        /\ UNCHANGED <<created, initialized, initPc>>
    BY <1>9 DEF Return, Deleter, CatchPush
  <2> QED
    BY <1>0, <2>1, GiveBackStep
<1>10. CASE CheckLock \/ Check \/ UNCHANGED vars
  <2>1. UNCHANGED <<connections, lease, created, pc, initialized, initPc>>
    BY <1>10 DEF CheckLock, Check, CheckWake, CheckPing, CheckSleep, CheckAgain, vars
  <2>2. initPc' = "creating" => ~initialized
    BY <2>1 DEF IInv
  <2> QED
    BY <1>0, <2>1, <2>2, QuietStep
<1> QED
  BY <1>1, <1>2, <1>3, <1>4, <1>5, <1>6, <1>7, <1>8, <1>9, <1>10
     DEF Next, InitStep, GetLock

\* IInv holds in every reachable state of the pool.
THEOREM PoolInvariant == Spec => []IInv
BY InitIInv, StepIInv, PTL DEF Spec

\* Type correctness, for every pool size and number of workers.
THEOREM PoolTypeOK == Spec => []TypeOK
<1>1. IInv => TypeOK
  BY DEF IInv
<1> QED
  BY <1>1, PoolInvariant, PTL

\* getConnection() never hands one connection to two workers, and no failing
\* ping, reconnect, statement or init() loses or duplicates one.
THEOREM PoolExclusiveLease == Spec => []ExclusiveLease
<1>1. IInv => ExclusiveLease
  BY DEF IInv
<1> QED
  BY <1>1, PoolInvariant, PTL

\* notify_one() on every push back suffices: no worker sleeps in cv_.wait()
\* while an unclaimed connection is in the queue.
THEOREM PoolNoLostWakeup == Spec => []NoLostWakeup
<1>1. IInv => NoLostWakeup
  BY DEF IInv
<1> QED
  BY <1>1, PoolInvariant, PTL

-----------------------------------------------------------------------------
(* The refinement: queue and leases simulate the abstract lease.           *)

\* Popping moves the front out of the set of queued connections.
LEMMA PopQueued ==
  ASSUME IInv, NEW w \in Workers, GetPop(w)
  PROVE  /\ Head(connections) \in Queued \cap Conns
         /\ Queued' = Queued \ {Head(connections)}
<1>1. connections \in Seq(Conns) /\ connections # << >> /\ connections' = Tail(connections)
  BY DEF IInv, TypeOK, GetPop, TakeFront
<1>2. /\ Len(connections) \in Nat \ {0}
      /\ Len(connections') = Len(connections) - 1
      /\ Head(connections) = connections[1] /\ connections[1] \in Conns
      /\ \A i \in 1..(Len(connections) - 1) : connections'[i] = connections[i + 1]
  BY <1>1, PopFacts
<1>3. \A i \in 1..Len(connections) : connections[i] = connections[1] => i = 1
  BY <1>2 DEF IInv, ExclusiveLease
<1>4. ASSUME NEW i \in 1..Len(connections), i # 1
      PROVE  connections[i] \in Queued'
  <2>1. i - 1 \in 1..(Len(connections) - 1) /\ (i - 1) + 1 = i
    BY <1>2, <1>4
  <2>2. connections'[i - 1] = connections[i] /\ i - 1 \in 1..Len(connections)'
    BY <1>2, <2>1
  <2> QED
    BY <2>2 DEF Queued
<1>5. ASSUME NEW i \in 1..Len(connections)'
      PROVE  connections'[i] \in Queued /\ connections'[i] # connections[1]
  <2>1. i + 1 \in 1..Len(connections) /\ i + 1 # 1
    BY <1>2
  <2>2. connections'[i] = connections[i + 1]
    BY <1>2
  <2> QED
    BY <2>1, <2>2, <1>3 DEF Queued
<1>6. connections[1] \in Queued
  BY <1>2 DEF Queued
<1>7. Queued' \subseteq Queued \ {connections[1]}
  BY <1>5 DEF Queued
<1>8. Queued \ {connections[1]} \subseteq Queued'
  <2> SUFFICES ASSUME NEW i \in 1..Len(connections), connections[i] # connections[1]
               PROVE  connections[i] \in Queued'
    BY DEF Queued
  <2> QED
    BY <1>4
<1> QED
  BY <1>2, <1>6, <1>7, <1>8

\* Pushing adds the connection to the set of queued connections.
LEMMA PushQueued ==
  ASSUME connections \in Seq(Conns), NEW c \in Conns,
         connections' = Append(connections, c)
  PROVE  Queued' = Queued \cup {c}
<1>1. Len(connections) \in Nat
  OBVIOUS
<1>2. /\ Len(connections') = Len(connections) + 1
      /\ connections'[Len(connections) + 1] = c
      /\ \A i \in 1..Len(connections) : connections'[i] = connections[i]
  BY PushFacts
<1> QED
  BY <1>1, <1>2 DEF Queued

\* Each step of the pool is a step of the abstract lease, or none.
LEMMA LeaseStep == IInv /\ [Next]_vars => [Lease!LeaseNext]_(Lease!leaseVars)
<1> SUFFICES ASSUME IInv, [Next]_vars PROVE [Lease!LeaseNext]_(Lease!leaseVars)
  OBVIOUS
<1> USE DEF initVars, checkVars
<1>1. CASE InitPush
  <2>1. PICK c \in Conns \ created : connections' = Append(connections, c)
    BY <1>1 DEF InitPush
  <2>2. Queued' = Queued \cup {c} /\ lease' = lease
    BY <1>1, <2>1, PushQueued DEF InitPush, IInv, TypeOK
  <2>3. c \notin Queued \cup Lease!Held
    BY <2>1 DEF IInv, ExclusiveLease, Leased, Lease!Held
  <2> QED
    BY <2>1, <2>2, <2>3 DEF Lease!LeaseNext, Lease!Add
<1>2. ASSUME NEW w \in Workers, GetPop(w) PROVE Lease!LeaseNext
  <2>1. /\ Head(connections) \in Queued \cap Conns
        /\ Queued' = Queued \ {Head(connections)}
    BY <1>2, PopQueued
  <2>2. lease[w] = NoConn
    BY <1>2 DEF GetPop, IInv, HoldsWhileLeased, Holding
  <2>3. lease' = [lease EXCEPT ![w] = Head(connections)]
    BY <1>2 DEF GetPop, TakeFront
  <2>4. Lease!Take(w, Head(connections))
    BY <2>1, <2>2, <2>3 DEF Lease!Take
  <2> QED
    BY <2>1, <2>4 DEF Lease!LeaseNext
<1>3. ASSUME NEW w \in Workers, Return(w) PROVE Lease!LeaseNext
  <2>1. pc[w] \in {"releasing", "catching"} /\ GiveBack(w)
    BY <1>3 DEF Return, Deleter, CatchPush
  <2>2. lease[w] # NoConn /\ lease[w] \in Conns
    BY <2>1 DEF IInv, TypeOK, HoldsWhileLeased, Holding
  <2>3. Queued' = Queued \cup {lease[w]}
    BY <2>1, <2>2, PushQueued DEF GiveBack, IInv, TypeOK
  <2>4. Lease!Give(w)
    BY <2>1, <2>2, <2>3 DEF GiveBack, Lease!Give
  <2> QED
    BY <2>4 DEF Lease!LeaseNext
<1>4. CASE UNCHANGED <<connections, lease>>
  BY <1>4 DEF Lease!leaseVars, Queued
<1>5. ASSUME NEW w \in Workers,
             GetCall(w) \/ GetThrow(w) \/ GetWait(w) \/ SpuriousWake(w) \/ Private(w)
      PROVE  UNCHANGED <<connections, lease>>
  BY <1>5 DEF GetCall, GetThrow, GetWait, SpuriousWake, Private, Ping, Reconnect, Execute
<1>6. InitCall \/ InitThrow \/ InitFinish \/ CheckLock \/ Check \/ UNCHANGED vars
        => UNCHANGED <<connections, lease>>
  BY DEF InitCall, InitThrow, InitFinish, CheckLock, Check, CheckWake, CheckPing,
         CheckSleep, CheckAgain, vars
<1> QED
  BY <1>1, <1>2, <1>3, <1>4, <1>5, <1>6 DEF Next, InitStep, GetLock

\* DbConnectionPool implements ConnectionLease: to its callers the queue, the
\* mutex, the condition variable and the check thread are invisible.
THEOREM PoolRefinesLease == Spec => LeaseRefinement
<1>1. Init => Lease!LeaseInit
  BY DEF Init, Lease!LeaseInit, Queued
<1>2. IInv /\ [Next]_vars => [Lease!LeaseNext]_(Lease!leaseVars)
  BY LeaseStep
<1> QED
  BY <1>1, <1>2, PoolInvariant, PTL DEF Spec, LeaseRefinement, Lease!LeaseSpec
=============================================================================
