-------------------------- MODULE DbConnectionPool --------------------------
(***************************************************************************)
(* HTTP/src/utils/db/DbConnectionPool.cpp with its callers in              *)
(* HTTP/include/utils/MySqlUtil.h: the FIFO of idle MySQL connections, the *)
(* mutex and the condition variable around it, the IO threads that lease a *)
(* connection for one statement, and the detached check thread.            *)
(*                                                                         *)
(* A critical section that neither blocks nor sleeps is one action guarded *)
(* by MutexFree.  Two holders keep the mutex over several steps: init()    *)
(* while it connects, and the check thread, which sleeps one second with   *)
(* the mutex held whenever it finds the queue empty.                       *)
(*                                                                         *)
(* Connections are opaque; ping() and reconnect() succeed or fail freely.  *)
(* Memory allocation does not fail.                                        *)
(***************************************************************************)
EXTENDS Naturals, Sequences, FiniteSets

CONSTANTS Workers,   \* the IO threads that run handlers
          Conns,     \* identities for the connections init() creates
          NoConn,    \* "holds no connection"
          PoolSize,  \* init()'s poolSize
          MaxCalls,  \* bound: getConnection() calls per worker
          MaxInits   \* bound: calls of init()

ASSUME PoolAssumption ==
  /\ IsFiniteSet(Workers)
  /\ NoConn \notin Conns
  /\ PoolSize \in Nat \ {0}
  /\ MaxCalls \in Nat
  /\ MaxInits \in Nat

VARIABLES connections, \* connections_, the queue of idle connections
          initialized, \* initialized_
          initPc,      \* the thread in init(): "out", or "creating" with the mutex
          made,        \* the index i of init()'s loop
          inits,       \* calls of init() so far
          created,     \* history: every connection ever created
          pc,          \* where each worker is in its current statement
          lease,       \* the connection each worker took from the queue
          calls,       \* getConnection() calls so far, per worker
          checkPc,     \* where the check thread is
          connsToCheck \* the copies it still has to ping

initVars  == <<initialized, initPc, made, inits, created>>
checkVars == <<checkPc, connsToCheck>>
vars == <<connections, initVars, pc, lease, calls, checkVars>>

(***************************************************************************)
(* idle         - the worker runs no statement                             *)
(* locking      - in getConnection(), wants the mutex                      *)
(* waiting      - in cv_.wait()                                            *)
(* notified     - woken, wants the mutex back                              *)
(* pinging, reconnecting - owns a popped connection, outside the lock      *)
(* using        - the lease is the caller's                                *)
(* releasing    - last owner gone: the deleter wants the mutex             *)
(* catching     - the catch block wants the mutex                          *)
(***************************************************************************)
WorkerPcs == {"idle", "locking", "waiting", "notified", "pinging",
              "reconnecting", "using", "releasing", "catching"}
Holding   == {"pinging", "reconnecting", "using", "releasing", "catching"}
CheckPcs  == {"off", "top", "sleepLocked", "checking", "sleeping"}

Init ==
  /\ connections = << >>
  /\ initialized = FALSE
  /\ initPc = "out"
  /\ made = 0
  /\ inits = 0
  /\ created = {}
  /\ pc = [w \in Workers |-> "idle"]
  /\ lease = [w \in Workers |-> NoConn]
  /\ calls = [w \in Workers |-> 0]
  /\ checkPc = "off"
  /\ connsToCheck = << >>

MutexFree == initPc = "out" /\ checkPc # "sleepLocked"

Waiters(p)  == {w \in Workers : p[w] = "waiting"}
Notified(p) == {w \in Workers : p[w] = "notified"}

\* Mutant of NotifyOne: the connection is pushed and nobody is notified.
NotifyNobody(p) == {p}

\* cv_.notify_one(): some waiter if there is one.
NotifyOne(p) ==
  IF Waiters(p) = {} THEN {p} ELSE {[p EXCEPT ![v] = "notified"] : v \in Waiters(p)}

-----------------------------------------------------------------------------
(* init()                                                                  *)

InitCall ==
  /\ MutexFree
  /\ inits < MaxInits
  /\ inits' = inits + 1
  /\ initPc' = IF initialized THEN "out" ELSE "creating"
  /\ made' = 0
  /\ UNCHANGED <<connections, initialized, created, pc, lease, calls, checkVars>>

\* Mutant of InitPush: the loop runs while i <= poolSize.
InitPushTooMany ==
  /\ initPc = "creating"
  /\ made <= PoolSize
  /\ \E c \in Conns \ created :
       /\ connections' = Append(connections, c)
       /\ created' = created \cup {c}
  /\ made' = made + 1
  /\ UNCHANGED <<initialized, initPc, inits, pc, lease, calls, checkVars>>

InitPush ==
  /\ initPc = "creating"
  /\ made < PoolSize
  /\ \E c \in Conns \ created :
       /\ connections' = Append(connections, c)
       /\ created' = created \cup {c}
  /\ made' = made + 1
  /\ UNCHANGED <<initialized, initPc, inits, pc, lease, calls, checkVars>>

\* createConnection() throws: what was pushed stays, initialized_ is not set.
InitThrow ==
  /\ initPc = "creating"
  /\ made < PoolSize
  /\ initPc' = "out"
  /\ UNCHANGED <<connections, initialized, made, inits, created, pc, lease, calls, checkVars>>

InitFinish ==
  /\ initPc = "creating"
  /\ made = PoolSize
  /\ initialized' = TRUE
  /\ initPc' = "out"
  /\ checkPc' = "top"
  /\ UNCHANGED <<connections, made, inits, created, pc, lease, calls, connsToCheck>>

-----------------------------------------------------------------------------
(* getConnection(), its callers and the deleter                            *)

GetCall(w) ==
  /\ pc[w] = "idle"
  /\ calls[w] < MaxCalls
  /\ calls' = [calls EXCEPT ![w] = @ + 1]
  /\ pc' = [pc EXCEPT ![w] = "locking"]
  /\ UNCHANGED <<connections, initVars, lease, checkVars>>

GetThrow(w) ==
  /\ pc[w] \in {"locking", "notified"}
  /\ MutexFree
  /\ connections = << >>
  /\ ~initialized
  /\ pc' = [pc EXCEPT ![w] = "idle"]
  /\ UNCHANGED <<connections, initVars, lease, calls, checkVars>>

GetWait(w) ==
  /\ pc[w] \in {"locking", "notified"}
  /\ MutexFree
  /\ connections = << >>
  /\ initialized
  /\ pc' = [pc EXCEPT ![w] = "waiting"]
  /\ UNCHANGED <<connections, initVars, lease, calls, checkVars>>

\* Mutant of TakeFront: front() without pop().
TakeFrontNoPop(w) ==
  /\ lease' = [lease EXCEPT ![w] = Head(connections)]
  /\ UNCHANGED connections

\* front() is copied and popped.
TakeFront(w) ==
  /\ lease' = [lease EXCEPT ![w] = Head(connections)]
  /\ connections' = Tail(connections)

\* Mutant of GetPop: a woken worker goes back to sleep without another look at the queue.
GetPopNewcomers(w) ==
  /\ pc[w] = "locking"
  /\ MutexFree
  /\ connections # << >>
  /\ TakeFront(w)
  /\ pc' = [pc EXCEPT ![w] = "pinging"]
  /\ UNCHANGED <<initVars, calls, checkVars>>

GetPop(w) ==
  /\ pc[w] \in {"locking", "notified"}
  /\ MutexFree
  /\ connections # << >>
  /\ TakeFront(w)
  /\ pc' = [pc EXCEPT ![w] = "pinging"]
  /\ UNCHANGED <<initVars, calls, checkVars>>

\* The condition variable may wake a waiter nobody notified.
SpuriousWake(w) ==
  /\ pc[w] = "waiting"
  /\ pc' = [pc EXCEPT ![w] = "notified"]
  /\ UNCHANGED <<connections, initVars, lease, calls, checkVars>>

Ping(w) ==
  /\ pc[w] = "pinging"
  /\ \E ok \in BOOLEAN :
       pc' = [pc EXCEPT ![w] = IF ok THEN "using" ELSE "reconnecting"]
  /\ UNCHANGED <<connections, initVars, lease, calls, checkVars>>

\* Mutant of Reconnect: a new connection replaces the one that was lost.
ReconnectReplaces(w) ==
  /\ pc[w] = "reconnecting"
  /\ \E c \in Conns \ created :
       /\ lease' = [lease EXCEPT ![w] = c]
       /\ created' = (created \ {lease[w]}) \cup {c}
  /\ pc' = [pc EXCEPT ![w] = "using"]
  /\ UNCHANGED <<connections, initialized, initPc, made, inits, calls, checkVars>>

Reconnect(w) ==
  /\ pc[w] = "reconnecting"
  /\ \E ok \in BOOLEAN :
       pc' = [pc EXCEPT ![w] = IF ok THEN "using" ELSE "catching"]
  /\ UNCHANGED <<connections, initVars, lease, calls, checkVars>>

\* The statement returned or threw: both destroy MySqlUtil's local pointer.
Execute(w) ==
  /\ pc[w] = "using"
  /\ pc' = [pc EXCEPT ![w] = "releasing"]
  /\ UNCHANGED <<connections, initVars, lease, calls, checkVars>>

GiveBack(w) ==
  /\ connections' = Append(connections, lease[w])
  /\ lease' = [lease EXCEPT ![w] = NoConn]
  /\ pc' \in NotifyOne([pc EXCEPT ![w] = "idle"])

Deleter(w) ==
  /\ pc[w] = "releasing"
  /\ MutexFree
  /\ GiveBack(w)
  /\ UNCHANGED <<initVars, calls, checkVars>>

CatchPush(w) ==
  /\ pc[w] = "catching"
  /\ MutexFree
  /\ GiveBack(w)
  /\ UNCHANGED <<initVars, calls, checkVars>>

-----------------------------------------------------------------------------
(* checkConnections()                                                      *)

CheckLock ==
  /\ checkPc = "top"
  /\ MutexFree
  /\ checkPc' = IF connections = << >> THEN "sleepLocked" ELSE "checking"
  /\ connsToCheck' = connections
  /\ UNCHANGED <<connections, initVars, pc, lease, calls>>

CheckWake ==
  /\ checkPc = "sleepLocked"
  /\ checkPc' = "top"
  /\ UNCHANGED <<connections, initVars, pc, lease, calls, connsToCheck>>

\* ping(), and reconnect() when it fails; a failed reconnect is caught.
CheckPing ==
  /\ checkPc = "checking"
  /\ connsToCheck # << >>
  /\ connsToCheck' = Tail(connsToCheck)
  /\ UNCHANGED <<connections, initVars, pc, lease, calls, checkPc>>

CheckSleep ==
  /\ checkPc = "checking"
  /\ connsToCheck = << >>
  /\ checkPc' = "sleeping"
  /\ UNCHANGED <<connections, initVars, pc, lease, calls, connsToCheck>>

CheckAgain ==
  /\ checkPc = "sleeping"
  /\ checkPc' = "top"
  /\ UNCHANGED <<connections, initVars, pc, lease, calls, connsToCheck>>

-----------------------------------------------------------------------------
InitStep  == InitPush \/ InitThrow \/ InitFinish
GetLock(w) == GetThrow(w) \/ GetWait(w) \/ GetPop(w)
Return(w) == Deleter(w) \/ CatchPush(w)
Private(w) == Ping(w) \/ Reconnect(w) \/ Execute(w)
Check == CheckWake \/ CheckPing \/ CheckSleep \/ CheckAgain

Next ==
  \/ InitCall \/ InitStep
  \/ \E w \in Workers : GetCall(w) \/ GetLock(w) \/ SpuriousWake(w) \/ Private(w) \/ Return(w)
  \/ CheckLock \/ Check

Spec == Init /\ [][Next]_vars

(***************************************************************************)
(* Connecting, pinging and statements return (the driver's timeouts), a    *)
(* sleep ends, and a thread that wants a mutex that stays free gets it.    *)
(* std::mutex promises no more: a thread may lose every race for a mutex   *)
(* that is taken again and again, so no fairness here is strong.           *)
(***************************************************************************)
Fairness ==
  /\ WF_vars(InitStep)
  /\ WF_vars(Check)
  /\ WF_vars(CheckLock)
  /\ \A w \in Workers : WF_vars(Private(w)) /\ WF_vars(GetLock(w)) /\ WF_vars(Return(w))

FairSpec == Spec /\ Fairness
-----------------------------------------------------------------------------
\* Types of all variables.
TypeOK ==
  /\ connections \in Seq(Conns)
  /\ initialized \in BOOLEAN
  /\ initPc \in {"out", "creating"}
  /\ made \in 0..PoolSize
  /\ inits \in 0..MaxInits
  /\ created \in SUBSET Conns
  /\ pc \in [Workers -> WorkerPcs]
  /\ lease \in [Workers -> Conns \cup {NoConn}]
  /\ calls \in [Workers -> 0..MaxCalls]
  /\ checkPc \in CheckPcs
  /\ connsToCheck \in Seq(Conns)

\* A worker holds a connection exactly between its pop and its push back.
HoldsWhileLeased ==
  \A w \in Workers : lease[w] # NoConn <=> pc[w] \in Holding

Queued == {connections[i] : i \in 1..Len(connections)}
Leased == {lease[w] : w \in Workers} \ {NoConn}

\* Every connection init() created is in exactly one place: once in the queue,
\* or with exactly one worker - through failed pings, failed reconnects,
\* throwing statements, an init() that throws half way and the check thread.
ExclusiveLease ==
  /\ \A i, j \in 1..Len(connections) : connections[i] = connections[j] => i = j
  /\ \A v, w \in Workers : lease[v] # NoConn /\ lease[v] = lease[w] => v = w
  /\ \A i \in 1..Len(connections), w \in Workers : connections[i] # lease[w]
  /\ created = Queued \cup Leased

\* No lost wakeup: while a worker sits in cv_.wait(), every connection in the
\* queue has a woken worker on its way to it.  notify_one() is enough although
\* newcomers overtake woken workers.
NoLostWakeup ==
  Waiters(pc) # {} => Len(connections) <= Cardinality(Notified(pc))

\* Before init() has succeeded nobody is in cv_.wait(): nobody would notify.
WaitOnlyInitialized ==
  ~initialized => Waiters(pc) \cup Notified(pc) = {}

\* What all of the above need to be inductive.
IInv ==
  /\ TypeOK
  /\ HoldsWhileLeased
  /\ ExclusiveLease
  /\ WaitOnlyInitialized
  /\ (initPc = "creating" => ~initialized)
  /\ NoLostWakeup

\* checkConnections() finds the queue empty and sleeps with the mutex held again
\* and again; between two of these sleeps it unlocks and locks at once.
CheckHogsMutex == []<>(checkPc = "sleepLocked")

\* Every call of getConnection(), and the statement it serves, ends - with callers
\* overtaking woken workers, spurious wakeups, connections that fail to reconnect
\* and an init() that throws - unless the check thread hogs the mutex for ever:
\* that is the one way in which the pool can starve a caller.
EveryCallCompletes ==
  \/ CheckHogsMutex
  \/ \A w \in Workers : pc[w] = "locking" ~> pc[w] = "idle"

\* The pool implements the abstract lease.
Lease == INSTANCE ConnectionLease WITH free <- Queued, holder <- lease
LeaseRefinement == Lease!LeaseSpec
=============================================================================
