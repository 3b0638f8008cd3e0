-------------------------- MODULE IOSchedulerProofs --------------------------
(***************************************************************************)
(* The assertion of ~Scheduler() never fails: when the last thread leaves  *)
(* run(), no task is queued or running, for every number of threads and    *)
(* any pinning.  And the counts of active and idle threads and of pending  *)
(* events are exact, so that none of them passes zero.                     *)
(***************************************************************************)
EXTENDS IOScheduler, Integers, FiniteSetTheorems, TLAPS

\* The part of TypeOK the argument needs.
ShutdownTypeOK ==
  /\ pc \in [Threads -> Pcs]
  /\ term \in [Threads -> BOOLEAN]

IInv == ShutdownTypeOK /\ ShutdownInv

\* There are finitely many threads, so the running ones can be counted.
LEMMA RunningFinite == IsFiniteSet(Threads) /\ IsFiniteSet(Running) /\ Cardinality(Running) \in Nat
<1>1. IsFiniteSet(Threads)
  BY SchedulerAssumption, FS_Singleton, FS_Union DEF Threads
<1>2. IsFiniteSet(Running)
  BY <1>1, FS_Subset DEF Running
<1> QED
  BY <1>1, <1>2, FS_CardinalityType

\* While a task runs, m_activeThreadCount is not 0, so some idle fiber is alive.
LEMMA BusyMeansAlive ==
  ASSUME IInv, NEW t \in Threads, pc[t] = "run"
  PROVE  \E u \in Threads : ~term[u]
<1>1. Running # {}
  BY DEF Running
<1>2. Cardinality(Running) # 0
  BY <1>1, RunningFinite, FS_EmptySet
<1> QED
  BY <1>2 DEF IInv, ShutdownInv

\* A queued task means the same.
LEMMA QueuedMeansAlive ==
  ASSUME IInv, tasks # << >>
  PROVE  \E u \in Threads : ~term[u]
BY DEF IInv, ShutdownInv

\* A step that leaves the queue, the threads and the flag alone.
LEMMA QuietStep ==
  ASSUME IInv, UNCHANGED <<tasks, active, pc, term, stopFlag>>
  PROVE  IInv'
BY DEF IInv, ShutdownTypeOK, ShutdownInv, Running

\* A thread, not running a task before or after, moves to label x and may push
\* a task on the way if its idle fiber is alive.
LEMMA MoveStep ==
  ASSUME IInv, NEW t \in Threads, NEW x \in Pcs \ {"run", "exited"},
         pc[t] # "run", Goto(t, x), UNCHANGED <<active, term>>,
         \/ ~term[t]
         \/ x \in {"top", "noTask"} /\ UNCHANGED <<tasks, stopFlag>>
  PROVE  IInv'
<1>1. pc \in [Threads -> Pcs] /\ pc' = [pc EXCEPT ![t] = x]
  BY DEF IInv, ShutdownTypeOK, Goto
<1>2. ShutdownTypeOK'
  BY <1>1 DEF IInv, ShutdownTypeOK
<1>3. Running' = Running
  BY <1>1 DEF Running
<1>4. active' = Cardinality(Running')
  BY <1>3 DEF IInv, ShutdownInv
<1>5. /\ \A u \in Threads : term'[u] => pc'[u] \in {"top", "run", "noTask", "exited"}
      /\ \A u \in Threads : pc'[u] = "exited" => term'[u]
  BY <1>1 DEF IInv, ShutdownInv
<1>6. (\A u \in Threads : term'[u]) => stopFlag' /\ tasks' = << >> /\ active' = 0
  BY DEF IInv, ShutdownInv
<1> QED
  BY <1>2, <1>4, <1>5, <1>6 DEF IInv, ShutdownInv

\* A thread pushes a task: it runs one itself or its idle fiber is alive.
LEMMA PushStep ==
  ASSUME IInv, NEW t \in Threads, pc[t] \in {"run", "outside", "dispatch"},
         UNCHANGED <<active, pc, term, stopFlag>>
  PROVE  IInv'
<1>1. \E u \in Threads : ~term[u]
  BY BusyMeansAlive DEF IInv, ShutdownInv
<1>2. Running' = Running
  BY DEF Running
<1> QED
  BY <1>1, <1>2 DEF IInv, ShutdownTypeOK, ShutdownInv

\* Before the first scan nobody runs a task and every idle fiber is alive.
LEMMA InitIInv == Init => IInv
<1> SUFFICES ASSUME Init PROVE IInv
  OBVIOUS
<1>1. ShutdownTypeOK
  BY DEF Init, ShutdownTypeOK, Pcs, IdlePcs
<1>2. Running = {}
  BY DEF Init, Running
<1>3. active = Cardinality(Running)
  BY <1>2, FS_EmptySet DEF Init
<1>4. Caller \in Threads
  BY DEF Threads
<1> QED
  BY <1>1, <1>3, <1>4 DEF Init, IInv, ShutdownInv

\* Taking and finishing a task move one thread into and out of Running.
LEMMA TakeStep == ASSUME IInv, NEW t \in Threads, Take(t) PROVE IInv'
<1>1. /\ pc[t] = "top" /\ pc' = [pc EXCEPT ![t] = "run"]
      /\ active' = active + 1 /\ term' = term
  BY DEF Take, At, Goto, idleVars
<1>2. pc \in [Threads -> Pcs]
  BY DEF IInv, ShutdownTypeOK
<1>3. tasks # << >>
  BY DEF Take, Runnable
<1>4. \E u \in Threads : ~term'[u]
  BY <1>1, <1>3, QueuedMeansAlive
<1>5. ShutdownTypeOK'
  BY <1>1, <1>2 DEF IInv, ShutdownTypeOK, Pcs
<1>6. Running' = Running \cup {t} /\ t \notin Running
  BY <1>1, <1>2 DEF Running
<1>7. active' = Cardinality(Running')
  BY <1>1, <1>6, RunningFinite, FS_AddElement DEF IInv, ShutdownInv
<1>8. /\ \A u \in Threads : term'[u] => pc'[u] \in {"top", "run", "noTask", "exited"}
      /\ \A u \in Threads : pc'[u] = "exited" => term'[u]
  BY <1>1, <1>2 DEF IInv, ShutdownInv
<1> QED
  BY <1>4, <1>5, <1>7, <1>8 DEF IInv, ShutdownInv

LEMMA FinishStep == ASSUME IInv, NEW t \in Threads, FinishTask(t) PROVE IInv'
<1>1. /\ pc[t] = "run" /\ pc' = [pc EXCEPT ![t] = "top"]
      /\ active' = active - 1 /\ term' = term
  BY DEF FinishTask, At, Goto, idleVars
<1>2. pc \in [Threads -> Pcs]
  BY DEF IInv, ShutdownTypeOK
<1>3. \E u \in Threads : ~term'[u]
  BY <1>1, BusyMeansAlive
<1>4. ShutdownTypeOK'
  BY <1>1, <1>2 DEF IInv, ShutdownTypeOK, Pcs
<1>5. Running' = Running \ {t} /\ t \in Running
  BY <1>1, <1>2 DEF Running
<1>6. active' = Cardinality(Running')
  BY <1>1, <1>5, RunningFinite, FS_RemoveElement DEF IInv, ShutdownInv
<1>7. /\ \A u \in Threads : term'[u] => pc'[u] \in {"top", "run", "noTask", "exited"}
      /\ \A u \in Threads : pc'[u] = "exited" => term'[u]
  BY <1>1, <1>2 DEF IInv, ShutdownInv
<1> QED
  BY <1>3, <1>4, <1>6, <1>7 DEF IInv, ShutdownInv

\* The idle fiber ends: stopping() has just seen an empty queue and no active
\* thread, under the lock.
LEMMA IdleEndsStep == ASSUME IInv, NEW t \in Threads, IdleEnds(t) PROVE IInv'
<1>1. /\ pc[t] = "chkSched" /\ pc' = [pc EXCEPT ![t] = "top"]
      /\ term' = [term EXCEPT ![t] = TRUE]
      /\ stopFlag /\ tasks = << >> /\ active = 0
      /\ UNCHANGED <<tasks, active, stopFlag>>
  BY DEF IdleEnds, At, Goto, SchedulerStopping, queueVars, stopVars
<1>2. pc \in [Threads -> Pcs] /\ term \in [Threads -> BOOLEAN]
  BY DEF IInv, ShutdownTypeOK
<1>3. ShutdownTypeOK'
  BY <1>1, <1>2 DEF ShutdownTypeOK, Pcs
<1>4. Running' = Running
  BY <1>1, <1>2 DEF Running
<1>5. active' = Cardinality(Running')
  BY <1>1, <1>4 DEF IInv, ShutdownInv
<1>6. /\ \A u \in Threads : term'[u] => pc'[u] \in {"top", "run", "noTask", "exited"}
      /\ \A u \in Threads : pc'[u] = "exited" => term'[u]
  BY <1>1, <1>2 DEF IInv, ShutdownInv
<1> QED
  BY <1>1, <1>3, <1>5, <1>6 DEF IInv, ShutdownInv

LEMMA ExitStep == ASSUME IInv, NEW t \in Threads, Exit(t) PROVE IInv'
<1>1. /\ pc[t] = "noTask" /\ term[t] /\ pc' = [pc EXCEPT ![t] = "exited"]
      /\ UNCHANGED <<tasks, active, term, stopFlag>>
  BY DEF Exit, At, Goto, queueVars, idleVars, stopVars
<1>2. pc \in [Threads -> Pcs]
  BY DEF IInv, ShutdownTypeOK
<1>3. ShutdownTypeOK'
  BY <1>1, <1>2 DEF IInv, ShutdownTypeOK, Pcs
<1>4. Running' = Running
  BY <1>1, <1>2 DEF Running
<1> QED
  BY <1>1, <1>2, <1>3, <1>4 DEF IInv, ShutdownInv

\* Every action keeps the invariant.
LEMMA StepIInv == IInv /\ [Next]_vars => IInv'
<1> SUFFICES ASSUME IInv, [Next]_vars PROVE IInv'
  OBVIOUS
<1> USE DEF queueVars, idleVars, stopVars
<1>a. Caller \in Threads
  BY DEF Threads
<1>b. \A t \in Threads : term[t] => pc[t] \in {"top", "run", "noTask", "exited"}
  BY DEF IInv, ShutdownInv
<1>1. ASSUME NEW t \in Threads, Create(t) PROVE IInv'
  <2>1. CASE ScheduleTask(t)
    BY <2>1, PushStep DEF ScheduleTask, MayAct, At
  <2>2. CASE AddTimer(t) \/ AddEvent(t)
    BY <2>2, QuietStep DEF AddTimer, AddEvent
  <2> QED
    BY <1>1, <2>1, <2>2 DEF Create
<1>2. ASSUME NEW t \in Threads, Take(t) \/ FinishTask(t) \/ Exit(t) \/ IdleEnds(t)
      PROVE  IInv'
  BY <1>2, TakeStep, FinishStep, ExitStep, IdleEndsStep
<1>3. ASSUME NEW t \in Threads, FindNothing(t) PROVE IInv'
  BY <1>3, MoveStep DEF FindNothing, At, Pcs
<1>4. ASSUME NEW t \in Threads, EnterIdle(t) PROVE IInv'
  BY <1>4, MoveStep DEF EnterIdle, At, Pcs, IdlePcs
<1>5. ASSUME NEW t \in Threads, Tickle(t) \/ Drain(t) PROVE IInv'
  BY <1>5, QuietStep DEF Tickle, Drain
<1>6. ASSUME NEW t \in Threads, CheckTimers(t) \/ CheckPending(t) \/ KeepPolling(t) \/ Poll(t)
      PROVE  IInv'
  BY <1>6, <1>b, MoveStep DEF CheckTimers, CheckPending, KeepPolling, Poll, At, Pcs, IdlePcs
<1>7. ASSUME NEW t \in Threads, EpollEvents(t) \/ EpollTimeout(t) \/ Collect(t) \/ Settle(t) \/ Yield(t)
      PROVE  IInv'
  BY <1>7, <1>b, MoveStep DEF EpollEvents, EpollTimeout, Collect, Settle, Yield, At, Pcs, IdlePcs
<1>8. ASSUME NEW t \in Threads, ScheduleExpired(t) PROVE IInv'
  BY <1>8, PushStep DEF ScheduleExpired, At
<1>9. ASSUME NEW t \in Threads, TriggerEvent(t) PROVE IInv'
  BY <1>9, <1>b, MoveStep DEF TriggerEvent, At, Pcs, IdlePcs
<1>10. CASE Stop \/ JoinPool
  BY <1>10, <1>a, <1>b, MoveStep DEF Stop, JoinPool, At, Pcs
<1>11. CASE TimerDue \/ FdReady \/ StopTickle \/ Stopped \/ UNCHANGED vars
  BY <1>11, QuietStep DEF TimerDue, FdReady, StopTickle, Stopped, vars
<1> QED
  BY <1>1, <1>2, <1>3, <1>4, <1>5, <1>6, <1>7, <1>8, <1>9, <1>10, <1>11
     DEF Next, Worker, Poller

\* m_activeThreadCount counts the running threads, and once every idle fiber has
\* ended nothing is queued or running.
THEOREM SchedulerShutdownInvariant == Spec => []ShutdownInv
<1>1. IInv => ShutdownInv
  BY DEF IInv
<1> QED
  BY <1>1, InitIInv, StepIInv, PTL DEF Spec

\* The assertion of ~Scheduler() (scheduler.cpp:50) never fails, although the
\* threads leave run() one by one while others may still schedule tasks.
THEOREM SchedulerDestructorAssert == Spec => []DestructorAssert
<1>1. ShutdownInv => DestructorAssert
  BY DEF ShutdownInv, DestructorAssert, AllExited
<1> QED
  BY <1>1, SchedulerShutdownInvariant, PTL

-----------------------------------------------------------------------------
(* Types: that no count goes below zero                                    *)

\* Threads inside their idle fiber, and events that epoll_wait returned to a
\* thread and that are not settled yet.
Idling   == {t \in Threads : pc[t] \in IdlePcs}
InFlight == {te \in Threads \X (1..Budget) : te[2] <= events[te[1]]}

\* m_idleThreadCount counts the threads in their idle fiber.
IdleInv == idle = Cardinality(Idling)

\* m_pendingEventCount counts the events that are registered, ready, or in the
\* hands of a thread that has to trigger them.
PendingInv ==
  /\ pending = armed + ready + Cardinality(InFlight)
  /\ pending + budget <= Budget
  /\ \A t \in Threads : events[t] <= Budget
  /\ \A t \in Threads : events[t] > 0 => pc[t] \in {"collect", "dispatch", "settle"}
  /\ \A t \in Threads : pc[t] = "settle" => events[t] > 0

LEMMA CountsFinite ==
  /\ IsFiniteSet(Idling) /\ Cardinality(Idling) \in Nat
  /\ IsFiniteSet(InFlight) /\ Cardinality(InFlight) \in Nat
<1>1. IsFiniteSet(Threads)
  BY RunningFinite
<1>2. IsFiniteSet(Idling)
  BY <1>1, FS_Subset DEF Idling
<1>3. IsFiniteSet(1..Budget)
  BY SchedulerAssumption, FS_Interval
<1>4. IsFiniteSet(Threads \X (1..Budget))
  BY <1>1, <1>3, FS_Product
<1>5. IsFiniteSet(InFlight)
  BY <1>4, FS_Subset DEF InFlight
<1> QED
  BY <1>2, <1>5, FS_CardinalityType

\* A thread moves within its idle fiber, or outside it.
LEMMA IdleMoves ==
  ASSUME TypeOK, IdleInv, NEW t \in Threads, NEW x, Goto(t, x), pc[t] \in IdlePcs <=> x \in IdlePcs,
         idle' = idle
  PROVE  IdleInv'
<1>1. \A u \in Threads : pc'[u] \in IdlePcs <=> pc[u] \in IdlePcs
  BY DEF Goto, TypeOK
<1>2. Idling' = Idling
  BY <1>1 DEF Idling
<1> QED
  BY <1>2 DEF IdleInv

\* A thread resumes its idle fiber, and the fiber yields or ends.
LEMMA IdleBegins ==
  ASSUME TypeOK, IdleInv, NEW t \in Threads, NEW x \in IdlePcs, Goto(t, x), pc[t] \notin IdlePcs,
         idle' = idle + 1
  PROVE  IdleInv'
<1>1. pc'[t] = x /\ \A u \in Threads \ {t} : pc'[u] = pc[u]
  BY DEF Goto, TypeOK
<1>2. Idling' = Idling \cup {t} /\ t \notin Idling
  BY <1>1 DEF Idling
<1> QED
  BY <1>2, CountsFinite, FS_AddElement DEF IdleInv

LEMMA IdleStops ==
  ASSUME TypeOK, IdleInv, NEW t \in Threads, NEW x, x \notin IdlePcs, Goto(t, x), pc[t] \in IdlePcs,
         idle' = idle - 1
  PROVE  IdleInv'
<1>1. pc'[t] = x /\ \A u \in Threads \ {t} : pc'[u] = pc[u]
  BY DEF Goto, TypeOK
<1>2. Idling' = Idling \ {t} /\ t \in Idling
  BY <1>1 DEF Idling
<1> QED
  BY <1>2, CountsFinite, FS_RemoveElement DEF IdleInv

LEMMA IdleStays ==
  ASSUME IdleInv, UNCHANGED <<pc, idle>>
  PROVE  IdleInv'
BY DEF IdleInv, Idling

\* No event changes hands; a thread that has some stays where it triggers them.
LEMMA PendingMoves ==
  ASSUME TypeOK, PendingInv, NEW t \in Threads, NEW x, Goto(t, x),
         UNCHANGED <<events, armed, ready, pending, budget>>,
         events[t] > 0 => x \in {"collect", "dispatch", "settle"},
         x = "settle" => events[t] > 0
  PROVE  PendingInv'
<1>1. pc'[t] = x /\ \A u \in Threads \ {t} : pc'[u] = pc[u]
  BY DEF Goto, TypeOK
<1>2. InFlight' = InFlight
  BY DEF InFlight
<1>3. /\ \A u \in Threads : events'[u] > 0 => pc'[u] \in {"collect", "dispatch", "settle"}
      /\ \A u \in Threads : pc'[u] = "settle" => events'[u] > 0
  BY <1>1 DEF PendingInv
<1> QED
  BY <1>2, <1>3 DEF PendingInv

\* An event may become ready, or be created out of the budget.
LEMMA PendingStays ==
  ASSUME TypeOK, PendingInv, UNCHANGED <<pc, events>>, pending' + budget' <= pending + budget,
         budget' \in Nat, pending' - pending = (armed' + ready') - (armed + ready),
         pending' \in Int, armed' \in Nat, ready' \in Nat
  PROVE  PendingInv'
<1>1. InFlight' = InFlight
  BY DEF InFlight
<1>2. /\ Cardinality(InFlight) \in Nat /\ armed \in Nat /\ ready \in Nat
      /\ pending \in Nat /\ budget \in Nat /\ Budget \in Nat
  BY CountsFinite, SchedulerAssumption DEF TypeOK
<1>3. pending' = armed' + ready' + Cardinality(InFlight) /\ pending' + budget' <= Budget
  BY <1>2 DEF PendingInv
<1> QED
  BY <1>1, <1>3 DEF PendingInv

\* epoll_wait hands the ready events to one thread, which had none.
LEMMA EpollPending ==
  ASSUME TypeOK, PendingInv, NEW t \in Threads, EpollEvents(t)
  PROVE  PendingInv'
<1>0. /\ pc[t] = "wait" /\ pc' = [pc EXCEPT ![t] = "collect"] /\ ready' = 0
      /\ events' = [events EXCEPT ![t] = ready] /\ UNCHANGED <<armed, pending, budget>>
  BY DEF EpollEvents, At, Goto
<1>1. /\ armed \in Nat /\ ready \in Nat /\ pending \in Nat /\ budget \in Nat /\ Budget \in Nat
      /\ Cardinality(InFlight) \in Nat /\ IsFiniteSet(InFlight) /\ \A u \in Threads : events[u] \in Nat
  BY CountsFinite, SchedulerAssumption DEF TypeOK
<1>2. /\ events'[t] = ready /\ pc'[t] = "collect"
      /\ \A u \in Threads \ {t} : events'[u] = events[u] /\ pc'[u] = pc[u]
  BY <1>0 DEF TypeOK
<1>3. events[t] = 0 /\ ready <= Budget
  BY <1>0, <1>1 DEF PendingInv
<1>4. InFlight' = InFlight \cup ({t} \X (1..ready)) /\ InFlight \cap ({t} \X (1..ready)) = {}
  <2>1. \A te \in InFlight : te[1] # t
    BY <1>1, <1>3 DEF InFlight
  <2>2. \A u \in Threads, k \in 1..Budget :
          <<u, k>> \in InFlight' <=> <<u, k>> \in InFlight \/ <<u, k>> \in {t} \X (1..ready)
    BY <1>1, <1>2, <1>3 DEF InFlight
  <2>3. \A te \in {t} \X (1..ready) : te \in Threads \X (1..Budget)
    BY <1>1, <1>3
  <2>4. InFlight' \subseteq Threads \X (1..Budget) /\ InFlight \subseteq Threads \X (1..Budget)
    BY DEF InFlight
  <2> QED
    BY <2>1, <2>2, <2>3, <2>4
<1>5. IsFiniteSet({t} \X (1..ready)) /\ Cardinality({t} \X (1..ready)) = ready
  <2>1. IsFiniteSet({t}) /\ Cardinality({t}) = 1
    BY FS_Singleton
  <2>2. IsFiniteSet(1..ready) /\ Cardinality(1..ready) = ready
    BY <1>1, FS_Interval
  <2>3. /\ IsFiniteSet({t} \X (1..ready))
        /\ Cardinality({t} \X (1..ready)) = Cardinality({t}) * Cardinality(1..ready)
    BY <2>1, <2>2, FS_Product
  <2> QED
    BY <1>1, <2>1, <2>2, <2>3
<1>6. Cardinality(InFlight') = Cardinality(InFlight) + ready
  <2>1. Cardinality(InFlight \cup ({t} \X (1..ready)))
          = Cardinality(InFlight) + Cardinality({t} \X (1..ready)) - Cardinality(InFlight \cap ({t} \X (1..ready)))
    BY <1>1, <1>5, FS_Union
  <2>2. Cardinality(InFlight \cap ({t} \X (1..ready))) = 0
    BY <1>4, FS_EmptySet
  <2> QED
    BY <1>1, <1>4, <1>5, <2>1, <2>2
<1>7. pending' = armed' + ready' + Cardinality(InFlight') /\ pending' + budget' <= Budget
  BY <1>0, <1>1, <1>6 DEF PendingInv
<1>8. /\ \A u \in Threads : events'[u] <= Budget
      /\ \A u \in Threads : events'[u] > 0 => pc'[u] \in {"collect", "dispatch", "settle"}
      /\ \A u \in Threads : pc'[u] = "settle" => events'[u] > 0
  BY <1>2, <1>3 DEF PendingInv
<1> QED
  BY <1>7, <1>8 DEF PendingInv

LEMMA SettlePending ==
  ASSUME TypeOK, PendingInv, NEW t \in Threads, Settle(t)
  PROVE  PendingInv'
<1>0. /\ pc[t] = "settle" /\ pc' = [pc EXCEPT ![t] = "dispatch"] /\ pending' = pending - 1
      /\ events' = [events EXCEPT ![t] = @ - 1] /\ UNCHANGED <<armed, ready, budget>>
  BY DEF Settle, At, Goto
<1>1. /\ armed \in Nat /\ ready \in Nat /\ pending \in Nat /\ budget \in Nat /\ Budget \in Nat
      /\ Cardinality(InFlight) \in Nat /\ IsFiniteSet(InFlight) /\ \A u \in Threads : events[u] \in Nat
  BY CountsFinite, SchedulerAssumption DEF TypeOK
<1>2. /\ events'[t] = events[t] - 1 /\ pc'[t] = "dispatch"
      /\ \A u \in Threads \ {t} : events'[u] = events[u] /\ pc'[u] = pc[u]
  BY <1>0 DEF TypeOK
<1>3. events[t] \in 1..Budget
  BY <1>0, <1>1 DEF PendingInv
<1>4. InFlight' = InFlight \ {<<t, events[t]>>} /\ <<t, events[t]>> \in InFlight
  <2>1. \A u \in Threads, k \in 1..Budget :
          <<u, k>> \in InFlight' <=> <<u, k>> \in InFlight /\ <<u, k>> # <<t, events[t]>>
    BY <1>1, <1>2, <1>3 DEF InFlight
  <2>2. InFlight' \subseteq Threads \X (1..Budget) /\ InFlight \subseteq Threads \X (1..Budget)
    BY DEF InFlight
  <2>3. <<t, events[t]>> \in InFlight
    BY <1>1, <1>3 DEF InFlight
  <2> QED
    BY <2>1, <2>2, <2>3
<1>5. Cardinality(InFlight') = Cardinality(InFlight) - 1
  BY <1>1, <1>4, FS_RemoveElement
<1>6. pending' = armed' + ready' + Cardinality(InFlight') /\ pending' + budget' <= Budget
  BY <1>0, <1>1, <1>5 DEF PendingInv
<1>7. \A u \in Threads : events'[u] <= Budget
  BY <1>1, <1>2 DEF PendingInv
<1>8. /\ \A u \in Threads : events'[u] > 0 => pc'[u] \in {"collect", "dispatch", "settle"}
      /\ \A u \in Threads : pc'[u] = "settle" => events'[u] > 0
  BY <1>2 DEF PendingInv
<1> QED
  BY <1>6, <1>7, <1>8 DEF PendingInv

\* Every action keeps the two counts.
LEMMA StepCounts ==
  ASSUME TypeOK, IdleInv, PendingInv, [Next]_vars
  PROVE  IdleInv' /\ PendingInv'
<1> USE DEF queueVars, idleVars, stopVars, localVars, timerVars, fdVars
<1>a. /\ armed \in Nat /\ ready \in Nat /\ pending \in Nat /\ budget \in Nat /\ Caller \in Threads
      /\ \A t \in Threads : events[t] \in Nat
  BY SchedulerAssumption DEF TypeOK, Threads
<1>b. \A t \in Threads : pc[t] \notin {"collect", "dispatch", "settle"} => events[t] = 0
  BY <1>a DEF PendingInv
<1>1. ASSUME NEW t \in Threads, Create(t) PROVE IdleInv' /\ PendingInv'
  <2>1. UNCHANGED <<pc, idle, events, ready>> /\ budget' = budget - 1 /\ budget > 0
    BY <1>1 DEF Create, ScheduleTask, AddTimer, AddEvent
  <2>2. \/ UNCHANGED <<armed, pending>>
        \/ armed' = armed + 1 /\ pending' = pending + 1
    BY <1>1 DEF Create, ScheduleTask, AddTimer, AddEvent
  <2> QED
    BY <1>a, <2>1, <2>2, IdleStays, PendingStays
<1>2. ASSUME NEW t \in Threads,
             \/ Take(t) \/ FindNothing(t) \/ FinishTask(t) \/ Exit(t)
             \/ CheckTimers(t) \/ CheckPending(t) \/ KeepPolling(t) \/ Poll(t) \/ EpollTimeout(t)
      PROVE  IdleInv' /\ PendingInv'
  <2>1. UNCHANGED <<idle, events, armed, ready, pending, budget>>
    BY <1>2 DEF Take, FindNothing, FinishTask, Exit, CheckTimers, CheckPending, KeepPolling, Poll, EpollTimeout
  <2>2. PICK x \in Pcs : Goto(t, x) /\ x # "settle" /\ (pc[t] \in IdlePcs <=> x \in IdlePcs)
    BY <1>2 DEF Take, FindNothing, FinishTask, Exit, CheckTimers, CheckPending, KeepPolling, Poll,
                EpollTimeout, At, Pcs, IdlePcs
  <2>3. pc[t] \notin {"collect", "dispatch", "settle"}
    BY <1>2 DEF Take, FindNothing, FinishTask, Exit, CheckTimers, CheckPending, KeepPolling, Poll,
                EpollTimeout, At
  <2> QED
    BY <1>b, <2>1, <2>2, <2>3, IdleMoves, PendingMoves
<1>3. ASSUME NEW t \in Threads, EnterIdle(t) PROVE IdleInv' /\ PendingInv'
  <2>1. /\ pc[t] = "noTask" /\ Goto(t, "chkTimers") /\ idle' = idle + 1
        /\ UNCHANGED <<events, armed, ready, pending, budget>>
    BY <1>3 DEF EnterIdle, At
  <2>2. "chkTimers" \in IdlePcs /\ "noTask" \notin IdlePcs
    BY DEF IdlePcs
  <2> QED
    BY <1>b, <2>1, <2>2, IdleBegins, PendingMoves
<1>4. ASSUME NEW t \in Threads, IdleEnds(t) \/ Yield(t) PROVE IdleInv' /\ PendingInv'
  <2>1. /\ pc[t] \in IdlePcs /\ Goto(t, "top") /\ idle' = idle - 1
        /\ UNCHANGED <<events, armed, ready, pending, budget>>
    BY <1>4 DEF IdleEnds, Yield, At, IdlePcs
  <2>2. "top" \notin IdlePcs /\ ~(events[t] > 0)
    BY <1>a, <1>b, <1>4 DEF IdleEnds, Yield, At, IdlePcs
  <2> QED
    BY <2>1, <2>2, IdleStops, PendingMoves
<1>5. ASSUME NEW t \in Threads, EpollEvents(t) PROVE IdleInv' /\ PendingInv'
  <2>1. pc[t] \in IdlePcs /\ Goto(t, "collect") /\ idle' = idle /\ "collect" \in IdlePcs
    BY <1>5 DEF EpollEvents, At, IdlePcs
  <2> QED
    BY <1>5, <2>1, IdleMoves, EpollPending
<1>6. ASSUME NEW t \in Threads, Collect(t) PROVE IdleInv' /\ PendingInv'
  <2>1. /\ pc[t] \in IdlePcs /\ Goto(t, "dispatch") /\ "dispatch" \in IdlePcs
        /\ UNCHANGED <<idle, events, armed, ready, pending, budget>>
    BY <1>6 DEF Collect, At, IdlePcs
  <2> QED
    BY <2>1, IdleMoves, PendingMoves
<1>7. ASSUME NEW t \in Threads, TriggerEvent(t) PROVE IdleInv' /\ PendingInv'
  <2>1. /\ pc[t] \in IdlePcs /\ Goto(t, "settle") /\ "settle" \in IdlePcs /\ events[t] > 0
        /\ UNCHANGED <<idle, events, armed, ready, pending, budget>>
    BY <1>7 DEF TriggerEvent, At, IdlePcs
  <2> QED
    BY <2>1, IdleMoves, PendingMoves
<1>8. ASSUME NEW t \in Threads, Settle(t) PROVE IdleInv' /\ PendingInv'
  <2>1. pc[t] \in IdlePcs /\ Goto(t, "dispatch") /\ idle' = idle /\ "dispatch" \in IdlePcs
    BY <1>8 DEF Settle, At, IdlePcs
  <2> QED
    BY <1>8, <2>1, IdleMoves, SettlePending
<1>9. ASSUME NEW t \in Threads, Tickle(t) \/ ScheduleExpired(t) \/ Drain(t) PROVE IdleInv' /\ PendingInv'
  <2>1. UNCHANGED <<pc, idle, events, armed, ready, pending, budget>>
    BY <1>9 DEF Tickle, ScheduleExpired, Drain
  <2> QED
    BY <1>a, <2>1, IdleStays, PendingStays
<1>10. CASE Stop \/ JoinPool
  <2>1. UNCHANGED <<idle, events, armed, ready, pending, budget>>
    BY <1>10 DEF Stop, JoinPool
  <2>2. PICK x \in {"stopping", "top"} : Goto(Caller, x) /\ pc[Caller] \in {"outside", "stopping"}
    BY <1>10 DEF Stop, JoinPool, At
  <2>3. x # "settle" /\ x \notin IdlePcs /\ pc[Caller] \notin IdlePcs /\ events[Caller] = 0
    BY <1>a, <1>b, <2>2 DEF IdlePcs
  <2> QED
    BY <1>a, <2>1, <2>2, <2>3, IdleMoves, PendingMoves
<1>11. CASE FdReady
  <2>1. /\ UNCHANGED <<pc, idle, events, pending, budget>>
        /\ armed > 0 /\ armed' = armed - 1 /\ ready' = ready + 1
    BY <1>11 DEF FdReady
  <2> QED
    BY <1>a, <2>1, IdleStays, PendingStays
<1>12. CASE TimerDue \/ StopTickle \/ Stopped \/ UNCHANGED vars
  <2>1. UNCHANGED <<pc, idle, events, armed, ready, pending, budget>>
    BY <1>12 DEF TimerDue, StopTickle, Stopped, vars
  <2> QED
    BY <1>a, <2>1, IdleStays, PendingStays
<1> QED
  BY <1>1, <1>2, <1>3, <1>4, <1>5, <1>6, <1>7, <1>8, <1>9, <1>10, <1>11, <1>12
     DEF Next, Worker, Poller

LEMMA PushType ==
  ASSUME TypeOK, NEW t \in Threads, NEW pin \in Pins, PushTask(t, pin)
  PROVE  tasks' \in Seq(Pins) /\ tickleDue' \in [Threads -> BOOLEAN]
BY DEF PushTask, TypeOK

LEMMA TakeType ==
  ASSUME TypeOK, NEW i \in 1..Len(tasks)
  PROVE  Without(tasks, i) \in Seq(Pins)
<1>1. tasks \in Seq(Pins) /\ Len(tasks) \in Nat /\ i \in Nat /\ 1 <= i /\ i <= Len(tasks)
  BY DEF TypeOK
<1>2. SubSeq(tasks, 1, i - 1) \in Seq(Pins)
  BY <1>1
<1>3. SubSeq(tasks, i + 1, Len(tasks)) \in Seq(Pins)
  BY <1>1
<1> QED
  BY <1>2, <1>3 DEF Without

\* Given the counts, every action keeps the types.
LEMMA StepTypeOK ==
  ASSUME TypeOK, PendingInv, [Next]_vars, active' \in Nat, idle' \in Nat, pending' \in Nat
  PROVE  TypeOK'
<1> USE DEF queueVars, idleVars, stopVars, localVars, timerVars, fdVars
<1>a. ASSUME NEW t \in Threads, NEW x \in Pcs, Goto(t, x) PROVE pc' \in [Threads -> Pcs]
  BY <1>a DEF Goto, TypeOK
<1>b. /\ "run" \in Pcs /\ "noTask" \in Pcs /\ "top" \in Pcs /\ "exited" \in Pcs /\ "stopping" \in Pcs
      /\ "chkTimers" \in Pcs /\ "chkPending" \in Pcs /\ "chkSched" \in Pcs /\ "poll" \in Pcs
      /\ "wait" \in Pcs /\ "collect" \in Pcs /\ "dispatch" \in Pcs /\ "settle" \in Pcs
  BY DEF Pcs, IdlePcs
<1>c. AnyThread \in Pins /\ Caller \in Threads /\ Cardinality(Pool) \in Nat
  BY SchedulerAssumption, FS_CardinalityType DEF Threads
<1>1. ASSUME NEW t \in Threads, ScheduleTask(t) PROVE TypeOK'
  <2>1. tasks' \in Seq(Pins) /\ tickleDue' \in [Threads -> BOOLEAN]
    BY <1>1, PushType DEF ScheduleTask
  <2>2. budget' \in 0..Budget
    BY <1>1, SchedulerAssumption DEF ScheduleTask, TypeOK
  <2> QED
    BY <1>1, <2>1, <2>2 DEF ScheduleTask, TypeOK
<1>2. ASSUME NEW t \in Threads, AddTimer(t) PROVE TypeOK'
  <2>1. PICK front \in BOOLEAN :
          /\ tickleDue' = [tickleDue EXCEPT ![t] = front /\ ~tickled]
          /\ tickled' = (tickled \/ front)
    BY <1>2 DEF AddTimer
  <2>2. tickleDue' \in [Threads -> BOOLEAN] /\ tickled' \in BOOLEAN
    BY <2>1 DEF TypeOK
  <2>3. budget' \in 0..Budget /\ timers' \in Nat
    BY <1>2, SchedulerAssumption DEF AddTimer, TypeOK
  <2> QED
    BY <1>2, <2>2, <2>3 DEF AddTimer, TypeOK
<1>3. ASSUME NEW t \in Threads, AddEvent(t) PROVE TypeOK'
  <2>1. budget' \in 0..Budget /\ armed' \in Nat
    BY <1>3, SchedulerAssumption DEF AddEvent, TypeOK
  <2> QED
    BY <1>3, <2>1 DEF AddEvent, TypeOK
<1>4. ASSUME NEW t \in Threads, Take(t) PROVE TypeOK'
  <2>1. tasks' \in Seq(Pins)
    BY <1>4, TakeType DEF Take, Runnable
  <2>2. tickleDue' \in [Threads -> BOOLEAN]
    BY <1>4 DEF Take, TypeOK
  <2> QED
    BY <1>4, <1>a, <1>b, <2>1, <2>2 DEF Take, TypeOK
<1>5. ASSUME NEW t \in Threads, FindNothing(t) PROVE TypeOK'
  <2>1. tickleDue' \in [Threads -> BOOLEAN]
    BY <1>5 DEF FindNothing, TypeOK
  <2> QED
    BY <1>5, <1>a, <1>b, <2>1 DEF FindNothing, TypeOK
<1>6. ASSUME NEW t \in Threads, FinishTask(t) \/ EnterIdle(t) \/ Exit(t) \/ Yield(t) PROVE TypeOK'
  <2>1. pc' \in [Threads -> Pcs]
    BY <1>6, <1>a, <1>b DEF FinishTask, EnterIdle, Exit, Yield
  <2> QED
    BY <1>6, <2>1 DEF FinishTask, EnterIdle, Exit, Yield, TypeOK
<1>7. ASSUME NEW t \in Threads, Tickle(t) PROVE TypeOK'
  <2>1. tickleDue' \in [Threads -> BOOLEAN] /\ pipe' \in BOOLEAN
    BY <1>7 DEF Tickle, TypeOK
  <2> QED
    BY <1>7, <2>1 DEF Tickle, TypeOK
<1>8. ASSUME NEW t \in Threads, \/ CheckTimers(t) \/ CheckPending(t) \/ KeepPolling(t) \/ Poll(t)
                                \/ EpollTimeout(t)
      PROVE  TypeOK'
  <2>1. pc' \in [Threads -> Pcs]
    BY <1>8, <1>a, <1>b DEF CheckTimers, CheckPending, KeepPolling, Poll, EpollTimeout
  <2> QED
    BY <1>8, <2>1 DEF CheckTimers, CheckPending, KeepPolling, Poll, EpollTimeout, TypeOK
<1>9. ASSUME NEW t \in Threads, IdleEnds(t) PROVE TypeOK'
  <2>1. pc' \in [Threads -> Pcs] /\ term' \in [Threads -> BOOLEAN]
    BY <1>9, <1>a, <1>b DEF IdleEnds, TypeOK
  <2> QED
    BY <1>9, <2>1 DEF IdleEnds, TypeOK
<1>10. ASSUME NEW t \in Threads, EpollEvents(t) PROVE TypeOK'
  <2>1. pc' \in [Threads -> Pcs] /\ events' \in [Threads -> Nat] /\ ready' \in Nat
    BY <1>10, <1>a, <1>b DEF EpollEvents, TypeOK
  <2>2. drain' \in [Threads -> BOOLEAN] /\ pipe' \in BOOLEAN
    BY <1>10 DEF EpollEvents, TypeOK
  <2> QED
    BY <1>10, <2>1, <2>2 DEF EpollEvents, TypeOK
<1>11. ASSUME NEW t \in Threads, Collect(t) PROVE TypeOK'
  <2>1. pc' \in [Threads -> Pcs] /\ due' \in [Threads -> Nat] /\ overdue' \in Nat
    BY <1>11, <1>a, <1>b DEF Collect, TypeOK
  <2> QED
    BY <1>11, <2>1 DEF Collect, TypeOK
<1>12. ASSUME NEW t \in Threads, ScheduleExpired(t) PROVE TypeOK'
  <2>1. tasks' \in Seq(Pins) /\ tickleDue' \in [Threads -> BOOLEAN]
    BY <1>12, <1>c, PushType DEF ScheduleExpired
  <2>2. due' \in [Threads -> Nat]
    BY <1>12 DEF ScheduleExpired, TypeOK
  <2> QED
    BY <1>12, <2>1, <2>2 DEF ScheduleExpired, TypeOK
<1>13. ASSUME NEW t \in Threads, Drain(t) PROVE TypeOK'
  <2>1. drain' \in [Threads -> BOOLEAN] /\ pipe' \in BOOLEAN
    BY <1>13 DEF Drain, TypeOK
  <2> QED
    BY <1>13, <2>1 DEF Drain, TypeOK
<1>14. ASSUME NEW t \in Threads, TriggerEvent(t) PROVE TypeOK'
  <2>1. tasks' \in Seq(Pins) /\ tickleDue' \in [Threads -> BOOLEAN]
    BY <1>14, <1>c, PushType DEF TriggerEvent
  <2>2. pc' \in [Threads -> Pcs]
    BY <1>14, <1>a, <1>b DEF TriggerEvent
  <2> QED
    BY <1>14, <2>1, <2>2 DEF TriggerEvent, TypeOK
<1>15. ASSUME NEW t \in Threads, Settle(t) PROVE TypeOK'
  <2>1. events[t] > 0 /\ events[t] \in Nat
    BY <1>15 DEF Settle, At, PendingInv, TypeOK
  <2>2. pc' \in [Threads -> Pcs] /\ events' \in [Threads -> Nat]
    BY <1>15, <1>a, <1>b, <2>1 DEF Settle, TypeOK
  <2> QED
    BY <1>15, <2>2 DEF Settle, TypeOK
<1>16. CASE Stop
  <2>1. pc' \in [Threads -> Pcs] /\ stopTickles' \in Nat
    BY <1>16, <1>a, <1>b, <1>c DEF Stop
  <2> QED
    BY <1>16, <2>1 DEF Stop, TypeOK
<1>17. CASE StopTickle
  <2>1. stopTickles' \in Nat /\ pipe' \in BOOLEAN
    BY <1>17 DEF StopTickle, TypeOK
  <2> QED
    BY <1>17, <2>1 DEF StopTickle, TypeOK
<1>18. CASE JoinPool
  <2>1. pc' \in [Threads -> Pcs]
    BY <1>18, <1>a, <1>b, <1>c DEF JoinPool
  <2> QED
    BY <1>18, <2>1 DEF JoinPool, TypeOK
<1>19. CASE TimerDue
  <2>1. timers' \in Nat /\ overdue' \in Nat
    BY <1>19 DEF TimerDue, TypeOK
  <2> QED
    BY <1>19, <2>1 DEF TimerDue, TypeOK
<1>21. CASE FdReady
  <2>1. armed' \in Nat /\ ready' \in Nat
    BY <1>21 DEF FdReady, TypeOK
  <2> QED
    BY <1>21, <2>1 DEF FdReady, TypeOK
<1>20. CASE Stopped \/ UNCHANGED vars
  BY <1>20 DEF Stopped, vars, TypeOK
<1> QED
  BY <1>1, <1>2, <1>3, <1>4, <1>5, <1>6, <1>7, <1>8, <1>9, <1>10, <1>11, <1>12, <1>13, <1>14,
     <1>15, <1>16, <1>17, <1>18, <1>19, <1>20, <1>21 DEF Next, Create, Worker, Poller

LEMMA InitCounts == Init => TypeOK /\ IdleInv /\ PendingInv
<1> SUFFICES ASSUME Init PROVE TypeOK /\ IdleInv /\ PendingInv
  OBVIOUS
<1>1. TypeOK
  <2>1. pc \in [Threads -> Pcs] /\ tasks \in Seq(Pins) /\ budget \in 0..Budget
    BY SchedulerAssumption DEF Init, Pcs
  <2> QED
    BY <2>1 DEF Init, TypeOK
<1>2. \A t \in Threads : pc[t] \in {"outside", "top"} /\ events[t] = 0
  BY DEF Init
<1>3. Idling = {} /\ InFlight = {}
  BY <1>2, SchedulerAssumption DEF Idling, IdlePcs, InFlight
<1>4. Cardinality(Idling) = 0 /\ Cardinality(InFlight) = 0
  BY <1>3, FS_EmptySet
<1> QED
  BY <1>1, <1>2, <1>4, SchedulerAssumption DEF Init, IdleInv, PendingInv

CountsInv == IInv /\ TypeOK /\ IdleInv /\ PendingInv

\* The counts of active and idle threads and of pending events are exact.
THEOREM SchedulerCounts == Spec => []CountsInv
<1>1. Init => CountsInv
  BY InitIInv, InitCounts DEF CountsInv
<1>2. CountsInv /\ [Next]_vars => CountsInv'
  <2> SUFFICES ASSUME CountsInv, [Next]_vars PROVE CountsInv'
    OBVIOUS
  <2>1. IInv' /\ IdleInv' /\ PendingInv'
    BY StepIInv, StepCounts DEF CountsInv
  <2>2. active' \in Nat
    <3>1. active' = Cardinality(Running')
      BY <2>1 DEF IInv, ShutdownInv
    <3>2. IsFiniteSet(Running')
      BY RunningFinite, FS_Subset DEF Running
    <3> QED
      BY <3>1, <3>2, FS_CardinalityType
  <2>3. idle' \in Nat
    <3>1. IsFiniteSet(Idling')
      BY RunningFinite, FS_Subset DEF Idling
    <3> QED
      BY <2>1, <3>1, FS_CardinalityType DEF IdleInv
  <2>4. pending' \in Nat
    <3>1. Cardinality(InFlight') \in Nat
      <4>1. IsFiniteSet(1..Budget)
        BY SchedulerAssumption, FS_Interval
      <4>2. IsFiniteSet(Threads \X (1..Budget))
        BY <4>1, RunningFinite, FS_Product
      <4>3. IsFiniteSet(InFlight')
        BY <4>2, FS_Subset DEF InFlight
      <4> QED
        BY <4>3, FS_CardinalityType
    <3>2. armed' \in Nat /\ ready' \in Nat
      <4>1. armed \in Nat /\ ready \in Nat
        BY DEF CountsInv, TypeOK
      <4> QED
        BY <4>1 DEF Next, Create, Worker, Poller, vars, queueVars, idleVars, stopVars, localVars, timerVars,
             fdVars, ScheduleTask, AddTimer, AddEvent, Take, FindNothing, FinishTask, EnterIdle, Exit, Tickle,
             CheckTimers, CheckPending, KeepPolling, IdleEnds, Poll, EpollEvents, EpollTimeout, Collect,
             ScheduleExpired, Drain, TriggerEvent, Settle, Yield, TimerDue, FdReady, Stop, StopTickle,
             JoinPool, Stopped
    <3> QED
      BY <2>1, <3>1, <3>2 DEF PendingInv
  <2>5. TypeOK'
    BY <2>2, <2>3, <2>4, StepTypeOK DEF CountsInv
  <2> QED
    BY <2>1, <2>5 DEF CountsInv
<1> QED
  BY <1>1, <1>2, PTL DEF Spec

\* All variables keep their types: m_activeThreadCount, m_idleThreadCount and
\* m_pendingEventCount are counted down no more often than up (scheduler.cpp:118,
\* 145, 174-176; ioscheduler.cpp:160, 462, 467), so stopping() never waits for a
\* count that has passed zero.
THEOREM SchedulerTypeOK == Spec => []TypeOK
<1>1. CountsInv => TypeOK
  BY DEF CountsInv
<1> QED
  BY <1>1, SchedulerCounts, PTL
=============================================================================
