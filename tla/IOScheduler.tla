----------------------------- MODULE IOScheduler -----------------------------
(***************************************************************************)
(* The thread pool of co-pro/corotinue-fiber-pool: Scheduler (scheduler.h, *)
(* scheduler.cpp) with the overrides of IOManager (ioscheduler.cpp): the   *)
(* task queue, run(), the idle fiber that polls epoll, the tickle pipe,    *)
(* and shutdown through stopping()/stop().                                 *)
(*                                                                         *)
(* Timers, fd events and task bodies are counted, not identified: a task   *)
(* body may schedule tasks, add timers and add events, Budget of them in   *)
(* all.  TimerManager and FdContext model what is behind the counters.     *)
(* The caller (use_caller, the default) joins the pool when it calls       *)
(* stop().                                                                 *)
(***************************************************************************)
EXTENDS Naturals, Sequences, FiniteSets

CONSTANTS Pool,     \* the threads start() creates
          Caller,   \* m_rootThread
          AnyThread,      \* thread == -1: the task may run anywhere
          Pins,     \* the thread arguments passed to scheduleLock()
          Budget    \* bound: tasks, timers and events created in a behaviour

Threads == Pool \cup {Caller}

ASSUME SchedulerAssumption ==
  /\ IsFiniteSet(Pool)
  /\ Caller \notin Pool
  /\ AnyThread \notin Threads
  /\ Pins \subseteq Threads \cup {AnyThread}
  /\ AnyThread \in Pins
  /\ Budget \in Nat

VARIABLES tasks,      \* m_tasks: for each task the thread it is pinned to, or AnyThread
          active,     \* m_activeThreadCount
          idle,       \* m_idleThreadCount
          stopFlag,   \* m_stopping
          stopTickles,\* tickle() calls that stop() still has to make
          pc,         \* where each thread is
          term,       \* has the thread's idle fiber ended (TERM)?
          tickleDue,  \* the thread left a lock and calls tickle() next
          due,        \* cbs: expired callbacks the idle fiber has to schedule
          events,     \* ready events the idle fiber has to trigger
          drain,      \* the tickle pipe is among them and has to be read empty
          pipe,       \* the tickle pipe is in epoll's ready list and not empty
          timers,     \* timers in m_timers whose time has not come
          overdue,    \* timers in m_timers whose time has come
          tickled,    \* TimerManager::m_tickled
          armed,      \* registered fd events, not ready
          ready,      \* fd events in epoll's ready list
          pending,    \* m_pendingEventCount
          budget      \* what is left of Budget

queueVars == <<tasks, active>>
idleVars  == <<idle, term>>
stopVars  == <<stopFlag, stopTickles>>
localVars == <<due, events, drain>>
timerVars == <<timers, overdue, tickled>>
fdVars    == <<armed, ready, pending>>
vars == <<queueVars, idleVars, stopVars, pc, tickleDue, localVars, pipe,
          timerVars, fdVars, budget>>

(***************************************************************************)
(* outside    - the caller, before stop()                                  *)
(* stopping   - the caller in stop(), sending tickles                      *)
(* top        - in run(), before the scan of m_tasks                       *)
(* run        - executing a task                                           *)
(* noTask     - the scan found nothing                                     *)
(* chkTimers, chkPending, chkSched - the three reads of stopping()         *)
(* poll, wait - getNextTimer(), then blocked in epoll_wait                 *)
(* collect, dispatch, settle - listExpiredCb(), scheduling, --pending      *)
(* exited     - run() has returned                                         *)
(***************************************************************************)
IdlePcs == {"chkTimers", "chkPending", "chkSched", "poll", "wait",
            "collect", "dispatch", "settle"}
Pcs == IdlePcs \cup {"outside", "stopping", "top", "run", "noTask", "exited"}

Init ==
  /\ tasks = << >>
  /\ active = 0
  /\ idle = 0
  /\ stopFlag = FALSE
  /\ stopTickles = 0
  /\ pc = [t \in Threads |-> IF t = Caller THEN "outside" ELSE "top"]
  /\ term = [t \in Threads |-> FALSE]
  /\ tickleDue = [t \in Threads |-> FALSE]
  /\ due = [t \in Threads |-> 0]
  /\ events = [t \in Threads |-> 0]
  /\ drain = [t \in Threads |-> FALSE]
  /\ pipe = FALSE
  /\ timers = 0 /\ overdue = 0 /\ tickled = FALSE
  /\ armed = 0 /\ ready = 0 /\ pending = 0
  /\ budget = Budget

At(t, label) == pc[t] = label /\ ~tickleDue[t]
Goto(t, label) == pc' = [pc EXCEPT ![t] = label]

-----------------------------------------------------------------------------
(* scheduleLock() and tickle()                                             *)

\* Under the lock: push, and remember whether the queue was empty.
PushTask(t, pin) ==
  /\ tasks' = Append(tasks, pin)
  /\ tickleDue' = [tickleDue EXCEPT ![t] = (tasks = << >>)]

\* tickle(): a byte in the pipe, unless no thread counts as idle.
Tickle(t) ==
  /\ tickleDue[t]
  /\ tickleDue' = [tickleDue EXCEPT ![t] = FALSE]
  /\ pipe' = (pipe \/ idle > 0)
  /\ UNCHANGED <<queueVars, idleVars, stopVars, pc, localVars, timerVars, fdVars, budget>>

-----------------------------------------------------------------------------
(* What a task body, or the caller before stop(), may do.                  *)

MayAct(t) == At(t, "run") \/ At(t, "outside")

ScheduleTask(t) ==
  /\ MayAct(t)
  /\ budget > 0
  /\ budget' = budget - 1
  /\ \E pin \in Pins : PushTask(t, pin)
  /\ UNCHANGED <<active, idleVars, stopVars, pc, localVars, pipe, timerVars, fdVars>>

\* addTimer(): only the first timer in front since the last getNextTimer() tickles.
AddTimer(t) ==
  /\ MayAct(t)
  /\ budget > 0
  /\ budget' = budget - 1
  /\ timers' = timers + 1
  /\ \E front \in BOOLEAN :
       /\ timers + overdue = 0 => front
       /\ overdue > 0 => ~front
       /\ tickleDue' = [tickleDue EXCEPT ![t] = front /\ ~tickled]
       /\ tickled' = (tickled \/ front)
  /\ UNCHANGED <<queueVars, idleVars, stopVars, pc, localVars, pipe, overdue, fdVars>>

AddEvent(t) ==
  /\ MayAct(t)
  /\ budget > 0
  /\ budget' = budget - 1
  /\ armed' = armed + 1
  /\ pending' = pending + 1
  /\ UNCHANGED <<queueVars, idleVars, stopVars, pc, tickleDue, localVars, pipe, timerVars, ready>>

TimerDue ==
  /\ timers > 0
  /\ timers' = timers - 1
  /\ overdue' = overdue + 1
  /\ UNCHANGED <<queueVars, idleVars, stopVars, pc, tickleDue, localVars, pipe, tickled, fdVars, budget>>

FdReady ==
  /\ armed > 0
  /\ armed' = armed - 1
  /\ ready' = ready + 1
  /\ UNCHANGED <<queueVars, idleVars, stopVars, pc, tickleDue, localVars, pipe, timerVars, pending, budget>>

-----------------------------------------------------------------------------
(* run()                                                                   *)

Runnable(t) == {i \in 1..Len(tasks) : tasks[i] \in {AnyThread, t}}
Without(s, i) == SubSeq(s, 1, i - 1) \o SubSeq(s, i + 1, Len(s))

\* The first task this thread may run is popped and counted under the lock; a
\* skipped or a following task makes the thread tickle.
Take(t) ==
  /\ At(t, "top")
  /\ \E i \in Runnable(t) :
       /\ \A j \in Runnable(t) : i <= j
       /\ tasks' = Without(tasks, i)
  /\ active' = active + 1
  /\ tickleDue' = [tickleDue EXCEPT ![t] = Len(tasks) > 1]
  /\ Goto(t, "run")
  /\ UNCHANGED <<idleVars, stopVars, localVars, pipe, timerVars, fdVars, budget>>

FindNothing(t) ==
  /\ At(t, "top")
  /\ Runnable(t) = {}
  /\ tickleDue' = [tickleDue EXCEPT ![t] = tasks # << >>]
  /\ Goto(t, "noTask")
  /\ UNCHANGED <<queueVars, idleVars, stopVars, localVars, pipe, timerVars, fdVars, budget>>

FinishTask(t) ==
  /\ At(t, "run")
  /\ active' = active - 1
  /\ Goto(t, "top")
  /\ UNCHANGED <<tasks, idleVars, stopVars, tickleDue, localVars, pipe, timerVars, fdVars, budget>>

\* Mutant of EnterIdle: m_idleThreadCount++ is forgotten.
EnterIdleUncounted(t) ==
  /\ At(t, "noTask")
  /\ ~term[t]
  /\ Goto(t, "chkTimers")
  /\ UNCHANGED <<queueVars, idleVars, stopVars, tickleDue, localVars, pipe, timerVars, fdVars, budget>>

EnterIdle(t) ==
  /\ At(t, "noTask")
  /\ ~term[t]
  /\ idle' = idle + 1
  /\ Goto(t, "chkTimers")
  /\ UNCHANGED <<queueVars, term, stopVars, tickleDue, localVars, pipe, timerVars, fdVars, budget>>

Exit(t) ==
  /\ At(t, "noTask")
  /\ term[t]
  /\ Goto(t, "exited")
  /\ UNCHANGED <<queueVars, idleVars, stopVars, tickleDue, localVars, pipe, timerVars, fdVars, budget>>

-----------------------------------------------------------------------------
(* idle()                                                                  *)

\* stopping() reads the timers, then the pending events, then the scheduler.
CheckTimers(t) ==
  /\ At(t, "chkTimers")
  /\ tickled' = FALSE
  /\ Goto(t, IF timers + overdue = 0 THEN "chkPending" ELSE "poll")
  /\ UNCHANGED <<queueVars, idleVars, stopVars, tickleDue, localVars, pipe, timers, overdue, fdVars, budget>>

CheckPending(t) ==
  /\ At(t, "chkPending")
  /\ Goto(t, IF pending = 0 THEN "chkSched" ELSE "poll")
  /\ UNCHANGED <<queueVars, idleVars, stopVars, tickleDue, localVars, pipe, timerVars, fdVars, budget>>

\* Mutant of SchedulerStopping: only m_stopping is looked at.
SchedulerStoppingEarly == stopFlag

\* Scheduler::stopping(), under m_mutex.
SchedulerStopping == stopFlag /\ tasks = << >> /\ active = 0

KeepPolling(t) ==
  /\ At(t, "chkSched")
  /\ ~SchedulerStopping
  /\ Goto(t, "poll")
  /\ UNCHANGED <<queueVars, idleVars, stopVars, tickleDue, localVars, pipe, timerVars, fdVars, budget>>

\* The idle fiber ends; run() scans the queue once more.
IdleEnds(t) ==
  /\ At(t, "chkSched")
  /\ SchedulerStopping
  /\ term' = [term EXCEPT ![t] = TRUE]
  /\ idle' = idle - 1
  /\ Goto(t, "top")
  /\ UNCHANGED <<queueVars, stopVars, tickleDue, localVars, pipe, timerVars, fdVars, budget>>

Poll(t) ==
  /\ At(t, "poll")
  /\ tickled' = FALSE
  /\ Goto(t, "wait")
  /\ UNCHANGED <<queueVars, idleVars, stopVars, tickleDue, localVars, pipe, timers, overdue, fdVars, budget>>

\* epoll_wait returns everything that is ready ...
EpollEvents(t) ==
  /\ At(t, "wait")
  /\ pipe \/ ready > 0
  /\ pipe' = FALSE
  /\ drain' = [drain EXCEPT ![t] = pipe]
  /\ events' = [events EXCEPT ![t] = ready]
  /\ ready' = 0
  /\ Goto(t, "collect")
  /\ UNCHANGED <<queueVars, idleVars, stopVars, tickleDue, due, timerVars, armed, pending, budget>>

\* ... or times out, after the next timer's delay and at most 5 s.
EpollTimeout(t) ==
  /\ At(t, "wait")
  /\ ~pipe /\ ready = 0
  /\ Goto(t, "collect")
  /\ UNCHANGED <<queueVars, idleVars, stopVars, tickleDue, localVars, pipe, timerVars, fdVars, budget>>

\* listExpiredCb(): what is overdue leaves the heap.  A recurring timer would be put
\* back (timer.cpp:167-172); nothing in the repository adds one, and none is here.
Collect(t) ==
  /\ At(t, "collect")
  /\ due' = [due EXCEPT ![t] = overdue]
  /\ overdue' = 0
  /\ Goto(t, "dispatch")
  /\ UNCHANGED <<queueVars, idleVars, stopVars, tickleDue, events, drain, pipe, timers, tickled, fdVars, budget>>

ScheduleExpired(t) ==
  /\ At(t, "dispatch")
  /\ due[t] > 0
  /\ due' = [due EXCEPT ![t] = @ - 1]
  /\ PushTask(t, AnyThread)
  /\ UNCHANGED <<active, idleVars, stopVars, pc, events, drain, pipe, timerVars, fdVars, budget>>

\* The pipe is read empty: tickles written since epoll_wait returned are gone.
Drain(t) ==
  /\ At(t, "dispatch")
  /\ due[t] = 0
  /\ drain[t]
  /\ drain' = [drain EXCEPT ![t] = FALSE]
  /\ pipe' = FALSE
  /\ UNCHANGED <<queueVars, idleVars, stopVars, pc, tickleDue, due, events, timerVars, fdVars, budget>>

TriggerEvent(t) ==
  /\ At(t, "dispatch")
  /\ due[t] = 0
  /\ events[t] > 0
  /\ PushTask(t, AnyThread)
  /\ Goto(t, "settle")
  /\ UNCHANGED <<active, idleVars, stopVars, localVars, pipe, timerVars, fdVars, budget>>

\* Mutant of Settle: --m_pendingEventCount is forgotten.
SettleUncounted(t) ==
  /\ At(t, "settle")
  /\ events' = [events EXCEPT ![t] = @ - 1]
  /\ Goto(t, "dispatch")
  /\ UNCHANGED <<queueVars, idleVars, stopVars, tickleDue, due, drain, pipe, timerVars, fdVars, budget>>

\* --m_pendingEventCount, after the callback is in the queue.
Settle(t) ==
  /\ At(t, "settle")
  /\ pending' = pending - 1
  /\ events' = [events EXCEPT ![t] = @ - 1]
  /\ Goto(t, "dispatch")
  /\ UNCHANGED <<queueVars, idleVars, stopVars, tickleDue, due, drain, pipe, timerVars, armed, ready, budget>>

\* Mutant of Yield: the idle fiber polls again without yielding.
YieldNever(t) ==
  /\ At(t, "dispatch")
  /\ due[t] = 0 /\ events[t] = 0 /\ ~drain[t]
  /\ Goto(t, "chkTimers")
  /\ UNCHANGED <<queueVars, idleVars, stopVars, tickleDue, localVars, pipe, timerVars, fdVars, budget>>

Yield(t) ==
  /\ At(t, "dispatch")
  /\ due[t] = 0 /\ events[t] = 0 /\ ~drain[t]
  /\ idle' = idle - 1
  /\ Goto(t, "top")
  /\ UNCHANGED <<queueVars, term, stopVars, tickleDue, localVars, pipe, timerVars, fdVars, budget>>

-----------------------------------------------------------------------------
(* stop(), called by the caller (~IOManager)                               *)

\* stopping(), which is not yet true, resets m_tickled through getNextTimer().
Stop ==
  /\ At(Caller, "outside")
  /\ stopFlag' = TRUE
  /\ stopTickles' = Cardinality(Pool) + 1
  /\ tickled' = FALSE
  /\ Goto(Caller, "stopping")
  /\ UNCHANGED <<queueVars, idleVars, tickleDue, localVars, pipe, timers, overdue, fdVars, budget>>

StopTickle ==
  /\ At(Caller, "stopping")
  /\ stopTickles > 0
  /\ stopTickles' = stopTickles - 1
  /\ pipe' = (pipe \/ idle > 0)
  /\ UNCHANGED <<queueVars, idleVars, stopFlag, pc, tickleDue, localVars, timerVars, fdVars, budget>>

\* m_schedulerFiber->resume(): the caller runs run() like a pool thread.
JoinPool ==
  /\ At(Caller, "stopping")
  /\ stopTickles = 0
  /\ Goto(Caller, "top")
  /\ UNCHANGED <<queueVars, idleVars, stopVars, tickleDue, localVars, pipe, timerVars, fdVars, budget>>

AllExited == \A t \in Threads : pc[t] = "exited"

Stopped == AllExited /\ UNCHANGED vars

-----------------------------------------------------------------------------
Create(t) == ScheduleTask(t) \/ AddTimer(t) \/ AddEvent(t)
Poller(t) == \/ CheckTimers(t) \/ CheckPending(t) \/ KeepPolling(t) \/ IdleEnds(t)
             \/ Poll(t) \/ EpollEvents(t) \/ EpollTimeout(t) \/ Collect(t)
             \/ ScheduleExpired(t) \/ Drain(t) \/ TriggerEvent(t) \/ Settle(t) \/ Yield(t)
Worker(t) == \/ Take(t) \/ FindNothing(t) \/ FinishTask(t) \/ EnterIdle(t) \/ Exit(t)
             \/ Tickle(t) \/ Poller(t)

Next ==
  \/ \E t \in Threads : Create(t) \/ Worker(t)
  \/ TimerDue \/ FdReady
  \/ Stop \/ StopTickle \/ JoinPool
  \/ Stopped

Spec == Init /\ [][Next]_vars

\* Threads keep running, epoll_wait times out, timers come due, the peers of
\* registered descriptors eventually send or close.
Fairness ==
  /\ \A t \in Threads : WF_vars(Worker(t))
  /\ WF_vars(TimerDue) /\ WF_vars(FdReady)
  /\ WF_vars(StopTickle \/ JoinPool)

FairSpec == Spec /\ Fairness
-----------------------------------------------------------------------------
\* Types of all variables.
TypeOK ==
  /\ tasks \in Seq(Pins)
  /\ active \in Nat /\ idle \in Nat
  /\ stopFlag \in BOOLEAN /\ stopTickles \in Nat
  /\ pc \in [Threads -> Pcs]
  /\ term \in [Threads -> BOOLEAN] /\ tickleDue \in [Threads -> BOOLEAN]
  /\ due \in [Threads -> Nat] /\ events \in [Threads -> Nat]
  /\ drain \in [Threads -> BOOLEAN]
  /\ pipe \in BOOLEAN /\ tickled \in BOOLEAN
  /\ timers \in Nat /\ overdue \in Nat
  /\ armed \in Nat /\ ready \in Nat /\ pending \in Nat
  /\ budget \in 0..Budget

\* "assert(stopping()==true)" in ~Scheduler() (scheduler.cpp:50): when every
\* run() has returned, no task is queued or running, pinned or not, whichever
\* thread left first and whatever was scheduled meanwhile.
DestructorAssert == AllExited => stopFlag /\ tasks = << >> /\ active = 0

Running == {t \in Threads : pc[t] = "run"}

\* Why: m_activeThreadCount counts the threads that run a task; a thread whose
\* idle fiber has ended may still run one, but the last idle fiber ends only
\* when nothing is queued or running, and then nobody is left to add anything.
ShutdownInv ==
  /\ active = Cardinality(Running)
  /\ \A t \in Threads : term[t] => pc[t] \in {"top", "run", "noTask", "exited"}
  /\ \A t \in Threads : pc[t] = "exited" => term[t]
  /\ (\A t \in Threads : term[t]) => stopFlag /\ tasks = << >> /\ active = 0

\* Some task waits for a thread that has left run(): nobody will take it.
Orphan == \E i \in 1..Len(tasks) : tasks[i] # AnyThread /\ pc[tasks[i]] = "exited"

\* Every scheduled task is taken, although a tickle may be missed or swallowed:
\* epoll_wait never blocks for good.
TasksAreTaken == tasks # << >> ~> (tasks = << >> \/ Orphan)

\* stop() returns: every thread leaves run() once the work is done.  Two things
\* keep it from that: a task of a thread that has left, Orphan, and a recurring
\* timer that nobody cancels, with which hasTimer() stays true for ever.  The
\* timers of this module are one-shot timers, as all in the repository are.
StopReturns == stopFlag ~> (AllExited \/ Orphan)
=============================================================================
