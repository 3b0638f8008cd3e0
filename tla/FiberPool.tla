------------------------------ MODULE FiberPool ------------------------------
(***************************************************************************)
(* Fibers (fiber.cpp), the thread-local pools they are taken from          *)
(* (fiberpool.cpp), the part of Scheduler::run() that executes a task, and *)
(* the hooked calls that wait: sleep(), usleep() and nanosleep() for a     *)
(* timer, connect() for an event, and the I/O calls through suspend().     *)
(*                                                                         *)
(* A context is where swapcontext() goes on: the start of MainFunc(), the  *)
(* call that is suspended on the fiber's stack, or behind its end.  A      *)
(* resume and the three writes of reset() are one step each; the assert of *)
(* reset() and its writes are two, since reset() runs without the fiber's  *)
(* mutex.  A failed assert, and an exception that leaves MainFunc(), end   *)
(* the process.  Tickles and idle counts are IOScheduler's matter.         *)
(***************************************************************************)
EXTENDS Naturals, Sequences, FiniteSets

CONSTANTS Threads,   \* threads in Scheduler::run()
          MaxJobs,   \* bound: callbacks the program schedules
          Blocking,  \* the calls jobs wait in, a subset of Calls
          PoolSize   \* fibers a pool starts with; the source has 256

Calls == {"sleep", "connect", "io"}
Jobs  == 1..MaxJobs   \* named in the order in which they are scheduled

NoThread == "none"

\* A scheduler has no more threads than one of its pools has fibers.
ASSUME FiberAssumption ==
  /\ IsFiniteSet(Threads) /\ NoThread \notin Threads
  /\ MaxJobs \in Nat
  /\ Blocking \subseteq Calls
  /\ PoolSize \in Nat \ {0, 1} /\ Cardinality(Threads) <= PoolSize

\* acquire(): an empty pool grows to one and a half times its size.
GrownSize(n) == (3 * n) \div 2

Fibers   == Threads \X (1..GrownSize(PoolSize))
NoFiber  == <<>>

NoCall   == [kind |-> "none"]
Job(j)   == [kind |-> "job", job |-> j]
Wake(f)  == [kind |-> "wake", fiber |-> f]
Callbacks == {Job(j) : j \in Jobs} \cup {Wake(f) : f \in Fibers}

Start    == [kind |-> "start"]
Over     == [kind |-> "over"]
Resume(f) == [kind |-> "resume", fiber |-> f]   \* a task that holds a fiber

Places == {"take", "idle", "acquire", "rearm", "rejoin", "enter",
           "run", "yield", "check", "reset"}

VARIABLES tasks,    \* Scheduler::m_tasks
          idle,     \* m_idleFibers of each thread's pool
          all,      \* size of m_allFibers of each thread's pool
          state,    \* Fiber::m_state
          cb,       \* Fiber::m_cb
          ctx,      \* Fiber::m_ctx
          lock,     \* the holder of Fiber::m_mutex
          pc,       \* place of each thread in run()
          cur,      \* the fiber a thread works on
          call,     \* the callback a thread has taken or is executing
          waits,    \* timers and events that will wake a fiber
          jobs,     \* number of jobs scheduled
          started,  \* how often the body of each job was entered
          done,     \* how often it came to its end
          blocked,  \* jobs that have called a waiting function
          crashed   \* the process has ended

fiberVars  == <<state, cb, ctx, lock>>
poolVars   == <<idle, all>>
threadVars == <<pc, cur, call>>
logVars    == <<jobs, started, done, blocked>>
vars == <<tasks, poolVars, fiberVars, threadVars, waits, logVars, crashed>>

Waits == [call : Calls \ {"io"}, fiber : Fibers, job : Jobs]

\* createFibers() has filled the pools.
Init ==
  /\ tasks = <<>>
  /\ idle = [t \in Threads |-> [i \in 1..PoolSize |-> <<t, i>>]]
  /\ all = [t \in Threads |-> PoolSize]
  /\ state = [f \in Fibers |-> "READY"]
  /\ cb = [f \in Fibers |-> NoCall]
  /\ ctx = [f \in Fibers |-> Start]
  /\ lock = [f \in Fibers |-> NoThread]
  /\ pc = [t \in Threads |-> "take"]
  /\ cur = [t \in Threads |-> NoFiber]
  /\ call = [t \in Threads |-> NoCall]
  /\ waits = {}
  /\ jobs = 0
  /\ started = [j \in Jobs |-> 0]
  /\ done = [j \in Jobs |-> 0]
  /\ blocked = {}
  /\ crashed = FALSE

At(t, place)   == ~crashed /\ pc[t] = place
Goto(t, place) == pc' = [pc EXCEPT ![t] = place]

\* A failed assert or std::terminate().
Abort ==
  /\ crashed' = TRUE
  /\ UNCHANGED <<tasks, poolVars, fiberVars, threadVars, waits, logVars>>

-----------------------------------------------------------------------------
(* run(): taking a task                                                    *)

\* The program calls scheduleLock() with a callback, from a thread of its own.
Schedule ==
  /\ ~crashed
  /\ jobs < MaxJobs
  /\ jobs' = jobs + 1
  /\ tasks' = Append(tasks, Job(jobs + 1))
  /\ UNCHANGED <<poolVars, fiberVars, threadVars, waits, started, done, blocked, crashed>>

\* A task holds a fiber or a callback.
Take(t) ==
  /\ At(t, "take")
  /\ tasks # <<>>
  /\ tasks' = Tail(tasks)
  /\ IF Head(tasks).kind = "resume"
     THEN /\ cur' = [cur EXCEPT ![t] = Head(tasks).fiber]
          /\ Goto(t, "rejoin")
          /\ UNCHANGED call
     ELSE /\ call' = [call EXCEPT ![t] = Head(tasks)]
          /\ Goto(t, "acquire")
          /\ UNCHANGED cur
  /\ UNCHANGED <<poolVars, fiberVars, waits, logVars, crashed>>

GoIdle(t) ==
  /\ At(t, "take")
  /\ tasks = <<>>
  /\ Goto(t, "idle")
  /\ UNCHANGED <<tasks, poolVars, fiberVars, cur, call, waits, logVars, crashed>>

\* idle() returns without news ...
PollNothing(t) ==
  /\ At(t, "idle")
  /\ Goto(t, "take")
  /\ UNCHANGED <<tasks, poolVars, fiberVars, cur, call, waits, logVars, crashed>>

\* ... or hands on what woke it: the callback of a timer, the fiber of an event.
Poll(t, w) ==
  /\ At(t, "idle")
  /\ w \in waits
  /\ waits' = waits \ {w}
  /\ tasks' = Append(tasks, IF w.call = "sleep" THEN Wake(w.fiber) ELSE Resume(w.fiber))
  /\ Goto(t, "take")
  /\ UNCHANGED <<poolVars, fiberVars, cur, call, logVars, crashed>>

-----------------------------------------------------------------------------
(* The pool                                                                *)

\* createFibers() for an empty pool.
Created(t) ==
  IF idle[t] # <<>> THEN idle[t]
  ELSE [i \in 1..(GrownSize(all[t]) - all[t]) |-> <<t, all[t] + i>>]

\* The assert of reset().
Resettable(f) == state[f] \in {"TERM", "READY"}

\* Mutant of ResetTo: the old callback stays.
ResetKeepsCall(f, c) ==
  /\ state' = [state EXCEPT ![f] = "READY"]
  /\ cb' = [cb EXCEPT ![f] = IF c = NoCall THEN @ ELSE c]
  /\ ctx' = [ctx EXCEPT ![f] = Start]
  /\ UNCHANGED lock

\* Mutant of ResetTo: the state is left as it is.
ResetKeepsState(f, c) ==
  /\ cb' = [cb EXCEPT ![f] = c]
  /\ ctx' = [ctx EXCEPT ![f] = Start]
  /\ UNCHANGED <<state, lock>>

\* The writes of reset().
ResetTo(f, c) ==
  /\ state' = [state EXCEPT ![f] = "READY"]
  /\ cb' = [cb EXCEPT ![f] = c]
  /\ ctx' = [ctx EXCEPT ![f] = Start]
  /\ UNCHANGED lock

\* acquire(): a fiber from the front of this thread's pool.
Acquire(t) ==
  /\ At(t, "acquire")
  /\ LET pool == Created(t)
         f    == Head(pool)
     IN IF ~Resettable(f) THEN Abort
        ELSE /\ idle' = [idle EXCEPT ![t] = Tail(pool)]
             /\ all' = [all EXCEPT ![t] = IF idle[t] # <<>> THEN @ ELSE GrownSize(@)]
             /\ cur' = [cur EXCEPT ![t] = f]
             /\ Goto(t, "rearm")
             /\ UNCHANGED <<tasks, fiberVars, call, waits, logVars, crashed>>

\* ... its reset(cb) goes on.
Rearm(t) ==
  /\ At(t, "rearm")
  /\ ResetTo(cur[t], call[t])
  /\ call' = [call EXCEPT ![t] = NoCall]
  /\ Goto(t, "enter")
  /\ UNCHANGED <<tasks, poolVars, cur, waits, logVars, crashed>>

\* run() after the fiber has come back: one that is SUSPEND is left alone.
Check(t) ==
  /\ At(t, "check")
  /\ IF state[cur[t]] = "SUSPEND" THEN Goto(t, "take") /\ UNCHANGED crashed
     ELSE IF Resettable(cur[t]) THEN Goto(t, "reset") /\ UNCHANGED crashed
     ELSE crashed' = TRUE /\ UNCHANGED pc
  /\ UNCHANGED <<tasks, poolVars, fiberVars, cur, call, waits, logVars>>

\* Mutant of Release: the fiber is not put back.
ReleaseNothing(t) ==
  /\ At(t, "reset")
  /\ ResetTo(cur[t], NoCall)
  /\ cur' = [cur EXCEPT ![t] = NoFiber]
  /\ Goto(t, "take")
  /\ UNCHANGED <<tasks, poolVars, call, waits, logVars, crashed>>

\* release(): the rest of reset(nullptr), and the fiber joins this thread's pool.
Release(t) ==
  /\ At(t, "reset")
  /\ ResetTo(cur[t], NoCall)
  /\ idle' = [idle EXCEPT ![t] = Append(@, cur[t])]
  /\ cur' = [cur EXCEPT ![t] = NoFiber]
  /\ Goto(t, "take")
  /\ UNCHANGED <<tasks, all, call, waits, logVars, crashed>>

-----------------------------------------------------------------------------
(* Executing a fiber                                                       *)

\* Where the context of f goes on: MainFunc() calls m_cb, a suspended call returns.
Entered(f) == IF ctx[f] = Start THEN cb[f] ELSE ctx[f]

\* Mutant of Unlocked: run() does not take the fiber's mutex.
AlwaysUnlocked(f) == TRUE

\* Somebody who locks the fiber's mutex gets on.
Unlocked(f) == lock[f] = NoThread

\* resume() under the fiber's mutex; calling an empty m_cb throws.
ResumeFiber(t) ==
  LET f == cur[t]
  IN IF state[f] # "READY" \/ Entered(f) = NoCall THEN Abort
     ELSE /\ lock' = [lock EXCEPT ![f] = t]
          /\ state' = [state EXCEPT ![f] = "RUNNING"]
          /\ call' = [call EXCEPT ![t] = Entered(f)]
          /\ started' = IF ctx[f] = Start /\ cb[f].kind = "job"
                        THEN [started EXCEPT ![cb[f].job] = @ + 1] ELSE started
          /\ Goto(t, "run")
          /\ UNCHANGED <<tasks, poolVars, cb, ctx, cur, waits, jobs, done, blocked, crashed>>

\* A callback's fiber is resumed as it is.
Enter(t) ==
  /\ At(t, "enter")
  /\ Unlocked(cur[t])
  /\ ResumeFiber(t)

\* A task's fiber is not resumed when it has ended, but still released.
Rejoin(t) ==
  /\ At(t, "rejoin")
  /\ Unlocked(cur[t])
  /\ IF state[cur[t]] # "TERM" THEN ResumeFiber(t)
     ELSE /\ Goto(t, "check")
          /\ UNCHANGED <<tasks, poolVars, fiberVars, cur, call, waits, logVars, crashed>>

\* Mutant of SwitchOut: the mutex stays locked.
SwitchOutLocked(t, s, c) ==
  /\ state' = [state EXCEPT ![cur[t]] = s]
  /\ ctx' = [ctx EXCEPT ![cur[t]] = c]
  /\ call' = [call EXCEPT ![t] = NoCall]
  /\ Goto(t, "check")
  /\ UNCHANGED lock

\* The switch back to run(), which unlocks the fiber's mutex.
SwitchOut(t, s, c) ==
  /\ state' = [state EXCEPT ![cur[t]] = s]
  /\ ctx' = [ctx EXCEPT ![cur[t]] = c]
  /\ lock' = [lock EXCEPT ![cur[t]] = NoThread]
  /\ call' = [call EXCEPT ![t] = NoCall]
  /\ Goto(t, "check")

\* The end of MainFunc().  The callback of a sleep timer schedules the sleeper.
Finish(t) ==
  /\ At(t, "run")
  /\ SwitchOut(t, "TERM", Over)
  /\ cb' = [cb EXCEPT ![cur[t]] = NoCall]
  /\ IF call[t].kind = "job"
     THEN /\ done' = [done EXCEPT ![call[t].job] = @ + 1]
          /\ UNCHANGED tasks
     ELSE /\ tasks' = Append(tasks, Resume(call[t].fiber))
          /\ UNCHANGED done
  /\ UNCHANGED <<poolVars, cur, waits, jobs, started, blocked, crashed>>

\* sleep() adds a timer, connect() an event, for the fiber it runs on.
Await(t, b) ==
  /\ At(t, "run")
  /\ b \in Blocking \ {"io"}
  /\ call[t].kind = "job" /\ call[t].job \notin blocked
  /\ waits' = waits \cup {[call |-> b, fiber |-> cur[t], job |-> call[t].job]}
  /\ blocked' = blocked \cup {call[t].job}
  /\ Goto(t, "yield")
  /\ UNCHANGED <<tasks, poolVars, fiberVars, cur, call, jobs, started, done, crashed>>

\* do_io() after EAGAIN: suspend() marks the fiber and calls yield().
Suspend(t) ==
  /\ At(t, "run")
  /\ "io" \in Blocking
  /\ call[t].kind = "job" /\ call[t].job \notin blocked
  /\ blocked' = blocked \cup {call[t].job}
  /\ IF state[cur[t]] # "RUNNING" THEN crashed' = TRUE /\ UNCHANGED <<state, pc>>
     ELSE /\ state' = [state EXCEPT ![cur[t]] = "SUSPEND"]
          /\ Goto(t, "yield")
          /\ UNCHANGED crashed
  /\ UNCHANGED <<tasks, poolVars, cb, ctx, lock, cur, call, waits, jobs, started, done>>

\* yield(): its assert allows a fiber that is RUNNING (TERM is MainFunc's case).
Yield(t) ==
  /\ At(t, "yield")
  /\ IF state[cur[t]] \notin {"RUNNING", "TERM"} THEN Abort
     ELSE /\ SwitchOut(t, IF state[cur[t]] = "TERM" THEN "TERM" ELSE "READY", call[t])
          /\ UNCHANGED <<tasks, poolVars, cb, cur, waits, logVars, crashed>>

-----------------------------------------------------------------------------
Step(t) ==
  \/ Take(t) \/ GoIdle(t) \/ PollNothing(t) \/ \E w \in waits : Poll(t, w)
  \/ Acquire(t) \/ Rearm(t) \/ Enter(t) \/ Rejoin(t)
  \/ Finish(t) \/ \E b \in Blocking : Await(t, b)
  \/ Suspend(t) \/ Yield(t) \/ Check(t) \/ Release(t)

Next == Schedule \/ \E t \in Threads : Step(t)

\* Every thread runs; nobody is assumed to be woken.
Fairness == \A t \in Threads : WF_vars(Step(t))

Spec == Init /\ [][Next]_vars /\ Fairness

-----------------------------------------------------------------------------
(* Properties                                                              *)

\* Types of all variables.
TypeOK ==
  /\ tasks \in Seq(Callbacks \cup {Resume(f) : f \in Fibers})
  /\ idle \in [Threads -> Seq(Fibers)]
  /\ all \in [Threads -> PoolSize..GrownSize(PoolSize)]
  /\ state \in [Fibers -> {"READY", "RUNNING", "SUSPEND", "TERM"}]
  /\ cb \in [Fibers -> Callbacks \cup {NoCall}]
  /\ ctx \in [Fibers -> Callbacks \cup {Start, Over}]
  /\ lock \in [Fibers -> Threads \cup {NoThread}]
  /\ pc \in [Threads -> Places]
  /\ cur \in [Threads -> Fibers \cup {NoFiber}]
  /\ call \in [Threads -> Callbacks \cup {NoCall}]
  /\ waits \subseteq Waits
  /\ jobs \in 0..MaxJobs
  /\ started \in [Jobs -> Nat] /\ done \in [Jobs -> Nat]
  /\ blocked \subseteq Jobs
  /\ crashed \in BOOLEAN

\* Threads whose instruction pointer is on the stack of their fiber.
OnStack == {t \in Threads : pc[t] \in {"run", "yield"}}

\* Two threads never execute on the stack of one fiber, whatever late wakeups,
\* double releases and reuse have done to it (the mutex of scheduler.cpp:133, 152).
OneThreadPerStack == \A t, u \in OnStack : t # u => cur[t] # cur[u]

\* The body of a job is entered at most once and ends at most once: a fiber that
\* is woken after it was released or reused does not run an old callback again
\* (reset(nullptr) in fiberpool.cpp:53, m_cb = nullptr in fiber.cpp:193).
AtMostOnce == \A j \in Jobs : started[j] <= 1 /\ done[j] <= started[j]

\* Until a job waits in a hooked call, a pooled fiber is READY, has no callback,
\* no call on its stack and no user, and is pooled once (fiberpool.cpp:49-55).
PooledIsUnused ==
  blocked = {} =>
    /\ \A t \in Threads : \A i \in DOMAIN idle[t] :
         LET f == idle[t][i]
         IN /\ state[f] = "READY" /\ cb[f] = NoCall /\ ctx[f] = Start
            /\ \A u \in Threads : cur[u] # f
    /\ \A t, u \in Threads : \A i \in DOMAIN idle[t], k \in DOMAIN idle[u] :
         idle[t][i] = idle[u][k] => t = u /\ i = k

\* A pool never runs empty, so acquire() never has to create fibers: a thread
\* puts back the fiber it took before it takes the next one, even when the fiber
\* waits (fiberpool.cpp:35-39).
PoolSuffices == \A t \in Threads : all[t] = PoolSize

\* Without waiting calls every scheduled job comes to its end.
JobsFinish == \A j \in Jobs : jobs >= j ~> (done[j] = 1 \/ crashed \/ blocked # {})

\* A job that waits in a hooked call keeps its suspended call until somebody
\* resumes it: hook.cpp:231 "wait for the next resume" before yield().
WaitingIsKept ==
  ~crashed => \A w \in waits :
     \E f \in Fibers : ctx[f] = Job(w.job) \/ \E t \in OnStack : call[t] = Job(w.job)
=============================================================================
