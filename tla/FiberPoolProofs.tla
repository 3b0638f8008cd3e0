-------------------------- MODULE FiberPoolProofs ---------------------------
(***************************************************************************)
(* Proofs about FiberPool, for every number of threads, jobs and fibers    *)
(* and every choice of waiting calls: the types, that a stack has one      *)
(* thread, that a job runs at most once, that a pooled fiber is unused as  *)
(* long as nothing waits, and that no pool runs empty.                     *)
(***************************************************************************)
EXTENDS FiberPool, FiniteSetTheorems, TLAPS

-----------------------------------------------------------------------------
(* The inductive invariants                                                *)

\* Places at which a thread works on a fiber, and those between acquire() or
\* resume() and release().
Working == {"rearm", "rejoin", "enter", "run", "yield", "check", "reset"}
Holding == Working \ {"rejoin"}

\* What a thread has in hand at each place of run().
PlaceInv ==
  \A t \in Threads :
    /\ pc[t] \in Working => cur[t] \in Fibers
    /\ pc[t] \in {"acquire", "rearm", "run", "yield"} => call[t] \in Callbacks
    /\ pc[t] = "yield" => call[t].kind = "job"

\* The mutex of a fiber is held by the thread on its stack and by nobody else.
LockInv ==
  \A t \in Threads :
    /\ t \in OnStack => lock[cur[t]] = t
    /\ \A f \in Fibers : lock[f] = t => t \in OnStack /\ cur[t] = f

\* A context behind its end belongs to a fiber that is TERM.
OverInv == \A f \in Fibers : ctx[f] = Over => state[f] = "TERM"

\* A fiber that suspend() has marked is never RUNNING again, and the mutex keeps
\* everybody else off it.
Doomed == {u \in Threads : pc[u] = "yield" /\ state[cur[u]] \in {"SUSPEND", "READY"}}
SuspendInv == \A f \in Fibers : state[f] = "SUSPEND" => \E u \in Doomed : cur[u] = f
RunningInv == \A u \in Threads : pc[u] \in {"run", "yield"} => state[cur[u]] # "TERM"

\* The doomed threads that can have cost t a fiber.
Costs == [t \in Threads |-> {u \in Doomed : u # t /\ ~(pc[t] = "check" /\ cur[t] = cur[u])}]

\* Fibers leave the pool of a thread only into its hands, or with a doomed thread.
StockInv ==
  \A t \in Threads :
    PoolSize <= Len(idle[t]) + (IF pc[t] \in Holding THEN 1 ELSE 0) + Cardinality(Costs[t])

StatusInv == PlaceInv /\ LockInv /\ OverInv /\ SuspendInv /\ RunningInv

TypeInv == TypeOK /\ StatusInv /\ StockInv /\ PoolSuffices

\* Where a job that has not been started can be: in the queue, with a thread that
\* has taken it, or in a fiber that nobody is on and that would start it.
Queued == {i \in DOMAIN tasks : tasks[i].kind = "job"}
Taken  == {t \in Threads : pc[t] \in {"acquire", "rearm"} /\ call[t].kind = "job"}
Loaded == {f \in Fibers : lock[f] = NoThread /\ ctx[f] = Start /\ cb[f].kind = "job"}

\* It is in one of these places and was never entered.
FreshInv ==
  /\ \A i \in Queued : started[tasks[i].job] = 0 /\ tasks[i].job <= jobs
  /\ \A t \in Taken : started[call[t].job] = 0 /\ call[t].job <= jobs
  /\ \A f \in Loaded : started[cb[f].job] = 0 /\ cb[f].job <= jobs
  /\ \A i, k \in Queued : tasks[i].job = tasks[k].job => i = k
  /\ \A t, u \in Taken : call[t].job = call[u].job => t = u
  /\ \A f, g \in Loaded : cb[f].job = cb[g].job => f = g
  /\ \A i \in Queued, t \in Taken : tasks[i].job # call[t].job
  /\ \A i \in Queued, f \in Loaded : tasks[i].job # cb[f].job
  /\ \A t \in Taken, f \in Loaded : call[t].job # cb[f].job

\* Where a job that was started can be: with the thread that executes it, or as
\* the suspended call of a fiber that nobody is on.
Executed == {t \in OnStack : call[t].kind = "job"}
Parked   == {f \in Fibers : lock[f] = NoThread /\ ctx[f].kind = "job"}

\* It is in one of these places and has not come to its end.
StartedInv ==
  /\ \A t \in Executed : started[call[t].job] = 1 /\ done[call[t].job] = 0
  /\ \A f \in Parked : started[ctx[f].job] = 1 /\ done[ctx[f].job] = 0
  /\ \A t, u \in Executed : call[t].job = call[u].job => t = u
  /\ \A f, g \in Parked : ctx[f].job = ctx[g].job => f = g
  /\ \A t \in Executed, f \in Parked : call[t].job # ctx[f].job

OnceInv ==
  /\ \A j \in Jobs : j > jobs => started[j] = 0
  /\ AtMostOnce /\ FreshInv /\ StartedInv

\* As long as no job waits there are no timers, no wakeups and no suspended calls,
\* and the fibers of a pool stay with its thread.
Quiet ==
  /\ waits = {}
  /\ \A i \in DOMAIN tasks : tasks[i].kind = "job"
  /\ \A f \in Fibers : /\ cb[f] = NoCall \/ cb[f].kind = "job"
                       /\ ctx[f] \in {Start, Over} /\ state[f] # "SUSPEND"
  /\ \A t \in Threads :
       /\ call[t] = NoCall \/ call[t].kind = "job"
       /\ pc[t] \notin {"rejoin", "yield"}
       /\ pc[t] \in Working => cur[t][1] = t
       /\ pc[t] \notin Working => cur[t] = NoFiber
       /\ \A i \in DOMAIN idle[t] : idle[t][i][1] = t

\* Fibers with nothing in them that nobody works on.
Clean == {f \in Fibers : /\ state[f] = "READY" /\ cb[f] = NoCall /\ ctx[f] = Start
                         /\ \A u \in Threads : cur[u] # f}

\* They are what a pool holds, each once.
Unused ==
  \A t \in Threads : \A i \in DOMAIN idle[t] :
    idle[t][i] \in Clean /\ \A k \in DOMAIN idle[t] : idle[t][i] = idle[t][k] => i = k

QuietInv == blocked = {} => Quiet /\ Unused

-----------------------------------------------------------------------------
(* Lemmas about callbacks, fibers and queues                               *)

LEMMA CallbackKinds ==
  /\ \A c \in Callbacks : \/ c.kind = "job" /\ c.job \in Jobs /\ c = Job(c.job)
                          \/ c.kind = "wake" /\ c.fiber \in Fibers
  /\ \A j \in Jobs : Job(j) \in Callbacks /\ Job(j).kind = "job" /\ Job(j).job = j
  /\ \A f \in Fibers : Wake(f) \in Callbacks /\ Wake(f).kind = "wake"
  /\ \A f \in Fibers : Resume(f).kind = "resume" /\ Resume(f).fiber = f
  /\ NoCall.kind = "none" /\ Start.kind = "start" /\ Over.kind = "over"
<1>1. \A j \in Jobs : Job(j) \in Callbacks /\ Job(j).kind = "job" /\ Job(j).job = j
  BY DEF Callbacks, Job
<1>2. \A f \in Fibers : Wake(f) \in Callbacks /\ Wake(f).kind = "wake" /\ Wake(f).fiber = f
  BY DEF Callbacks, Wake
<1>3. \A f \in Fibers : Resume(f).kind = "resume" /\ Resume(f).fiber = f
  BY DEF Resume
<1>4. NoCall.kind = "none" /\ Start.kind = "start" /\ Over.kind = "over"
  BY DEF NoCall, Start, Over
<1>5. ASSUME NEW c \in Callbacks
      PROVE  \/ c.kind = "job" /\ c.job \in Jobs /\ c = Job(c.job)
             \/ c.kind = "wake" /\ c.fiber \in Fibers
  <2>1. (\E j \in Jobs : c = Job(j)) \/ (\E f \in Fibers : c = Wake(f))
    BY DEF Callbacks
  <2> QED
    BY <1>1, <1>2, <2>1
<1> QED
  BY <1>1, <1>2, <1>3, <1>4, <1>5

LEMMA OtherKinds ==
  /\ NoCall \notin Callbacks /\ Start \notin Callbacks /\ Over \notin Callbacks
  /\ Start # Over /\ NoCall # Start /\ NoCall # Over
BY CallbackKinds

LEMMA NoFiberIsNone == NoFiber \notin Fibers
BY DEF NoFiber, Fibers

LEMMA JobsType == Jobs \subseteq Nat /\ MaxJobs \in Nat
BY FiberAssumption DEF Jobs

Tasks == Callbacks \cup {Resume(f) : f \in Fibers}

LEMMA TaskKinds ==
  ASSUME NEW c \in Tasks
  PROVE  \/ c.kind = "resume" /\ c.fiber \in Fibers
         \/ c.kind # "resume" /\ c \in Callbacks
BY CallbackKinds DEF Tasks

LEMMA TakenType ==
  ASSUME TypeOK, tasks # <<>>
  PROVE  /\ Head(tasks) \in Tasks /\ Tail(tasks) \in Seq(Tasks)
         /\ \A i \in DOMAIN Tail(tasks) : Tail(tasks)[i] = tasks[i + 1] /\ i + 1 \in DOMAIN tasks
         /\ Head(tasks) = tasks[1] /\ 1 \in DOMAIN tasks
BY DEF TypeOK, Tasks

LEMMA QueuedType ==
  ASSUME TypeOK, NEW c \in Tasks
  PROVE  /\ Append(tasks, c) \in Seq(Tasks)
         /\ DOMAIN Append(tasks, c) = DOMAIN tasks \cup {Len(tasks) + 1}
         /\ Len(tasks) + 1 \notin DOMAIN tasks
         /\ Append(tasks, c)[Len(tasks) + 1] = c
         /\ \A i \in DOMAIN tasks : Append(tasks, c)[i] = tasks[i]
BY DEF TypeOK, Tasks

-----------------------------------------------------------------------------
(* Types                                                                   *)

LEMMA InitTypeOK == Init => TypeOK /\ PoolSuffices
<1> SUFFICES ASSUME Init PROVE TypeOK /\ PoolSuffices
  OBVIOUS
<1>1. PoolSize \in PoolSize..GrownSize(PoolSize)
  BY FiberAssumption DEF GrownSize
<1>2. \A t \in Threads : \A i \in 1..PoolSize : <<t, i>> \in Fibers
  <2>1. 1..PoolSize \subseteq 1..GrownSize(PoolSize)
    BY FiberAssumption DEF GrownSize
  <2> QED
    BY <2>1 DEF Fibers
<1>3. \A t \in Threads : idle[t] \in Seq(Fibers)
  BY <1>2, FiberAssumption DEF Init
<1>4. idle \in [Threads -> Seq(Fibers)]
  BY <1>3 DEF Init
<1>5. all \in [Threads -> PoolSize..GrownSize(PoolSize)] /\ PoolSuffices
  BY <1>1 DEF Init, PoolSuffices
<1>6. started \in [Jobs -> Nat] /\ done \in [Jobs -> Nat] /\ jobs \in 0..MaxJobs
  BY FiberAssumption DEF Init
<1>7. /\ state \in [Fibers -> {"READY", "RUNNING", "SUSPEND", "TERM"}]
      /\ pc \in [Threads -> Places]
  BY DEF Init, Places
<1>8. /\ cb \in [Fibers -> Callbacks \cup {NoCall}] /\ ctx \in [Fibers -> Callbacks \cup {Start, Over}]
      /\ lock \in [Fibers -> Threads \cup {NoThread}]
  BY DEF Init
<1>9. /\ cur \in [Threads -> Fibers \cup {NoFiber}] /\ call \in [Threads -> Callbacks \cup {NoCall}]
  BY DEF Init
<1>10. waits \subseteq Waits /\ blocked \subseteq Jobs /\ crashed \in BOOLEAN
  BY DEF Init
<1>11. tasks \in Seq(Tasks)
  BY DEF Init
<1> QED
  BY <1>4, <1>5, <1>6, <1>7, <1>8, <1>9, <1>10, <1>11 DEF TypeOK, Tasks

\* The pool of a thread that wants a fiber has one, and grows no further.
LEMMA AcquiredType ==
  ASSUME TypeOK, PoolSuffices, NEW t \in Threads, idle[t] # <<>>
  PROVE  /\ Created(t) = idle[t] /\ Head(idle[t]) \in Fibers /\ Tail(idle[t]) \in Seq(Fibers)
         /\ Len(Tail(idle[t])) + 1 = Len(idle[t])
BY DEF TypeOK, Created

\* What resume() finds and what the thread executes then.
LEMMA EnteredType ==
  ASSUME TypeOK, OverInv, NEW f \in Fibers, state[f] = "READY", Entered(f) # NoCall
  PROVE  Entered(f) \in Callbacks
BY DEF TypeOK, OverInv, Entered

LEMMA ResumeTypeOK ==
  ASSUME TypeOK, OverInv, NEW t \in Threads, cur[t] \in Fibers, ResumeFiber(t)
  PROVE  TypeOK'
<1> DEFINE f == cur[t]
<1>1. CASE state[f] # "READY" \/ Entered(f) = NoCall
  BY <1>1 DEF ResumeFiber, Abort, TypeOK, poolVars, fiberVars, threadVars, logVars
<1>2. CASE state[f] = "READY" /\ Entered(f) # NoCall
  <2>1. Entered(f) \in Callbacks
    BY <1>2, EnteredType
  <2>2. /\ lock' = [lock EXCEPT ![f] = t] /\ state' = [state EXCEPT ![f] = "RUNNING"]
        /\ call' = [call EXCEPT ![t] = Entered(f)]
    BY <1>2 DEF ResumeFiber
  <2>3. /\ lock' \in [Fibers -> Threads \cup {NoThread}]
        /\ state' \in [Fibers -> {"READY", "RUNNING", "SUSPEND", "TERM"}]
    BY <2>2 DEF TypeOK
  <2>4. call' \in [Threads -> Callbacks \cup {NoCall}]
    BY <2>1, <2>2 DEF TypeOK
  <2>5. started' \in [Jobs -> Nat]
    <3>1. ctx[f] = Start /\ cb[f].kind = "job" => cb[f].job \in Jobs
      <4>1. cb[f] \in Callbacks \cup {NoCall}
        BY DEF TypeOK
      <4> QED
        BY <4>1, CallbackKinds
    <3>2. \/ started' = started
          \/ /\ ctx[f] = Start /\ cb[f].kind = "job"
             /\ started' = [started EXCEPT ![cb[f].job] = @ + 1]
      BY <1>2 DEF ResumeFiber
    <3>3. started \in [Jobs -> Nat]
      BY DEF TypeOK
    <3> QED
      BY <3>1, <3>2, <3>3
  <2>6. pc' \in [Threads -> Places]
    BY <1>2 DEF ResumeFiber, TypeOK, Goto, Places
  <2> QED
    BY <1>2, <2>3, <2>4, <2>5, <2>6 DEF ResumeFiber, TypeOK, poolVars
<1> QED
  BY <1>1, <1>2

LEMMA ResetTypes ==
  ASSUME TypeOK, NEW f \in Fibers, NEW c \in Callbacks \cup {NoCall}, ResetTo(f, c)
  PROVE  /\ state' \in [Fibers -> {"READY", "RUNNING", "SUSPEND", "TERM"}]
         /\ cb' \in [Fibers -> Callbacks \cup {NoCall}]
         /\ ctx' \in [Fibers -> Callbacks \cup {Start, Over}]
         /\ lock' = lock
BY DEF TypeOK, ResetTo

LEMMA SwitchTypes ==
  ASSUME TypeOK, NEW t \in Threads, cur[t] \in Fibers, NEW s \in {"TERM", "READY"},
         NEW c \in Callbacks \cup {Over}, SwitchOut(t, s, c)
  PROVE  /\ state' \in [Fibers -> {"READY", "RUNNING", "SUSPEND", "TERM"}]
         /\ ctx' \in [Fibers -> Callbacks \cup {Start, Over}]
         /\ lock' \in [Fibers -> Threads \cup {NoThread}]
         /\ call' \in [Threads -> Callbacks \cup {NoCall}]
         /\ pc' \in [Threads -> Places]
BY DEF TypeOK, SwitchOut, Goto, Places

\* A thread that wants a fiber finds one: Costs[t] leaves t itself out.
LEMMA StockLeft ==
  ASSUME TypeOK, StockInv, NEW t \in Threads, pc[t] = "acquire"
  PROVE  idle[t] # <<>>
<1>1. Costs[t] \subseteq Threads \ {t}
  BY DEF Costs, Doomed
<1>2. /\ IsFiniteSet(Threads \ {t}) /\ Cardinality(Threads \ {t}) = Cardinality(Threads) - 1
  BY FiberAssumption, FS_RemoveElement
<1>3. /\ Cardinality(Costs[t]) <= Cardinality(Threads \ {t})
      /\ Cardinality(Costs[t]) \in Nat
  BY <1>1, <1>2, FS_Subset, FS_CardinalityType
<1>4. PoolSize <= Len(idle[t]) + 0 + Cardinality(Costs[t])
  BY DEF StockInv, Holding, Working
<1>5. Cardinality(Threads) \in Nat /\ Cardinality(Threads) <= PoolSize /\ PoolSize \in Nat
  BY FiberAssumption, FS_CardinalityType
<1>6. Len(idle[t]) # 0
  BY <1>2, <1>3, <1>4, <1>5 DEF TypeOK
<1> QED
  BY <1>6 DEF TypeOK

LEMMA ScheduleTypeOK == ASSUME TypeOK, Schedule PROVE TypeOK'
<1>1. jobs + 1 \in Jobs /\ jobs' \in 0..MaxJobs
  BY JobsType DEF Schedule, TypeOK, Jobs
<1>2. Job(jobs + 1) \in Tasks
  BY <1>1, CallbackKinds DEF Tasks
<1>3. tasks' \in Seq(Tasks)
  BY <1>2, QueuedType DEF Schedule
<1> QED
  BY <1>1, <1>3 DEF Schedule, TypeOK, Tasks, poolVars, fiberVars, threadVars

LEMMA StepTypeOK ==
  ASSUME TypeInv, NEW t \in Threads, Step(t)
  PROVE  TypeOK' /\ PoolSuffices'
<1> USE DEF poolVars, fiberVars, threadVars, logVars
<1>0. TypeOK /\ OverInv /\ PoolSuffices
  BY DEF TypeInv, StatusInv
<1>a. \A p \in Places : Goto(t, p) => pc' \in [Threads -> Places]
  BY <1>0 DEF Goto, TypeOK
<1>b. {"take", "idle", "acquire", "rearm", "rejoin", "enter", "run", "yield", "check", "reset"} = Places
  BY DEF Places
<1>c. all' = all => PoolSuffices'
  BY <1>0 DEF PoolSuffices
<1>1. CASE Take(t)
  <2>1. Head(tasks) \in Tasks /\ tasks' \in Seq(Tasks)
    BY <1>0, <1>1, TakenType DEF Take
  <2>2. CASE Head(tasks).kind = "resume"
    <3>1. cur' = [cur EXCEPT ![t] = Head(tasks).fiber] /\ Head(tasks).fiber \in Fibers /\ call' = call
      BY <1>1, <2>1, <2>2, TaskKinds DEF Take
    <3>2. cur' \in [Threads -> Fibers \cup {NoFiber}]
      BY <1>0, <3>1 DEF TypeOK
    <3>3. pc' \in [Threads -> Places]
      BY <1>a, <1>b, <1>1, <2>2 DEF Take
    <3> QED
      BY <1>0, <1>c, <1>1, <2>1, <3>1, <3>2, <3>3 DEF Take, TypeOK, Tasks
  <2>3. CASE Head(tasks).kind # "resume"
    <3>1. call' = [call EXCEPT ![t] = Head(tasks)] /\ Head(tasks) \in Callbacks /\ cur' = cur
      BY <1>1, <2>1, <2>3, TaskKinds DEF Take
    <3>2. call' \in [Threads -> Callbacks \cup {NoCall}]
      BY <1>0, <3>1 DEF TypeOK
    <3>3. pc' \in [Threads -> Places]
      BY <1>a, <1>b, <1>1, <2>3 DEF Take
    <3> QED
      BY <1>0, <1>c, <1>1, <2>1, <3>1, <3>2, <3>3 DEF Take, TypeOK, Tasks
  <2> QED
    BY <2>2, <2>3
<1>2. CASE GoIdle(t) \/ PollNothing(t)
  BY <1>0, <1>a, <1>b, <1>c, <1>2 DEF GoIdle, PollNothing, TypeOK
<1>3. ASSUME NEW w \in waits, Poll(t, w) PROVE TypeOK' /\ PoolSuffices'
  <2>1. w.fiber \in Fibers
    BY <1>0 DEF TypeOK, Waits
  <2>2. Wake(w.fiber) \in Tasks /\ Resume(w.fiber) \in Tasks
    BY <2>1, CallbackKinds DEF Tasks
  <2>3. tasks' \in Seq(Tasks)
    BY <1>0, <1>3, <2>2, QueuedType DEF Poll
  <2> QED
    BY <1>0, <1>a, <1>b, <1>c, <1>3, <2>3 DEF Poll, TypeOK, Tasks
<1>4. CASE Acquire(t)
  <2>1. idle[t] # <<>>
    BY <1>4, StockLeft DEF Acquire, At, TypeInv
  <2>2. Created(t) = idle[t] /\ Head(idle[t]) \in Fibers /\ Tail(idle[t]) \in Seq(Fibers)
    BY <1>0, <2>1, AcquiredType
  <2>3. CASE Abort
    BY <1>0, <1>c, <2>3 DEF Abort, TypeOK
  <2>4. CASE ~Abort
    <3>1. /\ idle' = [idle EXCEPT ![t] = Tail(idle[t])]
          /\ all' = [all EXCEPT ![t] = all[t]]
          /\ cur' = [cur EXCEPT ![t] = Head(idle[t])]
          /\ Goto(t, "rearm") /\ UNCHANGED <<tasks, fiberVars, call, waits, logVars, crashed>>
      BY <1>4, <2>1, <2>2, <2>4 DEF Acquire
    <3>2. all' = all
      BY <1>0, <3>1 DEF TypeOK
    <3>3. idle' \in [Threads -> Seq(Fibers)]
      BY <1>0, <2>2, <3>1 DEF TypeOK
    <3>4. cur' \in [Threads -> Fibers \cup {NoFiber}]
      BY <1>0, <2>2, <3>1 DEF TypeOK
    <3> QED
      BY <1>0, <1>a, <1>b, <1>c, <3>1, <3>2, <3>3, <3>4 DEF TypeOK
  <2> QED
    BY <2>3, <2>4
<1>5. CASE Rearm(t)
  <2>1. cur[t] \in Fibers /\ call[t] \in Callbacks /\ ResetTo(cur[t], call[t])
    BY <1>5 DEF Rearm, At, TypeInv, StatusInv, PlaceInv, Working
  <2>2. call' \in [Threads -> Callbacks \cup {NoCall}]
    BY <1>0, <1>5 DEF Rearm, TypeOK
  <2>3. /\ state' \in [Fibers -> {"READY", "RUNNING", "SUSPEND", "TERM"}]
        /\ cb' \in [Fibers -> Callbacks \cup {NoCall}]
        /\ ctx' \in [Fibers -> Callbacks \cup {Start, Over}]
        /\ lock' = lock
    BY <1>0, <2>1, ResetTypes
  <2> QED
    BY <1>0, <1>a, <1>b, <1>c, <1>5, <2>2, <2>3 DEF Rearm, TypeOK
<1>6. CASE Enter(t)
  <2>1. cur[t] \in Fibers /\ ResumeFiber(t)
    BY <1>6 DEF Enter, At, TypeInv, StatusInv, PlaceInv, Working
  <2>2. all' = all
    BY <2>1 DEF ResumeFiber, Abort
  <2> QED
    BY <1>0, <1>c, <2>1, <2>2, ResumeTypeOK
<1>7. CASE Rejoin(t)
  <2>1. CASE ResumeFiber(t)
    <3>1. cur[t] \in Fibers
      BY <1>7 DEF Rejoin, At, TypeInv, StatusInv, PlaceInv, Working
    <3>2. all' = all
      BY <2>1 DEF ResumeFiber, Abort
    <3> QED
      BY <1>0, <1>c, <2>1, <3>1, <3>2, ResumeTypeOK
  <2>2. CASE ~ResumeFiber(t)
    BY <1>0, <1>a, <1>b, <1>c, <1>7, <2>2 DEF Rejoin, TypeOK
  <2> QED
    BY <2>1, <2>2
<1>8. CASE Finish(t)
  <2>1. cur[t] \in Fibers /\ call[t] \in Callbacks /\ SwitchOut(t, "TERM", Over)
    BY <1>8 DEF Finish, At, TypeInv, StatusInv, PlaceInv, Working
  <2>2. cb' \in [Fibers -> Callbacks \cup {NoCall}]
    BY <1>0, <1>8 DEF Finish, TypeOK
  <2>3. done' \in [Jobs -> Nat] /\ tasks' \in Seq(Tasks)
    <3>1. CASE call[t].kind = "job"
      <4>1. call[t].job \in Jobs /\ done' = [done EXCEPT ![call[t].job] = @ + 1] /\ tasks' = tasks
        BY <1>8, <2>1, <3>1, CallbackKinds DEF Finish
      <4>2. done \in [Jobs -> Nat] /\ tasks \in Seq(Tasks)
        BY <1>0 DEF TypeOK, Tasks
      <4> QED
        BY <4>1, <4>2
    <3>2. CASE call[t].kind # "job"
      <4>1. Resume(call[t].fiber) \in Tasks
        BY <2>1, <3>2, CallbackKinds DEF Tasks
      <4>2. tasks' \in Seq(Tasks)
        BY <1>0, <1>8, <3>2, <4>1, QueuedType DEF Finish
      <4> QED
        BY <1>0, <1>8, <3>2, <4>2 DEF Finish, TypeOK
    <3> QED
      BY <3>1, <3>2
  <2>4. /\ state' \in [Fibers -> {"READY", "RUNNING", "SUSPEND", "TERM"}]
        /\ ctx' \in [Fibers -> Callbacks \cup {Start, Over}]
        /\ lock' \in [Fibers -> Threads \cup {NoThread}]
        /\ call' \in [Threads -> Callbacks \cup {NoCall}]
        /\ pc' \in [Threads -> Places]
    BY <1>0, <2>1, SwitchTypes
  <2> QED
    BY <1>0, <1>c, <1>8, <2>2, <2>3, <2>4 DEF Finish, TypeOK, Tasks
<1>9. ASSUME NEW b \in Blocking, Await(t, b) PROVE TypeOK' /\ PoolSuffices'
  <2>1. cur[t] \in Fibers /\ call[t].job \in Jobs
    BY <1>9, CallbackKinds DEF Await, At, TypeInv, StatusInv, PlaceInv, Working
  <2>2. [call |-> b, fiber |-> cur[t], job |-> call[t].job] \in Waits
    BY <1>9, <2>1, FiberAssumption DEF Await, Waits
  <2> QED
    BY <1>0, <1>a, <1>b, <1>c, <1>9, <2>1, <2>2 DEF Await, TypeOK
<1>10. CASE Suspend(t)
  <2>1. cur[t] \in Fibers /\ call[t].job \in Jobs
    BY <1>10, CallbackKinds DEF Suspend, At, TypeInv, StatusInv, PlaceInv, Working
  <2>2. state' \in [Fibers -> {"READY", "RUNNING", "SUSPEND", "TERM"}]
    <3>1. state \in [Fibers -> {"READY", "RUNNING", "SUSPEND", "TERM"}]
      BY <1>0 DEF TypeOK
    <3>2. state' = state \/ state' = [state EXCEPT ![cur[t]] = "SUSPEND"]
      BY <1>10 DEF Suspend
    <3> QED
      BY <3>1, <3>2
  <2>3. pc' \in [Threads -> Places] /\ crashed' \in BOOLEAN /\ blocked' \subseteq Jobs
    BY <1>0, <1>a, <1>b, <1>10, <2>1 DEF Suspend, TypeOK
  <2> QED
    BY <1>0, <1>c, <1>10, <2>2, <2>3 DEF Suspend, TypeOK
<1>11. CASE Yield(t)
  <2>1. cur[t] \in Fibers /\ call[t] \in Callbacks
    BY <1>11 DEF Yield, At, TypeInv, StatusInv, PlaceInv, Working
  <2>2. CASE Abort
    BY <1>0, <1>c, <2>2 DEF Abort, TypeOK
  <2>3. CASE ~Abort
    <3>1. PICK s \in {"TERM", "READY"} : SwitchOut(t, s, call[t])
      BY <1>11, <2>3 DEF Yield
    <3>2. /\ state' \in [Fibers -> {"READY", "RUNNING", "SUSPEND", "TERM"}]
          /\ ctx' \in [Fibers -> Callbacks \cup {Start, Over}]
          /\ lock' \in [Fibers -> Threads \cup {NoThread}]
          /\ call' \in [Threads -> Callbacks \cup {NoCall}]
          /\ pc' \in [Threads -> Places]
      BY <1>0, <2>1, <3>1, SwitchTypes
    <3> QED
      BY <1>0, <1>c, <1>11, <2>3, <3>2 DEF Yield, TypeOK
  <2> QED
    BY <2>2, <2>3
<1>12. CASE Check(t)
  <2>1. pc' \in [Threads -> Places] /\ crashed' \in BOOLEAN
    BY <1>0, <1>a, <1>b, <1>12 DEF Check, TypeOK
  <2> QED
    BY <1>0, <1>c, <1>12, <2>1 DEF Check, TypeOK
<1>13. CASE Release(t)
  <2>1. cur[t] \in Fibers /\ ResetTo(cur[t], NoCall)
    BY <1>13 DEF Release, At, TypeInv, StatusInv, PlaceInv, Working
  <2>2. /\ state' \in [Fibers -> {"READY", "RUNNING", "SUSPEND", "TERM"}]
        /\ cb' \in [Fibers -> Callbacks \cup {NoCall}]
        /\ ctx' \in [Fibers -> Callbacks \cup {Start, Over}]
        /\ lock' = lock
    BY <1>0, <2>1, ResetTypes
  <2>3. idle' \in [Threads -> Seq(Fibers)] /\ cur' \in [Threads -> Fibers \cup {NoFiber}]
    BY <1>0, <1>13, <2>1 DEF Release, TypeOK
  <2> QED
    BY <1>0, <1>a, <1>b, <1>c, <1>13, <2>2, <2>3 DEF Release, TypeOK
<1> QED
  BY <1>1, <1>2, <1>3, <1>4, <1>5, <1>6, <1>7, <1>8, <1>9, <1>10, <1>11, <1>12, <1>13 DEF Step

-----------------------------------------------------------------------------
(* Places, mutexes and marks                                               *)

\* The types that the steps below rely on, without the sequences.
LEMMA FiberTypes ==
  ASSUME TypeOK
  PROVE  /\ pc \in [Threads -> Places] /\ cur \in [Threads -> Fibers \cup {NoFiber}]
         /\ call \in [Threads -> Callbacks \cup {NoCall}]
         /\ state \in [Fibers -> {"READY", "RUNNING", "SUSPEND", "TERM"}]
         /\ ctx \in [Fibers -> Callbacks \cup {Start, Over}]
         /\ cb \in [Fibers -> Callbacks \cup {NoCall}]
         /\ lock \in [Fibers -> Threads \cup {NoThread}]
         /\ NoThread \notin Threads
BY FiberAssumption DEF TypeOK

\* Nobody and nothing the invariants look at has moved.
LEMMA StatusFrame ==
  ASSUME StatusInv, UNCHANGED <<pc, cur, call, state, ctx, lock>>
  PROVE  StatusInv'
BY DEF StatusInv, PlaceInv, LockInv, OverInv, SuspendInv, RunningInv, OnStack, Doomed

\* A thread moves outside of the stacks; its fiber is left alone.
LEMMA StatusMoves ==
  ASSUME TypeOK, StatusInv, NEW t \in Threads, NEW p \in Places \ {"run", "yield"},
         pc[t] \notin {"run", "yield"}, pc' = [pc EXCEPT ![t] = p],
         UNCHANGED <<state, ctx, lock>>,
         \A u \in Threads \ {t} : cur'[u] = cur[u] /\ call'[u] = call[u],
         p \in Working => cur'[t] \in Fibers,
         p \in {"acquire", "rearm"} => call'[t] \in Callbacks
  PROVE  StatusInv'
<1> USE FiberTypes
<1>1. PlaceInv'
  BY DEF StatusInv, PlaceInv
<1>2. LockInv'
  BY DEF StatusInv, LockInv, OnStack
<1>3. OverInv'
  BY DEF StatusInv, OverInv
<1>4. Doomed' = Doomed /\ \A u \in Doomed : cur'[u] = cur[u]
  BY DEF Doomed
<1>5. SuspendInv'
  BY <1>4 DEF StatusInv, SuspendInv
<1>6. RunningInv'
  BY DEF StatusInv, RunningInv
<1> QED
  BY <1>1, <1>2, <1>3, <1>5, <1>6 DEF StatusInv

\* reset() of the fiber a thread works on, with or without somebody on its stack.
LEMMA StatusReset ==
  ASSUME TypeOK, StatusInv, NEW t \in Threads, NEW p \in {"enter", "take"},
         pc[t] \in {"rearm", "reset"}, pc' = [pc EXCEPT ![t] = p],
         NEW d \in Callbacks \cup {NoCall}, ResetTo(cur[t], d),
         NEW f \in Fibers \cup {NoFiber}, cur' = [cur EXCEPT ![t] = f],
         NEW c \in Callbacks \cup {NoCall}, call' = [call EXCEPT ![t] = c],
         p = "enter" => f \in Fibers
  PROVE  StatusInv'
<1> USE FiberTypes
<1>0. /\ cur[t] \in Fibers /\ state' = [state EXCEPT ![cur[t]] = "READY"]
      /\ ctx' = [ctx EXCEPT ![cur[t]] = Start] /\ lock' = lock
  BY DEF StatusInv, PlaceInv, Working, ResetTo
<1>1. PlaceInv'
  BY DEF StatusInv, PlaceInv, Working
<1>2. LockInv'
  BY <1>0 DEF StatusInv, LockInv, OnStack
<1>3. OverInv'
  BY <1>0, OtherKinds DEF StatusInv, OverInv
<1>4. Doomed \subseteq Doomed' /\ \A u \in Doomed : cur'[u] = cur[u] /\ cur[u] \in Fibers
  BY <1>0 DEF Doomed, StatusInv, PlaceInv, Working
<1>5. SuspendInv'
  BY <1>0, <1>4 DEF StatusInv, SuspendInv
<1>6. RunningInv'
  BY <1>0 DEF StatusInv, RunningInv, PlaceInv, Working
<1> QED
  BY <1>1, <1>2, <1>3, <1>5, <1>6 DEF StatusInv

LEMMA StatusResume ==
  ASSUME TypeOK, StatusInv, NEW t \in Threads, pc[t] \in {"enter", "rejoin"},
         Unlocked(cur[t]), ResumeFiber(t)
  PROVE  StatusInv'
<1> USE FiberTypes
<1>1. CASE state[cur[t]] # "READY" \/ Entered(cur[t]) = NoCall
  BY <1>1, StatusFrame DEF ResumeFiber, Abort, threadVars, fiberVars
<1>2. CASE state[cur[t]] = "READY" /\ Entered(cur[t]) # NoCall
  <2>0. cur[t] \in Fibers /\ Entered(cur[t]) \in Callbacks /\ lock[cur[t]] = NoThread
    BY <1>2, EnteredType DEF StatusInv, PlaceInv, Working, Unlocked
  <2>1. /\ lock' = [lock EXCEPT ![cur[t]] = t] /\ state' = [state EXCEPT ![cur[t]] = "RUNNING"]
        /\ call' = [call EXCEPT ![t] = Entered(cur[t])] /\ pc' = [pc EXCEPT ![t] = "run"]
        /\ UNCHANGED <<cur, ctx>>
    BY <1>2 DEF ResumeFiber, Goto
  <2>2. \A u \in OnStack : cur[u] \in Fibers /\ cur[u] # cur[t]
    BY <2>0 DEF StatusInv, LockInv, PlaceInv, OnStack, Working
  <2>3. PlaceInv'
    BY <2>0, <2>1 DEF StatusInv, PlaceInv
  <2>4. LockInv'
    BY <2>0, <2>1, <2>2 DEF StatusInv, LockInv, OnStack
  <2>5. OverInv'
    BY <1>2, <2>0, <2>1 DEF StatusInv, OverInv
  <2>6. Doomed \subseteq Doomed'
    BY <2>0, <2>1, <2>2 DEF Doomed, OnStack
  <2>7. SuspendInv'
    BY <2>0, <2>1, <2>6 DEF StatusInv, SuspendInv
  <2>8. RunningInv'
    BY <2>0, <2>1, <2>2 DEF StatusInv, RunningInv, OnStack
  <2> QED
    BY <2>3, <2>4, <2>5, <2>7, <2>8 DEF StatusInv
<1> QED
  BY <1>1, <1>2 DEF StatusInv, PlaceInv, Working

LEMMA StatusSwitch ==
  ASSUME TypeOK, StatusInv, NEW t \in Threads, t \in OnStack, t \notin Doomed,
         NEW s \in {"TERM", "READY"}, NEW c \in Callbacks \cup {Over},
         c = Over => s = "TERM", SwitchOut(t, s, c), cur' = cur
  PROVE  StatusInv'
<1> USE FiberTypes
<1>0. /\ cur[t] \in Fibers /\ state' = [state EXCEPT ![cur[t]] = s]
      /\ ctx' = [ctx EXCEPT ![cur[t]] = c] /\ lock' = [lock EXCEPT ![cur[t]] = NoThread]
      /\ call' = [call EXCEPT ![t] = NoCall] /\ pc' = [pc EXCEPT ![t] = "check"]
  BY DEF StatusInv, PlaceInv, Working, OnStack, SwitchOut, Goto
<1>1. \A u \in OnStack : cur[u] \in Fibers /\ (u # t => cur[u] # cur[t])
  BY DEF StatusInv, LockInv, PlaceInv, OnStack, Working
<1>2. PlaceInv'
  BY <1>0 DEF StatusInv, PlaceInv
<1>3. LockInv'
  BY <1>0, <1>1 DEF StatusInv, LockInv, OnStack
<1>4. OverInv'
  BY <1>0 DEF StatusInv, OverInv
<1>5. Doomed \subseteq Doomed'
  BY <1>0, <1>1 DEF Doomed, OnStack
<1>6. SuspendInv'
  BY <1>0, <1>5 DEF StatusInv, SuspendInv
<1>7. RunningInv'
  BY <1>0, <1>1 DEF StatusInv, RunningInv, OnStack
<1> QED
  BY <1>2, <1>3, <1>4, <1>6, <1>7 DEF StatusInv

LEMMA StepStatusInv ==
  ASSUME TypeOK, StatusInv, PoolSuffices, StockInv, NEW t \in Threads, Step(t)
  PROVE  StatusInv'
<1> USE DEF poolVars, fiberVars, threadVars, logVars, At
<1> USE FiberTypes
<1>a. /\ cur = [cur EXCEPT ![t] = cur[t]] /\ cur[t] \in Fibers \cup {NoFiber}
      /\ call = [call EXCEPT ![t] = call[t]] /\ call[t] \in Callbacks \cup {NoCall}
  OBVIOUS
<1>b. {"take", "idle", "acquire", "rearm", "rejoin", "check", "reset"} \subseteq Places \ {"run", "yield"}
  BY DEF Places
<1>1. CASE Take(t)
  <2>0. Head(tasks) \in Tasks
    BY <1>1, TakenType DEF Take
  <2>1. CASE Head(tasks).kind = "resume"
    <3>1. /\ cur' = [cur EXCEPT ![t] = Head(tasks).fiber] /\ Head(tasks).fiber \in Fibers
          /\ call' = call /\ pc' = [pc EXCEPT ![t] = "rejoin"] /\ pc[t] = "take"
          /\ UNCHANGED <<state, ctx, lock>>
      BY <1>1, <2>0, <2>1, TaskKinds DEF Take, Goto
    <3> QED
      BY <1>b, <3>1, StatusMoves
  <2>2. CASE Head(tasks).kind # "resume"
    <3>1. /\ call' = [call EXCEPT ![t] = Head(tasks)] /\ Head(tasks) \in Callbacks
          /\ cur' = cur /\ pc' = [pc EXCEPT ![t] = "acquire"] /\ pc[t] = "take"
          /\ UNCHANGED <<state, ctx, lock>>
      BY <1>1, <2>0, <2>2, TaskKinds DEF Take, Goto
    <3>2. "acquire" \notin Working
      BY DEF Working
    <3> QED
      BY <1>a, <1>b, <3>1, <3>2, StatusMoves
  <2> QED
    BY <2>1, <2>2
<1>2. CASE GoIdle(t) \/ PollNothing(t) \/ \E w \in waits : Poll(t, w)
  <2>1. PICK p \in {"take", "idle"} : pc' = [pc EXCEPT ![t] = p]
    BY <1>2 DEF GoIdle, PollNothing, Poll, Goto
  <2>2. UNCHANGED <<cur, call, state, ctx, lock>> /\ pc[t] \in {"take", "idle"} /\ p \notin Working
    BY <1>2 DEF GoIdle, PollNothing, Poll, Working
  <2>3. p \in Places \ {"run", "yield"} /\ p \notin {"acquire", "rearm"} /\ pc[t] \notin {"run", "yield"}
    BY <2>2 DEF Places
  <2> QED
    BY <1>a, <1>b, <2>1, <2>2, <2>3, StatusMoves
<1>3. CASE Acquire(t)
  <2>1. idle[t] # <<>>
    BY <1>3, StockLeft DEF Acquire
  <2>2. Created(t) = idle[t] /\ Head(idle[t]) \in Fibers
    BY <2>1, AcquiredType
  <2>3. CASE Abort
    BY <2>3, StatusFrame DEF Abort
  <2>4. CASE ~Abort
    <3>1. /\ cur' = [cur EXCEPT ![t] = Head(idle[t])] /\ pc' = [pc EXCEPT ![t] = "rearm"]
          /\ pc[t] = "acquire" /\ UNCHANGED <<call, state, ctx, lock>>
      BY <1>3, <2>2, <2>4 DEF Acquire, Goto
    <3>2. call[t] \in Callbacks
      BY <3>1 DEF StatusInv, PlaceInv
    <3> QED
      BY <1>a, <1>b, <2>2, <3>1, <3>2, StatusMoves
  <2> QED
    BY <2>3, <2>4
<1>4. CASE Rearm(t)
  <2>1. /\ pc[t] = "rearm" /\ ResetTo(cur[t], call[t]) /\ pc' = [pc EXCEPT ![t] = "enter"]
        /\ call' = [call EXCEPT ![t] = NoCall] /\ cur' = cur
    BY <1>4 DEF Rearm, Goto
  <2>2. cur[t] \in Fibers
    BY <2>1 DEF StatusInv, PlaceInv, Working
  <2> QED
    BY <1>a, <2>1, <2>2, StatusReset
<1>5. CASE Enter(t)
  BY <1>5, StatusResume DEF Enter
<1>6. CASE Rejoin(t)
  <2>1. CASE ResumeFiber(t)
    BY <1>6, <2>1, StatusResume DEF Rejoin
  <2>2. CASE ~ResumeFiber(t)
    <3>1. /\ pc[t] = "rejoin" /\ pc' = [pc EXCEPT ![t] = "check"]
          /\ UNCHANGED <<cur, call, state, ctx, lock>>
      BY <1>6, <2>2 DEF Rejoin, Goto
    <3>2. cur[t] \in Fibers
      BY <3>1 DEF StatusInv, PlaceInv, Working
    <3> QED
      BY <1>b, <3>1, <3>2, StatusMoves
  <2> QED
    BY <2>1, <2>2
<1>7. CASE Finish(t)
  <2>1. t \in OnStack /\ t \notin Doomed /\ SwitchOut(t, "TERM", Over) /\ cur' = cur
    BY <1>7 DEF Finish, OnStack, Doomed
  <2> QED
    BY <2>1, StatusSwitch
<1>8. ASSUME NEW b \in Blocking, Await(t, b) PROVE StatusInv'
  <2>1. /\ pc[t] = "run" /\ pc' = [pc EXCEPT ![t] = "yield"] /\ call[t].kind = "job"
        /\ UNCHANGED <<cur, call, state, ctx, lock>>
    BY <1>8 DEF Await, Goto
  <2>2. PlaceInv'
    BY <2>1 DEF StatusInv, PlaceInv, Working
  <2>3. LockInv'
    BY <2>1 DEF StatusInv, LockInv, OnStack
  <2>4. Doomed \subseteq Doomed'
    BY <2>1 DEF Doomed
  <2>5. SuspendInv' /\ RunningInv' /\ OverInv'
    BY <2>1, <2>4 DEF StatusInv, SuspendInv, RunningInv, OverInv
  <2> QED
    BY <2>2, <2>3, <2>5 DEF StatusInv
<1>9. CASE Suspend(t)
  <2>1. CASE state[cur[t]] # "RUNNING"
    BY <1>9, <2>1, StatusFrame DEF Suspend
  <2>2. CASE state[cur[t]] = "RUNNING"
    <3>1. /\ pc[t] = "run" /\ pc' = [pc EXCEPT ![t] = "yield"] /\ call[t].kind = "job"
          /\ state' = [state EXCEPT ![cur[t]] = "SUSPEND"]
          /\ UNCHANGED <<cur, call, ctx, lock>>
      BY <1>9, <2>2 DEF Suspend, Goto
    <3>2. cur[t] \in Fibers /\ \A u \in OnStack : cur[u] \in Fibers
      BY <3>1 DEF StatusInv, PlaceInv, Working, OnStack
    <3>3. PlaceInv'
      BY <3>1 DEF StatusInv, PlaceInv, Working
    <3>4. LockInv'
      BY <3>1 DEF StatusInv, LockInv, OnStack
    <3>5. Doomed \subseteq Doomed' /\ t \in Doomed'
      BY <3>1, <3>2 DEF Doomed, OnStack
    <3>6. SuspendInv'
      BY <3>1, <3>2, <3>5 DEF StatusInv, SuspendInv
    <3>7. RunningInv' /\ OverInv'
      BY <2>2, <3>1, <3>2 DEF StatusInv, RunningInv, OverInv, OnStack
    <3> QED
      BY <3>3, <3>4, <3>6, <3>7 DEF StatusInv
  <2> QED
    BY <2>1, <2>2
<1>10. CASE Yield(t)
  <2>1. CASE state[cur[t]] \notin {"RUNNING", "TERM"}
    BY <1>10, <2>1, StatusFrame DEF Yield, Abort
  <2>2. CASE state[cur[t]] \in {"RUNNING", "TERM"}
    <3>1. PICK s \in {"TERM", "READY"} : SwitchOut(t, s, call[t])
      BY <1>10, <2>2 DEF Yield
    <3>2. t \in OnStack /\ t \notin Doomed /\ cur' = cur
      BY <1>10, <2>2 DEF Yield, OnStack, Doomed
    <3>3. call[t] \in Callbacks /\ call[t] # Over
      BY <3>2, OtherKinds DEF StatusInv, PlaceInv, OnStack
    <3> QED
      BY <3>1, <3>2, <3>3, StatusSwitch
  <2> QED
    BY <2>1, <2>2
<1>11. CASE Check(t)
  <2>1. CASE pc' = pc
    BY <1>11, <2>1, StatusFrame DEF Check
  <2>2. CASE pc' # pc
    <3>1. PICK p \in {"take", "reset"} : pc' = [pc EXCEPT ![t] = p]
      BY <1>11, <2>2 DEF Check, Goto
    <3>2. pc[t] = "check" /\ UNCHANGED <<cur, call, state, ctx, lock>>
      BY <1>11 DEF Check
    <3>3. cur[t] \in Fibers
      BY <3>2 DEF StatusInv, PlaceInv, Working
    <3> QED
      BY <1>b, <3>1, <3>2, <3>3, StatusMoves
  <2> QED
    BY <2>1, <2>2
<1>12. CASE Release(t)
  <2>1. /\ pc[t] = "reset" /\ ResetTo(cur[t], NoCall) /\ pc' = [pc EXCEPT ![t] = "take"]
        /\ call' = call /\ cur' = [cur EXCEPT ![t] = NoFiber]
    BY <1>12 DEF Release, Goto
  <2> QED
    BY <1>a, <2>1, StatusReset
<1> QED
  BY <1>1, <1>2, <1>3, <1>4, <1>5, <1>6, <1>7, <1>8, <1>9, <1>10, <1>11, <1>12 DEF Step

-----------------------------------------------------------------------------
(* The stock of a pool                                                     *)

\* Who is doomed stays so, and nobody comes to look at a fiber it is on.
LEMMA CostsGrow ==
  ASSUME TypeOK, StatusInv, NEW t \in Threads, t \notin Doomed, NEW p, pc' = [pc EXCEPT ![t] = p],
         \A u \in Threads \ {t} : cur'[u] = cur[u],
         \A u \in Doomed : state'[cur[u]] \in {"SUSPEND", "READY"},
         p = "check" => \A u \in Doomed : cur'[t] # cur[u]
  PROVE  \A v \in Threads : Costs[v] \subseteq Costs'[v]
<1> USE FiberTypes
<1>1. \A u \in Doomed : u \in Doomed' /\ cur'[u] = cur[u] /\ u # t
  BY DEF Doomed
<1>2. \A u \in Doomed, v \in Threads :
        ~(pc[v] = "check" /\ cur[v] = cur[u]) => ~(pc'[v] = "check" /\ cur'[v] = cur[u])
  OBVIOUS
<1>3. ASSUME NEW v \in Threads, NEW u \in Costs[v] PROVE u \in Costs'[v]
  <2>1. u \in Doomed /\ u # v /\ ~(pc[v] = "check" /\ cur[v] = cur[u])
    BY DEF Costs
  <2>2. u \in Doomed' /\ ~(pc'[v] = "check" /\ cur'[v] = cur'[u])
    BY <1>1, <1>2, <2>1
  <2> QED
    BY <2>1, <2>2 DEF Costs
<1> QED
  BY <1>3

\* What is in the pool, in hand and with doomed threads does not shrink.
LEMMA StockKept ==
  ASSUME TypeOK, TypeOK', StockInv, NEW v \in Threads, Costs[v] \subseteq Costs'[v],
         \/ Len(idle[v]) <= Len(idle'[v]) /\ (pc[v] \in Holding => pc'[v] \in Holding)
         \/ Len(idle[v]) + 1 <= Len(idle'[v])
         \/ /\ Len(idle[v]) <= Len(idle'[v]) + 1
            /\ pc[v] \notin Holding /\ pc'[v] \in Holding
  PROVE  PoolSize <= Len(idle'[v]) + (IF pc'[v] \in Holding THEN 1 ELSE 0) + Cardinality(Costs'[v])
<1>1. Costs'[v] \subseteq Threads
  BY DEF Costs, Doomed
<1>2. IsFiniteSet(Costs'[v])
  BY <1>1, FiberAssumption, FS_Subset
<1>3. /\ Cardinality(Costs[v]) <= Cardinality(Costs'[v])
      /\ Cardinality(Costs'[v]) \in Nat /\ Cardinality(Costs[v]) \in Nat
  BY <1>2, FS_Subset, FS_CardinalityType
<1>4. Len(idle[v]) \in Nat /\ Len(idle'[v]) \in Nat /\ PoolSize \in Nat
  BY FiberAssumption DEF TypeOK
<1>5. PoolSize <= Len(idle[v]) + (IF pc[v] \in Holding THEN 1 ELSE 0) + Cardinality(Costs[v])
  BY DEF StockInv
<1>6. CASE pc[v] \in Holding
  <2>1. PoolSize <= Len(idle[v]) + 1 + Cardinality(Costs[v])
    BY <1>5, <1>6
  <2>2. CASE pc'[v] \in Holding
    BY <1>3, <1>4, <1>6, <2>1, <2>2
  <2>3. CASE pc'[v] \notin Holding
    BY <1>3, <1>4, <1>6, <2>1, <2>3
  <2> QED
    BY <2>2, <2>3
<1>7. CASE pc[v] \notin Holding
  <2>1. PoolSize <= Len(idle[v]) + 0 + Cardinality(Costs[v])
    BY <1>5, <1>7
  <2>2. CASE pc'[v] \in Holding
    BY <1>3, <1>4, <1>7, <2>1, <2>2
  <2>3. CASE pc'[v] \notin Holding
    BY <1>3, <1>4, <1>7, <2>1, <2>3
  <2> QED
    BY <2>2, <2>3
<1> QED
  BY <1>6, <1>7

\* A thread that leaves a marked fiber behind has a doomed one more to blame.
LEMMA StockLost ==
  ASSUME TypeOK, TypeOK', StatusInv, StockInv, NEW t \in Threads, Check(t),
         state[cur[t]] = "SUSPEND", Costs[t] \subseteq Costs'[t]
  PROVE  PoolSize <= Len(idle'[t]) + (IF pc'[t] \in Holding THEN 1 ELSE 0) + Cardinality(Costs'[t])
<1>0. /\ pc[t] = "check" /\ pc' = [pc EXCEPT ![t] = "take"]
      /\ UNCHANGED <<idle, cur, state>>
  BY DEF Check, At, Goto, poolVars, fiberVars
<1>1. cur[t] \in Fibers
  BY <1>0 DEF StatusInv, PlaceInv, Working
<1>2. PICK u \in Doomed : cur[u] = cur[t]
  BY <1>1 DEF StatusInv, SuspendInv
<1>3. u \in Threads /\ u # t /\ u \notin Costs[t]
  BY <1>0, <1>2 DEF Doomed, Costs
<1>4. u \in Doomed' /\ pc'[t] = "take"
  BY <1>0, <1>2, <1>3, FiberTypes DEF Doomed
<1>5. u \in Costs'[t]
  BY <1>0, <1>3, <1>4 DEF Costs
<1>6. Costs[t] \cup {u} \subseteq Costs'[t] /\ Costs'[t] \subseteq Threads /\ Costs[t] \subseteq Threads
  BY <1>5 DEF Costs, Doomed
<1>7. IsFiniteSet(Costs'[t]) /\ IsFiniteSet(Costs[t])
  BY <1>6, FiberAssumption, FS_Subset
<1>8. Cardinality(Costs[t] \cup {u}) = Cardinality(Costs[t]) + 1
  BY <1>3, <1>7, FS_AddElement
<1>9. /\ Cardinality(Costs[t]) + 1 <= Cardinality(Costs'[t])
      /\ Cardinality(Costs[t]) \in Nat /\ Cardinality(Costs'[t]) \in Nat
  BY <1>6, <1>7, <1>8, FS_Subset, FS_CardinalityType
<1>10. PoolSize <= Len(idle[t]) + 1 + Cardinality(Costs[t])
  BY <1>0 DEF StockInv, Holding, Working
<1>11. Len(idle[t]) \in Nat /\ PoolSize \in Nat /\ pc'[t] \notin Holding
  BY <1>4, FiberAssumption DEF TypeOK, Holding, Working
<1> QED
  BY <1>0, <1>9, <1>10, <1>11

\* What each step does to the fibers of doomed threads.
LEMMA StepCosts ==
  ASSUME TypeOK, StatusInv, NEW t \in Threads, Step(t)
  PROVE  \A v \in Threads : Costs[v] \subseteq Costs'[v]
<1> USE DEF poolVars, fiberVars, threadVars, logVars, At
<1> USE FiberTypes
<1>a. \A u \in Doomed : /\ cur[u] \in Fibers /\ u \in OnStack /\ u \in Threads /\ lock[cur[u]] = u
                        /\ state[cur[u]] \in {"SUSPEND", "READY"}
  BY DEF Doomed, StatusInv, PlaceInv, LockInv, OnStack, Working
<1>b. UNCHANGED <<pc, cur, state>> => \A v \in Threads : Costs[v] \subseteq Costs'[v]
  BY DEF Costs, Doomed
<1>1. CASE Take(t) \/ GoIdle(t) \/ PollNothing(t) \/ (\E w \in waits : Poll(t, w))
  <2>1. PICK p : p # "check" /\ pc' = [pc EXCEPT ![t] = p]
    BY <1>1 DEF Take, GoIdle, PollNothing, Poll, Goto
  <2>2. /\ pc[t] \in {"take", "idle"} /\ state' = state
        /\ \A u \in Threads \ {t} : cur'[u] = cur[u]
    BY <1>1 DEF Take, GoIdle, PollNothing, Poll
  <2>3. t \notin Doomed
    BY <2>2 DEF Doomed
  <2> QED
    BY <1>a, <2>1, <2>2, <2>3, CostsGrow
<1>2. CASE Acquire(t) \/ (\E b \in Blocking : Await(t, b))
  <2>1. CASE UNCHANGED <<pc, cur, state>>
    BY <1>b, <2>1
  <2>2. CASE ~UNCHANGED <<pc, cur, state>>
    <3>1. PICK p : p # "check" /\ pc' = [pc EXCEPT ![t] = p]
      BY <1>2, <2>2 DEF Acquire, Abort, Await, Goto
    <3>2. /\ pc[t] \in {"acquire", "run"} /\ state' = state
          /\ \A u \in Threads \ {t} : cur'[u] = cur[u]
      BY <1>2, <2>2 DEF Acquire, Abort, Await
    <3>3. t \notin Doomed
      BY <3>2 DEF Doomed
    <3> QED
      BY <1>a, <3>1, <3>2, <3>3, CostsGrow
  <2> QED
    BY <2>1, <2>2
<1>3. CASE Rearm(t) \/ Release(t)
  <2>1. PICK p \in {"enter", "take"} : p # "check" /\ pc' = [pc EXCEPT ![t] = p]
    BY <1>3 DEF Rearm, Release, Goto
  <2>2. /\ pc[t] \in {"rearm", "reset"} /\ state' = [state EXCEPT ![cur[t]] = "READY"]
        /\ \A u \in Threads \ {t} : cur'[u] = cur[u]
    BY <1>3 DEF Rearm, Release, ResetTo
  <2>3. t \notin Doomed /\ \A u \in Doomed : state'[cur[u]] \in {"SUSPEND", "READY"}
    BY <1>a, <2>2 DEF Doomed
  <2> QED
    BY <2>1, <2>2, <2>3, CostsGrow
<1>4. CASE Enter(t) \/ Rejoin(t)
  <2>0. \A u \in Doomed : cur[u] # cur[t]
    BY <1>4, <1>a DEF Enter, Rejoin, Unlocked
  <2>1. CASE UNCHANGED <<pc, cur, state>>
    BY <1>b, <2>1
  <2>2. CASE ~UNCHANGED <<pc, cur, state>>
    <3>1. PICK p \in {"run", "check"} : pc' = [pc EXCEPT ![t] = p]
      BY <1>4, <2>2 DEF Enter, Rejoin, ResumeFiber, Abort, Goto
    <3>2. /\ pc[t] \in {"enter", "rejoin"} /\ cur' = cur
          /\ state' = state \/ state' = [state EXCEPT ![cur[t]] = "RUNNING"]
      BY <1>4, <2>2 DEF Enter, Rejoin, ResumeFiber, Abort
    <3>3. t \notin Doomed /\ \A u \in Doomed : state'[cur[u]] \in {"SUSPEND", "READY"}
      BY <1>a, <2>0, <3>2 DEF Doomed
    <3> QED
      BY <2>0, <3>1, <3>2, <3>3, CostsGrow
  <2> QED
    BY <2>1, <2>2
<1>5. CASE Finish(t) \/ Yield(t)
  <2>1. CASE UNCHANGED <<pc, cur, state>>
    BY <1>b, <2>1
  <2>2. CASE ~UNCHANGED <<pc, cur, state>>
    <3>1. PICK s : /\ pc' = [pc EXCEPT ![t] = "check"] /\ cur' = cur
                   /\ state' = [state EXCEPT ![cur[t]] = s]
      BY <1>5, <2>2 DEF Finish, Yield, Abort, SwitchOut, Goto
    <3>2. t \in OnStack /\ t \notin Doomed
      BY <1>5, <2>2 DEF Finish, Yield, Abort, OnStack, Doomed
    <3>3. \A u \in Doomed : cur[u] # cur[t]
      BY <1>a, <3>2 DEF StatusInv, LockInv
    <3>4. \A u \in Doomed : state'[cur[u]] \in {"SUSPEND", "READY"}
      BY <1>a, <3>1, <3>3
    <3> QED
      BY <3>1, <3>2, <3>3, <3>4, CostsGrow
  <2> QED
    BY <2>1, <2>2
<1>6. CASE Suspend(t)
  <2>1. CASE UNCHANGED <<pc, cur, state>>
    BY <1>b, <2>1
  <2>2. CASE ~UNCHANGED <<pc, cur, state>>
    <3>1. /\ pc' = [pc EXCEPT ![t] = "yield"] /\ cur' = cur
          /\ state' = [state EXCEPT ![cur[t]] = "SUSPEND"] /\ pc[t] = "run"
      BY <1>6, <2>2 DEF Suspend, Goto
    <3>2. t \notin Doomed /\ \A u \in Doomed : state'[cur[u]] \in {"SUSPEND", "READY"}
      BY <1>a, <3>1 DEF Doomed
    <3> QED
      BY <3>1, <3>2, CostsGrow
  <2> QED
    BY <2>1, <2>2
<1>7. CASE Check(t)
  <2>1. CASE UNCHANGED <<pc, cur, state>>
    BY <1>b, <2>1
  <2>2. CASE ~UNCHANGED <<pc, cur, state>>
    <3>1. PICK p : p # "check" /\ pc' = [pc EXCEPT ![t] = p]
      BY <1>7, <2>2 DEF Check, Goto
    <3>2. pc[t] = "check" /\ UNCHANGED <<cur, state>> /\ t \notin Doomed
      BY <1>7 DEF Check, Doomed
    <3> QED
      BY <1>a, <3>1, <3>2, CostsGrow
  <2> QED
    BY <2>1, <2>2
<1> QED
  BY <1>1, <1>2, <1>3, <1>4, <1>5, <1>6, <1>7 DEF Step

LEMMA StepStockInv ==
  ASSUME TypeInv, TypeOK', NEW t \in Threads, Step(t)
  PROVE  StockInv'
<1> USE DEF poolVars, fiberVars, threadVars, logVars, At
<1>0. TypeOK /\ StatusInv /\ StockInv /\ PoolSuffices
  BY DEF TypeInv
<1>1. \A v \in Threads : Costs[v] \subseteq Costs'[v]
  BY <1>0, StepCosts
<1> DEFINE Enough(v) == PoolSize <= Len(idle'[v]) + (IF pc'[v] \in Holding THEN 1 ELSE 0) + Cardinality(Costs'[v])
<1>2. \A v \in Threads \ {t} : idle'[v] = idle[v] /\ pc'[v] = pc[v]
  <2>1. pc \in [Threads -> Places] /\ DOMAIN idle = Threads
    BY <1>0 DEF TypeOK
  <2>2. pc' = pc \/ \E p : pc' = [pc EXCEPT ![t] = p]
    BY DEF Step, Take, GoIdle, PollNothing, Poll, Acquire, Rearm, Enter, Rejoin, ResumeFiber,
           Finish, SwitchOut, Await, Suspend, Yield, Check, Release, Abort, Goto
  <2>3. idle' = idle \/ \E q : idle' = [idle EXCEPT ![t] = q]
    BY DEF Step, Take, GoIdle, PollNothing, Poll, Acquire, Rearm, Enter, Rejoin, ResumeFiber,
           Finish, SwitchOut, Await, Suspend, Yield, Check, Release, Abort
  <2> QED
    BY <2>1, <2>2, <2>3
<1>3. \A v \in Threads \ {t} : Enough(v)
  <2> SUFFICES ASSUME NEW v \in Threads \ {t} PROVE Enough(v)
    OBVIOUS
  <2>1. Len(idle[v]) <= Len(idle'[v]) /\ (pc[v] \in Holding => pc'[v] \in Holding)
    BY <1>0, <1>2 DEF TypeOK
  <2> QED
    BY <1>0, <1>1, <2>1, StockKept
<1>4. Enough(t)
  <2>1. CASE Acquire(t)
    <3>1. idle[t] # <<>>
      BY <1>0, <2>1, StockLeft DEF Acquire
    <3>2. Created(t) = idle[t] /\ Len(Tail(idle[t])) + 1 = Len(idle[t])
      BY <1>0, <3>1, AcquiredType
    <3>3. CASE Abort
      <4>1. Len(idle[t]) <= Len(idle'[t]) /\ pc'[t] = pc[t]
        BY <1>0, <3>3 DEF Abort, TypeOK
      <4> QED
        BY <1>0, <1>1, <4>1, StockKept
    <3>4. CASE ~Abort
      <4>1. /\ idle'[t] = Tail(idle[t]) /\ pc[t] = "acquire" /\ pc'[t] = "rearm"
        BY <1>0, <2>1, <3>2, <3>4 DEF Acquire, Goto, TypeOK
      <4>2. /\ Len(idle[t]) <= Len(idle'[t]) + 1
            /\ pc[t] \notin Holding /\ pc'[t] \in Holding
        BY <1>0, <3>2, <4>1 DEF Holding, Working, TypeOK
      <4> QED
        BY <1>0, <1>1, <4>2, StockKept
    <3> QED
      BY <3>3, <3>4
  <2>2. CASE Release(t)
    <3>1. cur[t] \in Fibers
      BY <1>0, <2>2 DEF Release, StatusInv, PlaceInv, Working
    <3>2. idle'[t] = Append(idle[t], cur[t])
      BY <1>0, <2>2 DEF Release, TypeOK
    <3>3. Len(idle[t]) + 1 <= Len(idle'[t])
      BY <1>0, <3>1, <3>2 DEF TypeOK
    <3> QED
      BY <1>0, <1>1, <3>3, StockKept
  <2>3. CASE Check(t) /\ state[cur[t]] = "SUSPEND"
    BY <1>0, <1>1, <2>3, StockLost
  <2>4. CASE ~Acquire(t) /\ ~Release(t) /\ ~(Check(t) /\ state[cur[t]] = "SUSPEND")
    <3>1. idle' = idle
      BY <2>4 DEF Step, Take, GoIdle, PollNothing, Poll, Rearm, Enter, Rejoin, ResumeFiber,
                  Finish, Await, Suspend, Yield, Check, Abort
    <3>2. pc[t] \in Holding => pc'[t] \in Holding
      <4>1. pc \in [Threads -> Places]
        BY <1>0 DEF TypeOK
      <4>2. CASE \/ Take(t) \/ GoIdle(t) \/ PollNothing(t) \/ (\E w \in waits : Poll(t, w)) \/ Rejoin(t)
        BY <4>1, <4>2 DEF Take, GoIdle, PollNothing, Poll, Rejoin, ResumeFiber, Abort, Goto, Holding, Working
      <4>3. CASE Rearm(t) \/ Enter(t) \/ Finish(t)
        BY <4>1, <4>3 DEF Rearm, Enter, ResumeFiber, Finish, SwitchOut, Abort, Goto, Holding, Working
      <4>4. CASE (\E b \in Blocking : Await(t, b)) \/ Suspend(t) \/ Yield(t)
        BY <4>1, <4>4 DEF Await, Suspend, Yield, SwitchOut, Abort, Goto, Holding, Working
      <4>5. CASE Check(t) /\ state[cur[t]] # "SUSPEND"
        BY <4>1, <4>5 DEF Check, Abort, Goto, Holding, Working
      <4> QED
        BY <2>4, <4>2, <4>3, <4>4, <4>5 DEF Step
    <3>3. Len(idle[t]) <= Len(idle'[t])
      BY <1>0, <3>1 DEF TypeOK
    <3> QED
      BY <1>0, <1>1, <3>2, <3>3, StockKept
  <2> QED
    BY <2>1, <2>2, <2>3, <2>4
<1> QED
  BY <1>3, <1>4 DEF StockInv

-----------------------------------------------------------------------------

LEMMA InitTypeInv == Init => TypeInv
<1> SUFFICES ASSUME Init PROVE TypeInv
  OBVIOUS
<1>1. TypeOK /\ PoolSuffices
  BY InitTypeOK
<1>2. Doomed = {} /\ OnStack = {}
  BY DEF Init, Doomed, OnStack
<1>3. PlaceInv /\ RunningInv
  BY DEF Init, PlaceInv, RunningInv, Working
<1>4. LockInv
  BY <1>2, FiberAssumption DEF Init, LockInv
<1>5. OverInv /\ SuspendInv
  BY OtherKinds DEF Init, OverInv, SuspendInv
<1>6. ASSUME NEW t \in Threads
      PROVE  PoolSize <= Len(idle[t]) + (IF pc[t] \in Holding THEN 1 ELSE 0) + Cardinality(Costs[t])
  <2>1. Costs[t] = {}
    BY <1>2 DEF Costs
  <2>2. Cardinality(Costs[t]) = 0
    BY <2>1, FS_EmptySet
  <2>3. Len(idle[t]) = PoolSize /\ pc[t] \notin Holding /\ PoolSize \in Nat
    BY FiberAssumption DEF Init, Holding, Working
  <2> QED
    BY <2>2, <2>3
<1> QED
  BY <1>1, <1>3, <1>4, <1>5, <1>6 DEF TypeInv, StatusInv, StockInv

LEMMA NextTypeInv == TypeInv /\ [Next]_vars => TypeInv'
<1> SUFFICES ASSUME TypeInv, [Next]_vars PROVE TypeInv'
  OBVIOUS
<1>0. TypeOK /\ StatusInv /\ StockInv /\ PoolSuffices
  BY DEF TypeInv
<1>a. UNCHANGED <<idle, all, pc, cur, call, state, ctx, lock>> => StatusInv' /\ StockInv' /\ PoolSuffices'
  <2> SUFFICES ASSUME UNCHANGED <<idle, all, pc, cur, call, state, ctx, lock>>
               PROVE  StatusInv' /\ StockInv' /\ PoolSuffices'
    OBVIOUS
  <2>1. StatusInv'
    BY <1>0, StatusFrame
  <2>2. Costs' = Costs
    BY DEF Costs, Doomed
  <2>3. StockInv' /\ PoolSuffices'
    BY <1>0, <2>2 DEF StockInv, PoolSuffices
  <2> QED
    BY <2>1, <2>3
<1>1. CASE Schedule
  BY <1>0, <1>a, <1>1, ScheduleTypeOK DEF Schedule, TypeInv, poolVars, fiberVars, threadVars
<1>2. ASSUME NEW t \in Threads, Step(t) PROVE TypeInv'
  BY <1>0, <1>2, StepTypeOK, StepStatusInv, StepStockInv DEF TypeInv
<1>3. CASE UNCHANGED vars
  <2>1. TypeOK'
    BY <1>0, <1>3 DEF vars, poolVars, fiberVars, threadVars, logVars, TypeOK
  <2> QED
    BY <1>a, <1>3, <2>1 DEF vars, poolVars, fiberVars, threadVars, TypeInv
<1> QED
  BY <1>1, <1>2, <1>3 DEF Next

LEMMA AlwaysTypeInv == Spec => []TypeInv
BY InitTypeInv, NextTypeInv, PTL DEF Spec

\* Every variable of the fibers, the pools and run() keeps its type: no fiber is
\* invented, no thread executes what is not a callback.
THEOREM FiberTypeOK == Spec => []TypeOK
<1>1. TypeInv => TypeOK
  BY DEF TypeInv
<1> QED
  BY <1>1, AlwaysTypeInv, PTL

\* Two threads never execute on one stack: the mutex of a fiber is locked from
\* resume() until the fiber comes back (scheduler.cpp:133, 152).
THEOREM FiberOneThreadPerStack == Spec => []OneThreadPerStack
<1>1. TypeInv => OneThreadPerStack
  BY DEF TypeInv, StatusInv, LockInv, OneThreadPerStack, OnStack
<1> QED
  BY <1>1, AlwaysTypeInv, PTL

\* No pool runs empty, so that acquire() never creates fibers: each fiber of a
\* thread is in its pool, in its hands, or was left to one of the other threads,
\* which then never comes back (fiberpool.cpp:35-39).
THEOREM FiberPoolSuffices == Spec => []PoolSuffices
<1>1. TypeInv => PoolSuffices
  BY DEF TypeInv
<1> QED
  BY <1>1, AlwaysTypeInv, PTL

-----------------------------------------------------------------------------
(* A job runs at most once                                                 *)

\* No job comes to a place it was not at before.
SameQueue     == Queued' = Queued /\ \A i \in Queued : tasks'[i] = tasks[i]
FewerTaken    == Taken' \subseteq Taken /\ \A t \in Taken' : call'[t] = call[t]
FewerLoaded   == Loaded' \subseteq Loaded /\ \A f \in Loaded' : cb'[f] = cb[f]
FewerExecuted == Executed' \subseteq Executed /\ \A t \in Executed' : call'[t] = call[t]
FewerParked   == Parked' \subseteq Parked /\ \A f \in Parked' : ctx'[f] = ctx[f]

LEMMA FreshShrinks ==
  ASSUME FreshInv, SameQueue, FewerTaken, FewerLoaded, UNCHANGED <<jobs, started>>
  PROVE  FreshInv'
BY DEF FreshInv, SameQueue, FewerTaken, FewerLoaded

LEMMA StartedShrinks ==
  ASSUME StartedInv, FewerExecuted, FewerParked, UNCHANGED <<started, done>>
  PROVE  StartedInv'
BY DEF StartedInv, FewerExecuted, FewerParked

LEMMA OnceShrinks ==
  ASSUME OnceInv, SameQueue, FewerTaken, FewerLoaded, FewerExecuted, FewerParked,
         UNCHANGED <<jobs, started, done>>
  PROVE  OnceInv'
BY FreshShrinks, StartedShrinks DEF OnceInv, AtMostOnce

\* Labels are jobs.
LEMMA LabelTypes ==
  ASSUME TypeOK
  PROVE  /\ \A i \in Queued : tasks[i].job \in Jobs
         /\ \A t \in Taken \cup Executed : call[t].job \in Jobs
         /\ \A f \in Loaded : cb[f].job \in Jobs
         /\ \A f \in Parked : ctx[f].job \in Jobs
<1> USE CallbackKinds
<1>1. ASSUME NEW i \in Queued PROVE tasks[i].job \in Jobs
  <2>1. tasks[i] \in Tasks /\ tasks[i].kind = "job"
    BY DEF Queued, TypeOK, Tasks
  <2> QED
    BY <2>1, TaskKinds
<1>2. ASSUME NEW t \in Taken \cup Executed PROVE call[t].job \in Jobs
  <2>1. call[t] \in Callbacks \cup {NoCall} /\ call[t].kind = "job"
    BY DEF Taken, Executed, OnStack, TypeOK
  <2> QED
    BY <2>1
<1>3. ASSUME NEW f \in Loaded PROVE cb[f].job \in Jobs
  <2>1. cb[f] \in Callbacks \cup {NoCall} /\ cb[f].kind = "job"
    BY DEF Loaded, TypeOK
  <2> QED
    BY <2>1
<1>4. ASSUME NEW f \in Parked PROVE ctx[f].job \in Jobs
  <2>1. ctx[f] \in Callbacks \cup {Start, Over} /\ ctx[f].kind = "job"
    BY DEF Parked, TypeOK
  <2> QED
    BY <2>1
<1> QED
  BY <1>1, <1>2, <1>3, <1>4

LEMMA ScheduleOnce == ASSUME TypeOK, OnceInv, Schedule PROVE OnceInv'
<1> USE DEF fiberVars, threadVars
<1>0. /\ jobs < MaxJobs /\ jobs' = jobs + 1 /\ jobs \in Nat /\ jobs + 1 \in Jobs
      /\ tasks' = Append(tasks, Job(jobs + 1))
  BY JobsType DEF Schedule, TypeOK, Jobs
<1>1. Job(jobs + 1) \in Tasks /\ Job(jobs + 1).kind = "job" /\ Job(jobs + 1).job = jobs + 1
  BY <1>0, CallbackKinds DEF Tasks
<1> DEFINE n == Len(tasks) + 1
<1>2. /\ Queued' = Queued \cup {n} /\ n \notin Queued
      /\ tasks'[n].job = jobs + 1 /\ \A i \in Queued : tasks'[i] = tasks[i]
  BY <1>0, <1>1, QueuedType DEF Queued
<1>3. Taken' = Taken /\ Loaded' = Loaded /\ Executed' = Executed /\ Parked' = Parked
  BY DEF Schedule, Taken, Loaded, Executed, Parked, OnStack
<1>4. UNCHANGED <<call, cb, ctx, started, done>>
  BY DEF Schedule
<1>5. started[jobs + 1] = 0
  BY <1>0 DEF OnceInv
<1>6. FreshInv'
  <2>1. \A j \in Jobs : j <= jobs => j <= jobs' /\ j # jobs + 1
    BY <1>0, JobsType
  <2>2. /\ \A i \in Queued : tasks[i].job <= jobs' /\ tasks[i].job # jobs + 1
        /\ \A t \in Taken : call[t].job <= jobs' /\ call[t].job # jobs + 1
        /\ \A f \in Loaded : cb[f].job <= jobs' /\ cb[f].job # jobs + 1
    BY <2>1, LabelTypes DEF OnceInv, FreshInv
  <2>3. \A i \in Queued' : started'[tasks'[i].job] = 0 /\ tasks'[i].job <= jobs'
    <3>1. \A i \in Queued : started[tasks[i].job] = 0
      BY DEF OnceInv, FreshInv
    <3>2. jobs + 1 <= jobs'
      BY <1>0
    <3> QED
      BY <1>2, <1>4, <1>5, <2>2, <3>1, <3>2
  <2>4. \A i, k \in Queued' : tasks'[i].job = tasks'[k].job => i = k
    BY <1>2, <2>2 DEF OnceInv, FreshInv
  <2>5. \A i \in Queued', t \in Taken : tasks'[i].job # call[t].job
    BY <1>2, <2>2 DEF OnceInv, FreshInv
  <2>6. \A i \in Queued', f \in Loaded : tasks'[i].job # cb[f].job
    BY <1>2, <2>2 DEF OnceInv, FreshInv
  <2> QED
    BY <1>3, <1>4, <2>2, <2>3, <2>4, <2>5, <2>6 DEF OnceInv, FreshInv
<1>7. StartedInv'
  BY <1>3, <1>4 DEF OnceInv, StartedInv
<1> QED
  BY <1>0, <1>4, <1>6, <1>7, JobsType DEF OnceInv, AtMostOnce

\* A thread moves without touching a job; what it appends is not a job.
LEMMA OnceMoves ==
  ASSUME TypeOK, OnceInv, SameQueue, NEW t \in Threads, NEW p, pc' = [pc EXCEPT ![t] = p],
         p \in {"acquire", "rearm"} => pc[t] \in {"acquire", "rearm"},
         p \in {"run", "yield"} => pc[t] \in {"run", "yield"},
         UNCHANGED <<call, cb, ctx, lock, jobs, started, done>>
  PROVE  OnceInv'
<1> USE FiberTypes
<1>1. FewerTaken
  BY DEF FewerTaken, Taken
<1>2. FewerExecuted
  BY DEF FewerExecuted, Executed, OnStack
<1>3. FewerLoaded /\ FewerParked
  BY DEF FewerLoaded, FewerParked, Loaded, Parked
<1> QED
  BY <1>1, <1>2, <1>3, OnceShrinks

LEMMA TakeOnce == ASSUME TypeOK, OnceInv, NEW t \in Threads, Take(t) PROVE OnceInv'
<1> USE FiberTypes DEF fiberVars, logVars, At
<1>0. /\ pc[t] = "take" /\ tasks' = Tail(tasks) /\ Head(tasks) \in Tasks
      /\ UNCHANGED <<cb, ctx, lock, jobs, started, done>>
  BY TakenType DEF Take
<1>1. /\ \A i \in Queued' : i + 1 \in Queued /\ tasks'[i] = tasks[i + 1] /\ i \in Nat
      /\ \A i \in Queued' : i + 1 # 1
      /\ Head(tasks).kind = "job" => 1 \in Queued /\ tasks[1] = Head(tasks)
  <2>1. /\ \A i \in DOMAIN tasks' : tasks'[i] = tasks[i + 1] /\ i + 1 \in DOMAIN tasks
        /\ Head(tasks) = tasks[1] /\ 1 \in DOMAIN tasks
    BY <1>0, TakenType DEF Take
  <2>2. tasks' \in Seq(Tasks) /\ DOMAIN tasks' \subseteq Nat \ {0}
    BY <1>0, TakenType DEF Take
  <2> QED
    BY <2>1, <2>2 DEF Queued
<1>2. Loaded' = Loaded /\ Parked' = Parked
  BY <1>0 DEF Loaded, Parked
<1>3. CASE Head(tasks).kind # "job"
  <2>1. PICK p \in {"rejoin", "acquire"} : pc' = [pc EXCEPT ![t] = p]
    BY <1>3 DEF Take, Goto
  <2>2. /\ \A u \in Threads \ {t} : call'[u] = call[u]
        /\ p = "acquire" => call'[t].kind # "job"
    BY <1>3, <2>1 DEF Take, Goto
  <2>3. Taken' = Taken /\ \A u \in Taken : call'[u] = call[u]
    BY <1>0, <2>1, <2>2 DEF Taken
  <2>4. Executed' = Executed /\ \A u \in Executed : call'[u] = call[u]
    BY <1>0, <2>1, <2>2 DEF Executed, OnStack
  <2>5. FreshInv'
    <3>a. /\ \A i \in Queued : started[tasks[i].job] = 0 /\ tasks[i].job <= jobs
          /\ \A i, k \in Queued : tasks[i].job = tasks[k].job => i = k
      BY DEF OnceInv, FreshInv
    <3>1. \A i \in Queued' : started'[tasks'[i].job] = 0 /\ tasks'[i].job <= jobs'
      <4> SUFFICES ASSUME NEW i \in Queued' PROVE started'[tasks'[i].job] = 0 /\ tasks'[i].job <= jobs'
        OBVIOUS
      <4>1. tasks'[i] = tasks[i + 1] /\ i + 1 \in Queued /\ started' = started /\ jobs' = jobs
        BY <1>0, <1>1
      <4> QED
        BY <3>a, <4>1
    <3>2. \A i, k \in Queued' : tasks'[i].job = tasks'[k].job => i = k
      <4> SUFFICES ASSUME NEW i \in Queued', NEW k \in Queued', tasks'[i].job = tasks'[k].job
                   PROVE  i = k
        OBVIOUS
      <4>1. i + 1 = k + 1
        BY <1>1, <3>a
      <4> QED
        BY <1>1, <4>1
    <3>3. /\ \A i \in Queued', u \in Taken : tasks'[i].job # call[u].job
          /\ \A i \in Queued', f \in Loaded : tasks'[i].job # cb[f].job
      BY <1>1 DEF OnceInv, FreshInv
    <3>4. /\ \A u \in Taken' : started'[call'[u].job] = 0 /\ call'[u].job <= jobs'
          /\ \A u, v \in Taken' : call'[u].job = call'[v].job => u = v
          /\ \A u \in Taken', f \in Loaded' : call'[u].job # cb'[f].job
      BY <1>0, <1>2, <2>3 DEF OnceInv, FreshInv
    <3>5. \A i \in Queued', u \in Taken' : tasks'[i].job # call'[u].job
      BY <2>3, <3>3
    <3>7. \A i \in Queued', f \in Loaded' : tasks'[i].job # cb'[f].job
      BY <1>0, <1>2, <3>3
    <3>6. /\ \A f \in Loaded' : started'[cb'[f].job] = 0 /\ cb'[f].job <= jobs'
          /\ \A f, g \in Loaded' : cb'[f].job = cb'[g].job => f = g
      BY <1>0, <1>2 DEF OnceInv, FreshInv
    <3> QED
      BY <3>1, <3>2, <3>4, <3>5, <3>6, <3>7 DEF FreshInv
  <2>6. StartedInv'
    BY <1>0, <1>2, <2>4 DEF OnceInv, StartedInv
  <2> QED
    BY <1>0, <2>5, <2>6 DEF OnceInv, AtMostOnce
<1>4. CASE Head(tasks).kind = "job"
  <2>1. pc' = [pc EXCEPT ![t] = "acquire"] /\ call' = [call EXCEPT ![t] = Head(tasks)]
    BY <1>4 DEF Take, Goto
  <2>2. /\ Taken' = Taken \cup {t} /\ t \notin Taken
        /\ call'[t] = tasks[1] /\ \A u \in Taken : call'[u] = call[u]
    BY <1>0, <1>1, <1>4, <2>1 DEF Taken
  <2>3. Executed' = Executed /\ \A u \in Executed : call'[u] = call[u]
    BY <1>0, <2>1 DEF Executed, OnStack
  <2>4. 1 \in Queued
    BY <1>1, <1>4
  <2>5. FreshInv'
    <3>a. /\ \A i \in Queued : started[tasks[i].job] = 0 /\ tasks[i].job <= jobs
          /\ \A i, k \in Queued : tasks[i].job = tasks[k].job => i = k
      BY DEF OnceInv, FreshInv
    <3>1. \A i \in Queued' : started'[tasks'[i].job] = 0 /\ tasks'[i].job <= jobs'
      <4> SUFFICES ASSUME NEW i \in Queued' PROVE started'[tasks'[i].job] = 0 /\ tasks'[i].job <= jobs'
        OBVIOUS
      <4>1. tasks'[i] = tasks[i + 1] /\ i + 1 \in Queued /\ started' = started /\ jobs' = jobs
        BY <1>0, <1>1
      <4> QED
        BY <3>a, <4>1
    <3>2. \A i, k \in Queued' : tasks'[i].job = tasks'[k].job => i = k
      <4> SUFFICES ASSUME NEW i \in Queued', NEW k \in Queued', tasks'[i].job = tasks'[k].job
                   PROVE  i = k
        OBVIOUS
      <4>1. i + 1 = k + 1
        BY <1>1, <3>a
      <4> QED
        BY <1>1, <4>1
    <3>3. \A i \in Queued', u \in Taken' : tasks'[i].job # call'[u].job
      BY <1>1, <2>2, <2>4 DEF OnceInv, FreshInv
    <3>4. \A i \in Queued', f \in Loaded : tasks'[i].job # cb[f].job
      BY <1>1 DEF OnceInv, FreshInv
    <3>5. \A u \in Taken' : started'[call'[u].job] = 0 /\ call'[u].job <= jobs'
      BY <1>0, <2>2, <2>4 DEF OnceInv, FreshInv
    <3>6. \A u, v \in Taken' : call'[u].job = call'[v].job => u = v
      BY <2>2, <2>4 DEF OnceInv, FreshInv
    <3>7. \A u \in Taken', f \in Loaded : call'[u].job # cb[f].job
      BY <2>2, <2>4 DEF OnceInv, FreshInv
    <3>8. /\ \A f \in Loaded' : started'[cb'[f].job] = 0 /\ cb'[f].job <= jobs'
          /\ \A f, g \in Loaded' : cb'[f].job = cb'[g].job => f = g
      BY <1>0, <1>2 DEF OnceInv, FreshInv
    <3>9. cb' = cb /\ Loaded' = Loaded
      BY <1>0, <1>2
    <3> QED
      BY <3>1, <3>2, <3>3, <3>4, <3>5, <3>6, <3>7, <3>8, <3>9 DEF FreshInv
  <2>6. StartedInv'
    BY <1>0, <1>2, <2>3 DEF OnceInv, StartedInv
  <2> QED
    BY <1>0, <2>5, <2>6 DEF OnceInv, AtMostOnce
<1> QED
  BY <1>3, <1>4

\* reset(cb) in acquire(): the job goes from the thread into the fiber, or is lost
\* when somebody is on the fiber's stack.
LEMMA RearmOnce ==
  ASSUME TypeOK, StatusInv, OnceInv, NEW t \in Threads, Rearm(t)
  PROVE  OnceInv'
<1> USE DEF At, logVars
<1> DEFINE f == cur[t]
<1>0. /\ pc[t] = "rearm" /\ f \in Fibers /\ call[t] \in Callbacks
      /\ cb' = [cb EXCEPT ![f] = call[t]] /\ ctx' = [ctx EXCEPT ![f] = Start] /\ lock' = lock
      /\ call' = [call EXCEPT ![t] = NoCall] /\ pc' = [pc EXCEPT ![t] = "enter"]
      /\ UNCHANGED <<tasks, jobs, started, done>>
  BY DEF Rearm, ResetTo, Goto, StatusInv, PlaceInv, Working
<1>1. SameQueue
  BY <1>0 DEF SameQueue, Queued
<1>2. Taken' \subseteq Taken \ {t} /\ \A u \in Taken' : call'[u] = call[u]
  BY <1>0, FiberTypes DEF Taken
<1>3. FewerExecuted
  BY <1>0, FiberTypes DEF FewerExecuted, Executed, OnStack
<1>4. FewerParked
  BY <1>0, FiberTypes, CallbackKinds DEF FewerParked, Parked
<1>5. \A g \in Loaded' : \/ g \in Loaded /\ cb'[g] = cb[g]
                         \/ g = f /\ cb'[g] = call[t] /\ t \in Taken
  BY <1>0, FiberTypes DEF Loaded, Taken
<1>6. FreshInv'
  <2>a. FreshInv
    BY DEF OnceInv
  <2>b. \A u \in Taken' : u \in Taken /\ u # t
    BY <1>2
  <2>1. \A i \in Queued' : started'[tasks'[i].job] = 0 /\ tasks'[i].job <= jobs'
    BY <1>0, <1>1, <2>a DEF SameQueue, FreshInv
  <2>2. \A i, k \in Queued' : tasks'[i].job = tasks'[k].job => i = k
    BY <1>1, <2>a DEF SameQueue, FreshInv
  <2>3. \A u \in Taken' : started'[call'[u].job] = 0 /\ call'[u].job <= jobs'
    BY <1>0, <1>2, <2>a, <2>b DEF FreshInv
  <2>4. \A u, v \in Taken' : call'[u].job = call'[v].job => u = v
    BY <1>2, <2>a, <2>b DEF FreshInv
  <2>5. \A g \in Loaded' : started'[cb'[g].job] = 0 /\ cb'[g].job <= jobs'
    BY <1>0, <1>5, <2>a DEF FreshInv
  <2>6. \A g, h \in Loaded' : cb'[g].job = cb'[h].job => g = h
    BY <1>5, <2>a DEF FreshInv
  <2>7. \A i \in Queued', u \in Taken' : tasks'[i].job # call'[u].job
    BY <1>1, <1>2, <2>a, <2>b DEF FreshInv, SameQueue
  <2>8. \A i \in Queued', g \in Loaded' : tasks'[i].job # cb'[g].job
    BY <1>1, <1>5, <2>a DEF FreshInv, SameQueue
  <2>9. \A u \in Taken', g \in Loaded' : call'[u].job # cb'[g].job
    <3> SUFFICES ASSUME NEW u \in Taken', NEW g \in Loaded' PROVE call'[u].job # cb'[g].job
      OBVIOUS
    <3>1. u \in Taken /\ u # t /\ call'[u] = call[u]
      BY <1>2
    <3> QED
      BY <1>5, <2>a, <3>1 DEF FreshInv
  <2> QED
    BY <2>1, <2>2, <2>3, <2>4, <2>5, <2>6, <2>7, <2>8, <2>9 DEF FreshInv
<1>7. StartedInv'
  BY <1>0, <1>3, <1>4, StartedShrinks DEF OnceInv
<1> QED
  BY <1>0, <1>6, <1>7 DEF OnceInv, AtMostOnce

\* resume(): a loaded job is started, a parked one goes on.
LEMMA ResumeOnce ==
  ASSUME TypeOK, StatusInv, OnceInv, NEW t \in Threads, pc[t] \in {"enter", "rejoin"},
         Unlocked(cur[t]), ResumeFiber(t)
  PROVE  OnceInv'
<1> DEFINE f == cur[t]
<1>1. CASE state[f] # "READY" \/ Entered(f) = NoCall
  <2>1. UNCHANGED <<tasks, pc, call, cb, ctx, lock, jobs, started, done>>
    BY <1>1 DEF ResumeFiber, Abort, fiberVars, threadVars, logVars
  <2>2. SameQueue /\ FewerTaken /\ FewerLoaded /\ FewerExecuted /\ FewerParked
    BY <2>1 DEF SameQueue, FewerTaken, FewerLoaded, FewerExecuted, FewerParked,
                Queued, Taken, Loaded, Executed, Parked, OnStack
  <2> QED
    BY <2>1, <2>2, OnceShrinks
<1>2. CASE state[f] = "READY" /\ Entered(f) # NoCall
  <2>0. /\ f \in Fibers /\ Entered(f) \in Callbacks /\ lock[f] = NoThread
        /\ lock' = [lock EXCEPT ![f] = t] /\ call' = [call EXCEPT ![t] = Entered(f)]
        /\ pc' = [pc EXCEPT ![t] = "run"] /\ UNCHANGED <<tasks, cb, ctx, jobs, done>>
    BY <1>2, EnteredType DEF ResumeFiber, Goto, StatusInv, PlaceInv, Working, Unlocked
  <2>1. SameQueue
    BY <2>0 DEF SameQueue, Queued
  <2>2. FewerTaken
    BY <2>0, FiberTypes DEF FewerTaken, Taken
  <2>3. Loaded' \subseteq Loaded \ {f} /\ Parked' \subseteq Parked \ {f}
    BY <2>0, FiberTypes DEF Loaded, Parked
  <2>4. /\ FewerLoaded /\ FewerParked
    BY <2>0, <2>3 DEF FewerLoaded, FewerParked
  <2>5. t \notin Executed /\ \A u \in Executed' \ {t} : u \in Executed /\ call'[u] = call[u]
    BY <2>0, FiberTypes DEF Executed, OnStack
  <2>6. CASE ctx[f] # Start
    <3>1. Entered(f) = ctx[f] /\ started' = started
      BY <1>2, <2>6 DEF ResumeFiber, Entered
    <3>2. t \in Executed' => f \in Parked /\ call'[t] = ctx[f]
      BY <2>0, <3>1, FiberTypes DEF Executed, Parked
    <3>3. FreshInv'
      BY <2>0, <2>1, <2>2, <2>4, <3>1, FreshShrinks DEF OnceInv
    <3>4. StartedInv'
      <4>a. StartedInv
        BY DEF OnceInv
      <4>1. \A u \in Executed' : started'[call'[u].job] = 1 /\ done'[call'[u].job] = 0
        BY <2>0, <2>5, <3>1, <3>2, <4>a DEF StartedInv
      <4>2. \A g \in Parked' : started'[ctx'[g].job] = 1 /\ done'[ctx'[g].job] = 0
        BY <2>0, <2>3, <3>1, <4>a DEF StartedInv
      <4>3. \A u, v \in Executed' : call'[u].job = call'[v].job => u = v
        BY <2>5, <3>2, <4>a DEF StartedInv
      <4>4. \A g, h \in Parked' : ctx'[g].job = ctx'[h].job => g = h
        BY <2>0, <2>3, <4>a DEF StartedInv
      <4>5. \A u \in Executed', g \in Parked' : call'[u].job # ctx'[g].job
        BY <2>0, <2>3, <2>5, <3>2, <4>a DEF StartedInv
      <4> QED
        BY <4>1, <4>2, <4>3, <4>4, <4>5 DEF StartedInv
    <3> QED
      BY <2>0, <3>1, <3>3, <3>4 DEF OnceInv, AtMostOnce
  <2>7. CASE ctx[f] = Start /\ cb[f].kind # "job"
    <3>1. Entered(f) = cb[f] /\ started' = started
      BY <1>2, <2>7 DEF ResumeFiber, Entered
    <3>2. t \notin Executed'
      BY <2>0, <2>7, <3>1, FiberTypes DEF Executed
    <3>3. FewerExecuted
      BY <2>5, <3>2 DEF FewerExecuted
    <3> QED
      BY <2>0, <2>1, <2>2, <2>4, <3>1, <3>3, OnceShrinks
  <2>8. CASE ctx[f] = Start /\ cb[f].kind = "job"
    <3> DEFINE j == cb[f].job
    <3>1. Entered(f) = cb[f] /\ started' = [started EXCEPT ![j] = @ + 1] /\ f \in Loaded /\ j \in Jobs
      BY <1>2, <2>0, <2>8, LabelTypes DEF ResumeFiber, Entered, Loaded
    <3>2. call'[t].job = j
      BY <2>0, <3>1, FiberTypes
    <3>3. started[j] = 0 /\ done[j] = 0 /\ j <= jobs
      BY <3>1 DEF OnceInv, FreshInv, AtMostOnce, TypeOK
    <3>4. started'[j] = 1 /\ \A k \in Jobs : k # j => started'[k] = started[k]
      BY <3>1, <3>3 DEF TypeOK
    <3>5. FreshInv'
      <4>1. \A i \in Queued' : i \in Queued /\ tasks'[i] = tasks[i] /\ tasks[i].job # j /\ tasks[i].job \in Jobs
        BY <2>1, <3>1, LabelTypes DEF OnceInv, FreshInv, SameQueue
      <4>2. \A u \in Taken' : u \in Taken /\ call'[u] = call[u] /\ call[u].job # j /\ call[u].job \in Jobs
        BY <2>2, <3>1, LabelTypes DEF OnceInv, FreshInv, FewerTaken
      <4>3. \A g \in Loaded' : g \in Loaded /\ cb'[g] = cb[g] /\ cb[g].job # j /\ cb[g].job \in Jobs
        BY <2>0, <2>3, <3>1, LabelTypes DEF OnceInv, FreshInv
      <4>4. /\ \A i \in Queued' : started'[tasks'[i].job] = 0 /\ tasks'[i].job <= jobs'
            /\ \A u \in Taken' : started'[call'[u].job] = 0 /\ call'[u].job <= jobs'
            /\ \A g \in Loaded' : started'[cb'[g].job] = 0 /\ cb'[g].job <= jobs'
        BY <2>0, <3>4, <4>1, <4>2, <4>3 DEF OnceInv, FreshInv
      <4>5. /\ \A i, k \in Queued' : tasks'[i].job = tasks'[k].job => i = k
            /\ \A u, v \in Taken' : call'[u].job = call'[v].job => u = v
            /\ \A g, h \in Loaded' : cb'[g].job = cb'[h].job => g = h
        BY <4>1, <4>2, <4>3 DEF OnceInv, FreshInv
      <4>6. /\ \A i \in Queued', u \in Taken' : tasks'[i].job # call'[u].job
            /\ \A i \in Queued', g \in Loaded' : tasks'[i].job # cb'[g].job
            /\ \A u \in Taken', g \in Loaded' : call'[u].job # cb'[g].job
        BY <4>1, <4>2, <4>3 DEF OnceInv, FreshInv
      <4> QED
        BY <4>4, <4>5, <4>6 DEF FreshInv
    <3>6. StartedInv'
      <4>a. StartedInv
        BY DEF OnceInv
      <4>1. \A u \in Executed' \ {t} : u \in Executed /\ call'[u] = call[u] /\ call[u].job # j /\ call[u].job \in Jobs
        BY <2>5, <3>3, <4>a, LabelTypes DEF StartedInv
      <4>2. \A g \in Parked' : g \in Parked /\ ctx'[g] = ctx[g] /\ ctx[g].job # j /\ ctx[g].job \in Jobs
        BY <2>0, <2>3, <3>3, <4>a, LabelTypes DEF StartedInv
      <4>3. \A u \in Executed' : started'[call'[u].job] = 1 /\ done'[call'[u].job] = 0
        BY <2>0, <3>2, <3>3, <3>4, <4>1, <4>a DEF StartedInv
      <4>4. \A g \in Parked' : started'[ctx'[g].job] = 1 /\ done'[ctx'[g].job] = 0
        BY <2>0, <3>4, <4>2, <4>a DEF StartedInv
      <4>5. \A u, v \in Executed' : call'[u].job = call'[v].job => u = v
        BY <3>2, <4>1, <4>a DEF StartedInv
      <4>6. \A g, h \in Parked' : ctx'[g].job = ctx'[h].job => g = h
        BY <4>2, <4>a DEF StartedInv
      <4>7. \A u \in Executed', g \in Parked' : call'[u].job # ctx'[g].job
        BY <3>2, <4>1, <4>2, <4>a DEF StartedInv
      <4> QED
        BY <4>3, <4>4, <4>5, <4>6, <4>7 DEF StartedInv
    <3>7. (\A k \in Jobs : k > jobs => started[k] = 0)' /\ AtMostOnce'
      <4>1. \A k \in Jobs : k \in Nat
        BY JobsType
      <4>2. jobs \in Nat
        BY JobsType DEF TypeOK
      <4> QED
        BY <2>0, <3>1, <3>3, <3>4, <4>1, <4>2 DEF OnceInv, AtMostOnce
    <3> QED
      BY <3>5, <3>6, <3>7 DEF OnceInv
  <2> QED
    BY <2>6, <2>7, <2>8
<1> QED
  BY <1>1, <1>2 DEF StatusInv, PlaceInv, Working

\* The switch back to run() leaves the queue, the taken and the loaded jobs alone:
\* nobody could load the fiber that was left.
LEMMA SwitchOnce ==
  ASSUME TypeOK, StatusInv, NEW t \in Threads, t \in OnStack, NEW s, NEW c \in Callbacks \cup {Over},
         SwitchOut(t, s, c), \A g \in Fibers : g # cur[t] => cb'[g] = cb[g]
  PROVE  /\ FewerTaken /\ FewerLoaded
         /\ Executed' \subseteq Executed \ {t} /\ \A u \in Executed' : call'[u] = call[u]
         /\ cur[t] \notin Parked
         /\ \A g \in Parked' : \/ g \in Parked /\ ctx'[g] = ctx[g]
                               \/ g = cur[t] /\ ctx'[g] = c
<1> DEFINE f == cur[t]
<1> USE FiberTypes
<1>0. /\ f \in Fibers /\ lock[f] = t /\ ctx' = [ctx EXCEPT ![f] = c]
      /\ lock' = [lock EXCEPT ![f] = NoThread] /\ call' = [call EXCEPT ![t] = NoCall]
      /\ pc' = [pc EXCEPT ![t] = "check"]
  BY DEF StatusInv, PlaceInv, LockInv, OnStack, Working, SwitchOut, Goto
<1>1. FewerTaken
  BY <1>0 DEF FewerTaken, Taken
<1>2. FewerLoaded
  BY <1>0, OtherKinds DEF FewerLoaded, Loaded
<1>3. Executed' \subseteq Executed \ {t} /\ \A u \in Executed' : call'[u] = call[u]
  BY <1>0 DEF Executed, OnStack
<1>4. f \notin Parked /\ \A g \in Parked' : \/ g \in Parked /\ ctx'[g] = ctx[g]
                                            \/ g = f /\ ctx'[g] = c
  BY <1>0 DEF Parked
<1> QED
  BY <1>1, <1>2, <1>3, <1>4

\* The end of MainFunc(): a job that ends is nowhere else.
LEMMA FinishOnce ==
  ASSUME TypeOK, StatusInv, OnceInv, NEW t \in Threads, Finish(t)
  PROVE  OnceInv'
<1> DEFINE f == cur[t]
<1>0. /\ t \in OnStack /\ f \in Fibers /\ call[t] \in Callbacks /\ SwitchOut(t, "TERM", Over)
      /\ cb' = [cb EXCEPT ![f] = NoCall] /\ UNCHANGED <<jobs, started>>
  BY DEF Finish, At, OnStack, StatusInv, PlaceInv, Working
<1>1. /\ FewerTaken /\ FewerLoaded
      /\ Executed' \subseteq Executed \ {t} /\ \A u \in Executed' : call'[u] = call[u]
  BY <1>0, SwitchOnce, FiberTypes
<1>2. FewerParked
  <2>1. \A g \in Parked' : (g \in Parked /\ ctx'[g] = ctx[g]) \/ ctx'[g] = Over
    BY <1>0, SwitchOnce, FiberTypes
  <2>2. \A g \in Parked' : ctx'[g] # Over
    BY CallbackKinds DEF Parked
  <2> QED
    BY <2>1, <2>2 DEF FewerParked
<1>3. SameQueue
  <2>1. CASE call[t].kind = "job"
    BY <2>1 DEF Finish, SameQueue, Queued
  <2>2. CASE call[t].kind # "job"
    <3>1. Resume(call[t].fiber) \in Tasks /\ Resume(call[t].fiber).kind = "resume"
      BY <1>0, <2>2, CallbackKinds DEF Tasks
    <3>2. tasks' = Append(tasks, Resume(call[t].fiber))
      BY <2>2 DEF Finish
    <3> QED
      BY <3>1, <3>2, QueuedType DEF SameQueue, Queued
  <2> QED
    BY <2>1, <2>2
<1>4. FreshInv'
  BY <1>0, <1>1, <1>3, FreshShrinks DEF OnceInv
<1>5. CASE call[t].kind # "job"
  <2>1. done' = done /\ FewerExecuted
    BY <1>1, <1>5 DEF Finish, FewerExecuted
  <2> QED
    BY <1>0, <1>1, <1>2, <1>3, <2>1, OnceShrinks
<1>6. CASE call[t].kind = "job"
  <2> DEFINE j == call[t].job
  <2>1. t \in Executed /\ j \in Jobs /\ done' = [done EXCEPT ![j] = @ + 1]
    BY <1>0, <1>6, CallbackKinds DEF Finish, Executed
  <2>a. StartedInv /\ AtMostOnce
    BY DEF OnceInv
  <2>2. started[j] = 1 /\ done[j] = 0
    BY <2>1, <2>a DEF StartedInv
  <2>3. done'[j] = 1 /\ \A k \in Jobs : k # j => done'[k] = done[k]
    BY <2>1, <2>2 DEF TypeOK
  <2>4. \A u \in Executed' : /\ u \in Executed /\ call'[u] = call[u] /\ call[u].job # j
                             /\ call[u].job \in Jobs
    BY <1>1, <2>1, <2>a, LabelTypes DEF StartedInv
  <2>5. \A g \in Parked' : /\ g \in Parked /\ ctx'[g] = ctx[g] /\ ctx[g].job # j
                           /\ ctx[g].job \in Jobs
    BY <1>2, <2>1, <2>a, LabelTypes DEF StartedInv, FewerParked
  <2>6. StartedInv'
    BY <1>0, <2>3, <2>4, <2>5, <2>a DEF StartedInv
  <2>7. AtMostOnce'
    BY <1>0, <2>2, <2>3, <2>a DEF AtMostOnce
  <2> QED
    BY <1>0, <1>4, <2>6, <2>7 DEF OnceInv
<1> QED
  BY <1>5, <1>6

\* yield(): the job goes from the thread into the context of its fiber.
LEMMA YieldOnce ==
  ASSUME TypeOK, StatusInv, OnceInv, NEW t \in Threads, pc[t] = "yield",
         NEW s, SwitchOut(t, s, call[t]), UNCHANGED <<tasks, cb, jobs, started, done>>
  PROVE  OnceInv'
<1> DEFINE f == cur[t]
<1>0. t \in OnStack /\ call[t] \in Callbacks /\ t \in Executed
  BY DEF OnStack, StatusInv, PlaceInv, Executed
<1>1. /\ FewerTaken /\ FewerLoaded
      /\ Executed' \subseteq Executed \ {t} /\ \A u \in Executed' : call'[u] = call[u]
      /\ f \notin Parked
      /\ \A g \in Parked' : \/ g \in Parked /\ ctx'[g] = ctx[g]
                            \/ g = f /\ ctx'[g] = call[t]
  BY <1>0, SwitchOnce
<1>2. SameQueue
  BY DEF SameQueue, Queued
<1>3. FreshInv'
  BY <1>1, <1>2, FreshShrinks DEF OnceInv
<1>4. StartedInv'
  <2>a. StartedInv
    BY DEF OnceInv
  <2>1. \A u \in Executed' : u \in Executed /\ u # t /\ call'[u] = call[u]
    BY <1>1
  <2>2. \A u \in Executed' : started'[call'[u].job] = 1 /\ done'[call'[u].job] = 0
    BY <2>1, <2>a DEF StartedInv
  <2>3. \A u, v \in Executed' : call'[u].job = call'[v].job => u = v
    BY <2>1, <2>a DEF StartedInv
  <2>4. \A g \in Parked' : started'[ctx'[g].job] = 1 /\ done'[ctx'[g].job] = 0
    BY <1>0, <1>1, <2>a DEF StartedInv
  <2>5. \A g, h \in Parked' : ctx'[g].job = ctx'[h].job => g = h
    BY <1>0, <1>1, <2>a DEF StartedInv
  <2>6. \A u \in Executed', g \in Parked' : call'[u].job # ctx'[g].job
    BY <1>0, <1>1, <2>1, <2>a DEF StartedInv
  <2> QED
    BY <2>2, <2>3, <2>4, <2>5, <2>6 DEF StartedInv
<1> QED
  BY <1>3, <1>4 DEF OnceInv, AtMostOnce

LEMMA StepOnce ==
  ASSUME TypeOK, StatusInv, OnceInv, NEW t \in Threads, Step(t)
  PROVE  OnceInv'
<1> USE DEF poolVars, fiberVars, threadVars, logVars, At
<1>a. tasks' = tasks => SameQueue
  BY DEF SameQueue, Queued
<1>b. ASSUME UNCHANGED <<tasks, pc, call, cb, ctx, lock, jobs, started, done>> PROVE OnceInv'
  <2>1. SameQueue /\ FewerTaken /\ FewerLoaded /\ FewerExecuted /\ FewerParked
    BY <1>b DEF SameQueue, FewerTaken, FewerLoaded, FewerExecuted, FewerParked,
                Queued, Taken, Loaded, Executed, Parked, OnStack
  <2> QED
    BY <1>b, <2>1, OnceShrinks
<1>1. CASE Take(t)
  BY <1>1, TakeOnce
<1>2. CASE GoIdle(t) \/ PollNothing(t)
  <2>1. PICK p \in {"take", "idle"} : pc' = [pc EXCEPT ![t] = p]
    BY <1>2 DEF GoIdle, PollNothing, Goto
  <2> QED
    BY <1>a, <1>2, <2>1, OnceMoves DEF GoIdle, PollNothing
<1>3. ASSUME NEW w \in waits, Poll(t, w) PROVE OnceInv'
  <2>1. w.fiber \in Fibers
    BY DEF TypeOK, Waits
  <2>2. PICK c \in Tasks : c.kind # "job" /\ tasks' = Append(tasks, c)
    BY <1>3, <2>1, CallbackKinds DEF Poll, Tasks
  <2>3. SameQueue
    BY <2>2, QueuedType DEF SameQueue, Queued
  <2>4. pc' = [pc EXCEPT ![t] = "take"] /\ UNCHANGED <<call, cb, ctx, lock, jobs, started, done>>
    BY <1>3 DEF Poll, Goto
  <2> QED
    BY <2>3, <2>4, OnceMoves
<1>4. CASE Acquire(t)
  <2>1. CASE Abort
    BY <1>b, <2>1 DEF Abort
  <2>2. CASE ~Abort
    <3>1. /\ pc[t] = "acquire" /\ pc' = [pc EXCEPT ![t] = "rearm"]
          /\ UNCHANGED <<tasks, call, cb, ctx, lock, jobs, started, done>>
      BY <1>4, <2>2 DEF Acquire, Goto
    <3> QED
      BY <1>a, <3>1, OnceMoves
  <2> QED
    BY <2>1, <2>2
<1>5. CASE Rearm(t)
  BY <1>5, RearmOnce
<1>6. CASE Enter(t)
  BY <1>6, ResumeOnce DEF Enter
<1>7. CASE Rejoin(t)
  <2>1. CASE ResumeFiber(t)
    BY <1>7, <2>1, ResumeOnce DEF Rejoin
  <2>2. CASE ~ResumeFiber(t)
    <3>1. /\ pc' = [pc EXCEPT ![t] = "check"]
          /\ UNCHANGED <<tasks, call, cb, ctx, lock, jobs, started, done>>
      BY <1>7, <2>2 DEF Rejoin, Goto
    <3> QED
      BY <1>a, <3>1, OnceMoves
  <2> QED
    BY <2>1, <2>2
<1>8. CASE Finish(t)
  BY <1>8, FinishOnce
<1>9. CASE (\E b \in Blocking : Await(t, b)) \/ Suspend(t)
  <2>1. CASE pc' = pc
    BY <1>b, <1>9, <2>1 DEF Await, Suspend
  <2>2. CASE pc' # pc
    <3>1. /\ pc[t] = "run" /\ pc' = [pc EXCEPT ![t] = "yield"]
          /\ UNCHANGED <<tasks, call, cb, ctx, lock, jobs, started, done>>
      BY <1>9, <2>2 DEF Await, Suspend, Goto
    <3> QED
      BY <1>a, <3>1, OnceMoves
  <2> QED
    BY <2>1, <2>2
<1>10. CASE Yield(t)
  <2>1. CASE state[cur[t]] \notin {"RUNNING", "TERM"}
    BY <1>b, <1>10, <2>1 DEF Yield, Abort
  <2>2. CASE state[cur[t]] \in {"RUNNING", "TERM"}
    <3>1. PICK s : SwitchOut(t, s, call[t])
      BY <1>10, <2>2 DEF Yield
    <3> QED
      BY <1>10, <2>2, <3>1, YieldOnce DEF Yield
  <2> QED
    BY <2>1, <2>2
<1>11. CASE Check(t)
  <2>1. CASE pc' = pc
    BY <1>b, <1>11, <2>1 DEF Check
  <2>2. CASE pc' # pc
    <3>1. PICK p \in {"take", "reset"} : pc' = [pc EXCEPT ![t] = p]
      BY <1>11, <2>2 DEF Check, Goto
    <3> QED
      BY <1>a, <1>11, <3>1, OnceMoves DEF Check
  <2> QED
    BY <2>1, <2>2
<1>12. CASE Release(t)
  <2>1. /\ cur[t] \in Fibers /\ pc[t] = "reset" /\ pc' = [pc EXCEPT ![t] = "take"]
        /\ cb' = [cb EXCEPT ![cur[t]] = NoCall] /\ ctx' = [ctx EXCEPT ![cur[t]] = Start]
        /\ UNCHANGED <<tasks, call, lock, jobs, started, done>>
    BY <1>12 DEF Release, ResetTo, Goto, StatusInv, PlaceInv, Working
  <2>2. FewerTaken
    BY <2>1, FiberTypes DEF FewerTaken, Taken
  <2>3. FewerExecuted
    BY <2>1, FiberTypes DEF FewerExecuted, Executed, OnStack
  <2>4. FewerLoaded
    BY <2>1, FiberTypes, CallbackKinds DEF FewerLoaded, Loaded
  <2>5. FewerParked
    BY <2>1, FiberTypes, CallbackKinds DEF FewerParked, Parked
  <2> QED
    BY <1>a, <2>1, <2>2, <2>3, <2>4, <2>5, OnceShrinks
<1> QED
  BY <1>1, <1>2, <1>3, <1>4, <1>5, <1>6, <1>7, <1>8, <1>9, <1>10, <1>11, <1>12 DEF Step

\* The body of a job is entered at most once and ends at most once, in spite of
\* fibers that are woken late, released twice or reused: a job that was not
\* started is in one place, and so is one that was (fiberpool.cpp:53, fiber.cpp:193).
THEOREM FiberAtMostOnce == Spec => []AtMostOnce
<1>1. Init => OnceInv
  <2> SUFFICES ASSUME Init PROVE OnceInv
    OBVIOUS
  <2>1. Queued = {} /\ Taken = {} /\ Executed = {}
    BY DEF Init, Queued, Taken, Executed, OnStack
  <2>2. Loaded = {} /\ Parked = {}
    BY CallbackKinds DEF Init, Loaded, Parked
  <2>3. AtMostOnce /\ \A j \in Jobs : j > jobs => started[j] = 0
    BY DEF Init, AtMostOnce
  <2> QED
    BY <2>1, <2>2, <2>3 DEF OnceInv, FreshInv, StartedInv
<1>2. TypeInv /\ OnceInv /\ [Next]_vars => OnceInv'
  <2> SUFFICES ASSUME TypeInv, OnceInv, [Next]_vars PROVE OnceInv'
    OBVIOUS
  <2>1. CASE Schedule
    BY <2>1, ScheduleOnce DEF TypeInv
  <2>2. ASSUME NEW t \in Threads, Step(t) PROVE OnceInv'
    BY <2>2, StepOnce DEF TypeInv
  <2>3. CASE UNCHANGED vars
    <3>1. UNCHANGED <<tasks, pc, call, cb, ctx, lock, jobs, started, done>>
      BY <2>3 DEF vars, fiberVars, threadVars, logVars
    <3>2. SameQueue /\ FewerTaken /\ FewerLoaded /\ FewerExecuted /\ FewerParked
      BY <3>1 DEF SameQueue, FewerTaken, FewerLoaded, FewerExecuted, FewerParked,
                  Queued, Taken, Loaded, Executed, Parked, OnStack
    <3> QED
      BY <3>1, <3>2, OnceShrinks
  <2> QED
    BY <2>1, <2>2, <2>3 DEF Next
<1>3. OnceInv => AtMostOnce
  BY DEF OnceInv
<1> QED
  BY <1>1, <1>2, <1>3, AlwaysTypeInv, PTL DEF Spec

-----------------------------------------------------------------------------
(* Pooled fibers are unused as long as nothing waits                       *)

LEMMA QuietIsUnused == ASSUME QuietInv PROVE PooledIsUnused
<1> SUFFICES ASSUME blocked = {}
             PROVE  /\ \A t \in Threads : \A i \in DOMAIN idle[t] :
                         LET f == idle[t][i]
                         IN /\ state[f] = "READY" /\ cb[f] = NoCall /\ ctx[f] = Start
                            /\ \A u \in Threads : cur[u] # f
                    /\ \A t, u \in Threads : \A i \in DOMAIN idle[t], k \in DOMAIN idle[u] :
                         idle[t][i] = idle[u][k] => t = u /\ i = k
  BY DEF PooledIsUnused
<1>1. Quiet /\ Unused
  BY DEF QuietInv
<1>2. \A t \in Threads : \A i \in DOMAIN idle[t] : idle[t][i] \in Clean /\ idle[t][i][1] = t
  BY <1>1 DEF Quiet, Unused
<1>3. ASSUME NEW t \in Threads, NEW u \in Threads, NEW i \in DOMAIN idle[t], NEW k \in DOMAIN idle[u],
             idle[t][i] = idle[u][k]
      PROVE  t = u /\ i = k
  <2>1. t = u
    BY <1>2, <1>3
  <2> QED
    BY <1>1, <1>3, <2>1 DEF Unused
<1> QED
  BY <1>2, <1>3 DEF Clean

LEMMA InitQuiet == Init => QuietInv
<1> SUFFICES ASSUME Init PROVE Quiet /\ Unused
  BY DEF QuietInv
<1>1. TypeOK
  BY InitTypeOK
<1>2. \A t \in Threads : DOMAIN idle[t] = 1..PoolSize /\ \A i \in DOMAIN idle[t] : idle[t][i] = <<t, i>>
  BY DEF Init
<1>3. Quiet
  <2>1. \A t \in Threads : /\ call[t] = NoCall /\ pc[t] = "take" /\ cur[t] = NoFiber
                           /\ \A i \in DOMAIN idle[t] : idle[t][i][1] = t
    BY <1>2 DEF Init
  <2>2. \A f \in Fibers : cb[f] = NoCall /\ ctx[f] = Start /\ state[f] = "READY"
    BY DEF Init
  <2>3. waits = {} /\ DOMAIN tasks = {}
    BY DEF Init
  <2> QED
    BY <2>1, <2>2, <2>3 DEF Quiet, Working
<1>4. \A t \in Threads : \A i \in DOMAIN idle[t] : idle[t][i] \in Clean
  <2>1. Clean = Fibers
    BY NoFiberIsNone DEF Init, Clean
  <2> QED
    BY <1>1, <2>1 DEF TypeOK
<1> QED
  BY <1>2, <1>3, <1>4 DEF Unused

\* The pools and their fibers stay as they are.
LEMMA UnusedFrame ==
  ASSUME Unused, idle' = idle, \A f \in Clean : f \in Clean'
  PROVE  Unused'
BY DEF Unused

LEMMA StepQuiet ==
  ASSUME TypeInv, QuietInv, NEW t \in Threads, Step(t)
  PROVE  QuietInv'
<1> USE DEF poolVars, fiberVars, threadVars, logVars, At
<1> USE FiberTypes
<1> SUFFICES ASSUME blocked' = {} PROVE Quiet' /\ Unused'
  BY DEF QuietInv
<1>0. /\ TypeOK /\ StatusInv /\ PoolSuffices /\ StockInv
  BY DEF TypeInv
<1>z. blocked = {} /\ Quiet /\ Unused
  <2>1. blocked \subseteq blocked'
    BY DEF Step, Take, GoIdle, PollNothing, Poll, Acquire, Rearm, Enter, Rejoin, ResumeFiber, Finish,
           Await, Suspend, Yield, Check, Release, Abort
  <2> QED
    BY <2>1 DEF QuietInv
<1>c. ASSUME NEW u \in Threads PROVE cur[u] \in Fibers => cur[u] \notin Clean
  BY DEF Clean
<1>d. ASSUME UNCHANGED <<tasks, idle, state, cb, ctx, pc, cur, call, waits>> PROVE Quiet' /\ Unused'
  BY <1>z, <1>d DEF Quiet, Unused, Clean
<1>1. CASE Take(t)
  <2>1. /\ Head(tasks) \in Tasks /\ Head(tasks).kind = "job"
        /\ \A i \in DOMAIN tasks' : tasks'[i].kind = "job"
    BY <1>0, <1>z, <1>1, TakenType DEF Take, Quiet
  <2>2. /\ pc[t] = "take" /\ pc' = [pc EXCEPT ![t] = "acquire"] /\ call' = [call EXCEPT ![t] = Head(tasks)]
        /\ UNCHANGED <<idle, state, cb, ctx, cur, waits>>
    BY <1>1, <2>1 DEF Take, Goto
  <2>3. Quiet'
    BY <1>0, <1>z, <2>1, <2>2 DEF Quiet, Working
  <2> QED
    BY <1>z, <2>2, <2>3 DEF Unused, Clean
<1>2. CASE GoIdle(t) \/ PollNothing(t)
  <2>1. PICK p \in {"take", "idle"} : pc' = [pc EXCEPT ![t] = p]
    BY <1>2 DEF GoIdle, PollNothing, Goto
  <2>2. pc[t] \in {"take", "idle"} /\ UNCHANGED <<tasks, idle, state, cb, ctx, cur, call, waits>>
    BY <1>2 DEF GoIdle, PollNothing
  <2>3. Quiet'
    BY <1>0, <1>z, <2>1, <2>2 DEF Quiet, Working
  <2> QED
    BY <1>z, <2>2, <2>3 DEF Unused, Clean
<1>3. CASE Acquire(t)
  <2>1. idle[t] # <<>>
    BY <1>0, <1>3, StockLeft DEF Acquire
  <2>2. /\ Created(t) = idle[t] /\ Head(idle[t]) \in Fibers
    BY <1>0, <2>1, AcquiredType
  <2>3. CASE Abort
    BY <1>d, <2>3 DEF Abort
  <2>4. CASE ~Abort
    <3> DEFINE f == Head(idle[t])
    <3>1. /\ pc[t] = "acquire" /\ pc' = [pc EXCEPT ![t] = "rearm"] /\ cur' = [cur EXCEPT ![t] = f]
          /\ idle' = [idle EXCEPT ![t] = Tail(idle[t])]
          /\ UNCHANGED <<tasks, state, cb, ctx, call, waits>>
      BY <1>3, <2>2, <2>4 DEF Acquire, Goto
    <3>2. idle \in [Threads -> Seq(Fibers)]
      BY <1>0 DEF TypeOK
    <3>3. /\ 1 \in DOMAIN idle[t] /\ f = idle[t][1]
          /\ \A i \in DOMAIN idle'[t] : /\ i + 1 \in DOMAIN idle[t] /\ idle'[t][i] = idle[t][i + 1]
                                        /\ i + 1 # 1 /\ i \in Nat
      BY <2>1, <3>1, <3>2
    <3>4. f[1] = t
      BY <1>z, <3>3 DEF Quiet
    <3>5. \A u \in Threads \ {t} : idle'[u] = idle[u]
      BY <3>1, <3>2
    <3>6. \A u \in Threads : \A i \in DOMAIN idle'[u] : idle'[u][i][1] = u
      BY <1>z, <3>3, <3>5 DEF Quiet
    <3>7. Quiet'
      BY <1>0, <1>z, <3>1, <3>4, <3>6 DEF Quiet, Working
    <3>8. \A g \in Clean : g # f => g \in Clean'
      BY <1>0, <3>1 DEF Clean
    <3>9. ASSUME NEW u \in Threads, NEW i \in DOMAIN idle'[u]
          PROVE  /\ idle'[u][i] \in Clean'
                 /\ \A k \in DOMAIN idle'[u] : idle'[u][i] = idle'[u][k] => i = k
      <4>1. CASE u = t
        <5>1. idle[t][i + 1] \in Clean /\ idle[t][i + 1] # idle[t][1]
          BY <1>z, <3>3, <4>1 DEF Unused
        <5>2. ASSUME NEW k \in DOMAIN idle'[u], idle'[u][i] = idle'[u][k] PROVE i = k
          <6>1. i + 1 = k + 1
            BY <1>z, <3>3, <4>1, <5>2 DEF Unused
          <6> QED
            BY <3>3, <4>1, <6>1
        <5> QED
          BY <3>3, <3>8, <4>1, <5>1, <5>2
      <4>2. CASE u # t
        <5>1. idle'[u] = idle[u]
          BY <3>5, <4>2
        <5>2. idle[u][i] # f
          BY <1>z, <3>4, <4>2, <5>1 DEF Quiet
        <5>3. idle[u][i] \in Clean
          BY <1>z, <5>1 DEF Unused
        <5>4. \A k \in DOMAIN idle[u] : idle[u][i] = idle[u][k] => i = k
          BY <1>z, <5>1 DEF Unused
        <5> QED
          BY <3>8, <5>1, <5>2, <5>3, <5>4
      <4> QED
        BY <4>1, <4>2
    <3>10. Unused'
      BY <3>9 DEF Unused
    <3> QED
      BY <3>7, <3>10
  <2> QED
    BY <2>3, <2>4
<1>4. CASE Rearm(t)
  <2>1. /\ cur[t] \in Fibers /\ pc[t] = "rearm" /\ pc' = [pc EXCEPT ![t] = "enter"]
        /\ state' = [state EXCEPT ![cur[t]] = "READY"] /\ cb' = [cb EXCEPT ![cur[t]] = call[t]]
        /\ ctx' = [ctx EXCEPT ![cur[t]] = Start] /\ call' = [call EXCEPT ![t] = NoCall]
        /\ UNCHANGED <<tasks, idle, cur, waits>>
    BY <1>0, <1>4 DEF Rearm, ResetTo, Goto, StatusInv, PlaceInv, Working
  <2>2. Quiet'
    BY <1>0, <1>z, <2>1 DEF Quiet, Working
  <2>3. \A f \in Clean : f \in Clean'
    BY <1>0, <1>c, <2>1 DEF Clean
  <2> QED
    BY <1>z, <2>1, <2>2, <2>3, UnusedFrame
<1>5. CASE Enter(t)
  <2>1. CASE state[cur[t]] # "READY" \/ Entered(cur[t]) = NoCall
    BY <1>d, <1>5, <2>1 DEF Enter, ResumeFiber, Abort
  <2>2. CASE state[cur[t]] = "READY" /\ Entered(cur[t]) # NoCall
    <3>1. /\ cur[t] \in Fibers /\ pc[t] = "enter" /\ pc' = [pc EXCEPT ![t] = "run"]
          /\ state' = [state EXCEPT ![cur[t]] = "RUNNING"]
          /\ call' = [call EXCEPT ![t] = Entered(cur[t])]
          /\ UNCHANGED <<tasks, idle, cb, ctx, cur, waits>>
      BY <1>0, <1>5, <2>2 DEF Enter, ResumeFiber, Goto, StatusInv, PlaceInv, Working
    <3>2. Entered(cur[t]).kind = "job"
      <4>1. ctx[cur[t]] = Start
        BY <1>0, <1>z, <2>2, <3>1 DEF Quiet, StatusInv, OverInv
      <4> QED
        BY <1>z, <2>2, <3>1, <4>1 DEF Quiet, Entered
    <3>3. Quiet'
      BY <1>0, <1>z, <3>1, <3>2 DEF Quiet, Working
    <3>4. \A f \in Clean : f \in Clean'
      BY <1>0, <1>c, <3>1 DEF Clean
    <3> QED
      BY <1>z, <3>1, <3>3, <3>4, UnusedFrame
  <2> QED
    BY <2>1, <2>2 DEF StatusInv, PlaceInv
<1>6. CASE Finish(t)
  <2>1. /\ cur[t] \in Fibers /\ pc[t] = "run" /\ call[t].kind = "job"
    <3>1. cur[t] \in Fibers /\ pc[t] = "run" /\ call[t] \in Callbacks
      BY <1>0, <1>6 DEF Finish, StatusInv, PlaceInv, Working
    <3> QED
      BY <1>z, <3>1, OtherKinds DEF Quiet
  <2>2. /\ pc' = [pc EXCEPT ![t] = "check"]
        /\ state' = [state EXCEPT ![cur[t]] = "TERM"] /\ cb' = [cb EXCEPT ![cur[t]] = NoCall]
        /\ ctx' = [ctx EXCEPT ![cur[t]] = Over] /\ call' = [call EXCEPT ![t] = NoCall]
        /\ UNCHANGED <<tasks, idle, cur, waits>>
    BY <1>6, <2>1 DEF Finish, SwitchOut, Goto
  <2>3. Quiet'
    BY <1>0, <1>z, <2>1, <2>2 DEF Quiet, Working
  <2>4. \A f \in Clean : f \in Clean'
    BY <1>0, <1>c, <2>1, <2>2 DEF Clean
  <2> QED
    BY <1>z, <2>2, <2>3, <2>4, UnusedFrame
<1>7. CASE Check(t)
  <2>1. CASE pc' = pc
    BY <1>d, <1>7, <2>1 DEF Check
  <2>2. CASE pc' # pc
    <3>1. pc[t] = "check" /\ cur[t] \in Fibers
      BY <1>0, <1>7 DEF Check, StatusInv, PlaceInv, Working
    <3>2. state[cur[t]] # "SUSPEND"
      BY <1>z, <3>1 DEF Quiet
    <3>3. pc' = [pc EXCEPT ![t] = "reset"] /\ UNCHANGED <<tasks, idle, state, cb, ctx, cur, call, waits>>
      BY <1>7, <2>2, <3>2 DEF Check, Goto
    <3>4. Quiet'
      BY <1>0, <1>z, <3>1, <3>3 DEF Quiet, Working
    <3> QED
      BY <1>z, <3>3, <3>4 DEF Unused, Clean
  <2> QED
    BY <2>1, <2>2
<1>8. CASE Release(t)
  <2> DEFINE f == cur[t]
  <2>1. /\ f \in Fibers /\ pc[t] = "reset" /\ pc' = [pc EXCEPT ![t] = "take"]
        /\ state' = [state EXCEPT ![f] = "READY"] /\ cb' = [cb EXCEPT ![f] = NoCall]
        /\ ctx' = [ctx EXCEPT ![f] = Start] /\ cur' = [cur EXCEPT ![t] = NoFiber]
        /\ idle' = [idle EXCEPT ![t] = Append(idle[t], f)]
        /\ UNCHANGED <<tasks, call, waits>>
    BY <1>0, <1>8 DEF Release, ResetTo, Goto, StatusInv, PlaceInv, Working
  <2>2. f[1] = t
    BY <1>z, <2>1 DEF Quiet, Working
  <2>3. idle \in [Threads -> Seq(Fibers)]
    BY <1>0 DEF TypeOK
  <2>4. /\ DOMAIN idle'[t] = DOMAIN idle[t] \cup {Len(idle[t]) + 1}
        /\ Len(idle[t]) + 1 \notin DOMAIN idle[t] /\ idle'[t][Len(idle[t]) + 1] = f
        /\ \A i \in DOMAIN idle[t] : idle'[t][i] = idle[t][i]
    BY <2>1, <2>3
  <2>5. \A u \in Threads \ {t} : idle'[u] = idle[u]
    BY <2>1, <2>3
  <2>6. \A u \in Threads : \A i \in DOMAIN idle'[u] : idle'[u][i][1] = u
    BY <1>z, <2>2, <2>4, <2>5 DEF Quiet
  <2>7. Quiet'
    BY <1>0, <1>z, <2>1, <2>6 DEF Quiet, Working
  <2>8. \A u \in Threads \ {t} : cur[u] # f
    <3>1. \A u \in Threads \ {t} : cur[u] = NoFiber \/ cur[u][1] = u
      BY <1>z DEF Quiet
    <3> QED
      BY <2>1, <2>2, <3>1, NoFiberIsNone
  <2>9. f \in Clean'
    BY <1>0, <2>1, <2>8, NoFiberIsNone DEF Clean
  <2>10. f \notin Clean /\ \A g \in Clean : g \in Clean'
    BY <1>0, <1>c, <2>1, NoFiberIsNone DEF Clean
  <2>11. ASSUME NEW u \in Threads, NEW i \in DOMAIN idle'[u]
         PROVE  /\ idle'[u][i] \in Clean'
                /\ \A k \in DOMAIN idle'[u] : idle'[u][i] = idle'[u][k] => i = k
    <3>1. \A k \in DOMAIN idle[u] : /\ idle[u][k] \in Clean /\ idle[u][k] # f
                                    /\ \A l \in DOMAIN idle[u] : idle[u][k] = idle[u][l] => k = l
      BY <1>z, <2>10 DEF Unused
    <3>2. CASE u = t
      BY <2>4, <2>9, <2>10, <3>1, <3>2
    <3>3. CASE u # t
      BY <2>5, <2>10, <3>1, <3>3
    <3> QED
      BY <3>2, <3>3
  <2> QED
    BY <2>7, <2>11 DEF Unused
<1>9. ~Rejoin(t) /\ ~Yield(t) /\ ~Suspend(t) /\ ~(\E w \in waits : Poll(t, w))
      /\ ~(\E b \in Blocking : Await(t, b))
  <2>1. ~Rejoin(t) /\ ~Yield(t) /\ ~(\E w \in waits : Poll(t, w))
    BY <1>z DEF Quiet, Rejoin, Yield
  <2>2. ~Suspend(t) /\ ~(\E b \in Blocking : Await(t, b))
    BY DEF Suspend, Await
  <2> QED
    BY <2>1, <2>2
<1> QED
  BY <1>1, <1>2, <1>3, <1>4, <1>5, <1>6, <1>7, <1>8, <1>9 DEF Step

\* Until a job waits, a pool holds unused fibers only, each of them once
\* (fiberpool.cpp:49-55): nobody else ever works on the fibers of a thread.
THEOREM FiberPooledIsUnused == Spec => []PooledIsUnused
<1>1. TypeInv /\ QuietInv /\ [Next]_vars => QuietInv'
  <2> SUFFICES ASSUME TypeInv, QuietInv, [Next]_vars PROVE QuietInv'
    OBVIOUS
  <2>1. CASE Schedule
    <3>1. UNCHANGED <<idle, state, cb, ctx, pc, cur, call, waits, blocked>>
      BY <2>1 DEF Schedule, poolVars, fiberVars, threadVars
    <3>2. jobs + 1 \in Jobs /\ TypeOK
      <4>1. TypeOK /\ jobs < MaxJobs
        BY <2>1 DEF Schedule, TypeInv
      <4>2. jobs \in Nat /\ MaxJobs \in Nat
        BY <4>1, JobsType DEF TypeOK
      <4> QED
        BY <4>1, <4>2 DEF Jobs
    <3>3. Job(jobs + 1) \in Tasks /\ Job(jobs + 1).kind = "job"
      BY <3>2, CallbackKinds DEF Tasks
    <3>4. blocked = {} => \A i \in DOMAIN tasks' : tasks'[i].kind = "job"
      BY <2>1, <3>2, <3>3, QueuedType DEF Schedule, QuietInv, Quiet
    <3>5. Clean' = Clean
      BY <3>1 DEF Clean
    <3> QED
      BY <3>1, <3>4, <3>5 DEF QuietInv, Quiet, Unused
  <2>2. ASSUME NEW t \in Threads, Step(t) PROVE QuietInv'
    BY <2>2, StepQuiet
  <2>3. CASE UNCHANGED vars
    <3>1. UNCHANGED <<tasks, idle, state, cb, ctx, pc, cur, call, waits, blocked>>
      BY <2>3 DEF vars, poolVars, fiberVars, threadVars, logVars
    <3> QED
      BY <3>1 DEF QuietInv, Quiet, Unused, Clean
  <2> QED
    BY <2>1, <2>2, <2>3 DEF Next
<1> QED
  BY <1>1, InitQuiet, QuietIsUnused, AlwaysTypeInv, PTL DEF Spec
=============================================================================
