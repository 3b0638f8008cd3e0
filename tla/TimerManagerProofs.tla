------------------------- MODULE TimerManagerProofs -------------------------
(***************************************************************************)
(* Proofs about TimerManager, for every set of timers, users, pollers and  *)
(* delays and every setup: the types, that a one-shot timer fires once,    *)
(* that a cancelled timer has left the heap, that no plain timer is lost,  *)
(* and that no plain timer is overslept.                                   *)
(***************************************************************************)
EXTENDS TimerManager, TLAPS

\* A deadline lies one period after a moment that is not negative, and a callback
\* belongs to a timer that was created.
TypeInv == TypeOK /\ \A t \in Timers : ms[t] <= next[t] /\ (cb[t] => t \in used)

\* A timer is armed once in its life: when it is created.
OnceInv ==
  \A t \in Timers : /\ t \notin used => fires[t] = 0
                    /\ fires[t] <= 1
                    /\ fires[t] = 1 => ~cb[t]

\* Without reset() nothing is between an erase and an insert.
LiveInv == "reset" \notin use.ops => (\A t \in heap : cb[t]) /\ (\A u \in Users : moving[u] = NoMove)

Due(t) == cb[t] \/ t \in heap

\* Plain timers have deadlines of their own, so that find() finds the timer itself.
DistinctInv ==
  Plain => /\ \A t \in Timers : ~recurring[t]
           /\ \A t, o \in Timers : t # o /\ Due(t) /\ Due(o) => next[t] # next[o]

LostInv == DistinctInv /\ NoneLost

\* A wakeup is on its way, or a thread is going to look at the timers.
Attentive ==
  \/ pipe
  \/ \E u \in use.users : tickleDue[u]
  \/ \E p \in use.pollers : ppc[p] # "asleep"

\* A thread sleeps no longer than to the first deadline.
Covered == \E p \in use.pollers : ppc[p] = "asleep" /\ \A t \in heap : until[p] <= next[t]

\* m_tickled is set while somebody still has to answer for it, a user is in one
\* call at a time, and the period of a timer started in the past.
SleepInv ==
  /\ tickled => Attentive
  /\ \A u \in Users : moving[u] # NoMove => ~tickleDue[u]
  /\ ~use.setBack => \A t \in Timers : next[t] <= now + ms[t]
  /\ Plain => Attentive \/ Covered

-----------------------------------------------------------------------------
(* Lemmas                                                                  *)

LEMMA UseType ==
  ASSUME TypeOK
  PROVE  /\ use.users \subseteq Users /\ use.pollers \subseteq Pollers /\ use.pollers # {}
         /\ use.kinds \subseteq BOOLEAN /\ use.maxTime \in Nat
<1>1. use \in SetupType
  BY TimerAssumption DEF TypeOK
<1> QED
  BY <1>1 DEF SetupType

LEMMA Delay == ASSUME NEW d \in Delays PROVE d \in Nat
BY TimerAssumption

\* What reset() carries over its unlock.
LEMMA MovingType ==
  ASSUME TypeOK, NEW u \in Users, moving[u] # NoMove
  PROVE  /\ moving[u] \in [timer : used, ms : Delays, fromNow : BOOLEAN]
         /\ moving[u].timer \in used /\ moving[u].timer \in Timers /\ moving[u].ms \in Nat
<1>1. moving[u] \in [timer : used, ms : Delays, fromNow : BOOLEAN]
  BY DEF TypeOK
<1>2. moving[u].timer \in used /\ moving[u].ms \in Delays
  BY <1>1
<1> QED
  BY <1>1, <1>2, Delay DEF TypeOK

-----------------------------------------------------------------------------
(* Types                                                                   *)

LEMMA InitTypeInv == Init => TypeInv
<1> SUFFICES ASSUME Init PROVE TypeInv
  OBVIOUS
<1>0. use \in SetupType
  BY TimerAssumption DEF Init
<1>1. use.maxTime \in Nat
  BY <1>0 DEF SetupType
<1>2. moving \in [Users -> {NoMove} \cup [timer : used, ms : Delays, fromNow : BOOLEAN]]
  BY DEF Init
<1>3. now \in 0..use.maxTime /\ previous \in 0..use.maxTime
  BY <1>1 DEF Init
<1>4. /\ next \in [Timers -> Nat] /\ ms \in [Timers -> Nat] /\ fires \in [Timers -> Nat]
      /\ until \in [Pollers -> Nat]
  BY DEF Init
<1>5. TypeOK
  BY <1>2, <1>3, <1>4 DEF Init, TypeOK
<1> QED
  BY <1>5 DEF Init, TypeInv

\* A new deadline v of timer t with period d.
LEMMA DeadlineTypes ==
  ASSUME TypeInv, NEW t \in Timers, NEW d \in Nat, NEW v \in Nat, d <= v,
         next' = [next EXCEPT ![t] = v], ms' = [ms EXCEPT ![t] = d]
  PROVE  /\ next' \in [Timers -> Nat] /\ ms' \in [Timers -> Nat]
         /\ \A o \in Timers : ms'[o] <= next'[o]
BY DEF TypeInv, TypeOK

LEMMA UserTypeInv == ASSUME TypeInv, NEW u \in use.users, User(u) PROVE TypeInv'
<1> USE DEF timerVars, userVars, pollVars
<1>0. TypeOK /\ u \in Users /\ use.kinds \subseteq BOOLEAN /\ now \in Nat
  BY UseType DEF TypeInv, TypeOK
<1>1. CASE Tickle(u)
  <2>1. pipe' \in BOOLEAN /\ tickleDue' \in [Users -> BOOLEAN]
    BY <1>0, <1>1 DEF Tickle, TypeOK
  <2> QED
    BY <1>1, <2>1 DEF Tickle, TypeInv, TypeOK
<1>2. ASSUME NEW t \in Timers, NEW d \in Delays, NEW r \in use.kinds, AddTimer(u, t, d, r) PROVE TypeInv'
  <2>1. d \in Nat /\ now + d \in Nat /\ d <= now + d
    BY <1>0, Delay
  <2>2. next' = [next EXCEPT ![t] = now + d] /\ ms' = [ms EXCEPT ![t] = d]
    BY <1>2 DEF AddTimer, AddLocked
  <2>3. next' \in [Timers -> Nat] /\ ms' \in [Timers -> Nat] /\ \A o \in Timers : ms'[o] <= next'[o]
    BY <2>1, <2>2, DeadlineTypes
  <2>4. heap' \subseteq used' /\ used' \subseteq Timers /\ used \subseteq used'
    BY <1>0, <1>2 DEF AddTimer, AddLocked, Insert, TypeOK
  <2>5. recurring' \in [Timers -> BOOLEAN] /\ cb' \in [Timers -> BOOLEAN]
    BY <1>0, <1>2 DEF AddTimer, TypeOK
  <2>8. \A o \in Timers : cb'[o] => o \in used'
    BY <1>0, <1>2 DEF AddTimer, TypeInv, TypeOK
  <2>6. tickled' \in BOOLEAN /\ tickleDue' \in [Users -> BOOLEAN]
    BY <1>0, <1>2 DEF AddTimer, AddLocked, TypeOK, Front
  <2>7. moving' \in [Users -> {NoMove} \cup [timer : used', ms : Delays, fromNow : BOOLEAN]]
    <3>1. \A w \in Users : moving[w] \in {NoMove} \cup [timer : used', ms : Delays, fromNow : BOOLEAN]
      BY <1>0, <2>4 DEF TypeOK
    <3> QED
      BY <1>0, <1>2, <3>1 DEF AddTimer, TypeOK
  <2> QED
    BY <1>2, <2>3, <2>4, <2>5, <2>6, <2>7, <2>8 DEF AddTimer, TypeInv, TypeOK
<1>3. ASSUME NEW t \in Timers, Cancel(u, t) PROVE TypeInv'
  <2>1. heap' \subseteq used /\ cb' \in [Timers -> BOOLEAN]
    BY <1>0, <1>3 DEF Cancel, Erase, TypeOK
  <2>2. \A o \in Timers : cb'[o] => o \in used
    BY <1>0, <1>3 DEF Cancel, TypeInv, TypeOK
  <2> QED
    BY <1>3, <2>1, <2>2 DEF Cancel, TypeInv, TypeOK
<1>4. ASSUME NEW t \in Timers, Refresh(u, t) PROVE TypeInv'
  <2>0. t \in used
    BY <1>4 DEF Refresh, TypeInv
  <2>1. heap' \subseteq used
    BY <1>0, <1>4, <2>0 DEF Refresh, Insert, Erase, TypeOK
  <2>2. next' \in [Timers -> Nat] /\ \A o \in Timers : ms'[o] <= next'[o]
    BY <1>0, <1>4 DEF Refresh, TypeInv, TypeOK
  <2> QED
    BY <1>4, <2>1, <2>2 DEF Refresh, TypeInv, TypeOK
<1>5. ASSUME NEW t \in Timers, NEW d \in Delays, NEW fromNow \in BOOLEAN, ResetErase(u, t, d, fromNow)
      PROVE  TypeInv'
  <2>0. t \in used
    BY <1>5 DEF ResetErase, TypeInv
  <2>1. heap' \subseteq used
    BY <1>0, <1>5 DEF ResetErase, Erase, TypeOK
  <2>2. moving' \in [Users -> {NoMove} \cup [timer : used', ms : Delays, fromNow : BOOLEAN]]
    BY <1>0, <1>5, <2>0 DEF ResetErase, TypeOK
  <2> QED
    BY <1>5, <2>1, <2>2 DEF ResetErase, TypeInv, TypeOK
<1>6. CASE ResetInsert(u)
  <2> DEFINE m == moving[u]
             v == (IF m.fromNow THEN now ELSE next[m.timer] - ms[m.timer]) + m.ms
  <2>1. m # NoMove /\ ms' = [ms EXCEPT ![m.timer] = m.ms] /\ AddLocked(u, heap, m.timer, v)
        /\ moving' = [moving EXCEPT ![u] = NoMove]
        /\ UNCHANGED <<now, used, recurring, cb, previous, pollVars, pipe, fires, stuck, use>>
    BY <1>6 DEF ResetInsert
  <2>2. m.timer \in used /\ m.timer \in Timers /\ m.ms \in Nat
    BY <1>0, <2>1, MovingType
  <2>3. v \in Nat /\ m.ms <= v
    <3>1. /\ next[m.timer] \in Nat /\ ms[m.timer] \in Nat /\ ms[m.timer] <= next[m.timer]
      BY <2>2 DEF TypeInv, TypeOK
    <3> QED
      BY <1>0, <2>2, <3>1
  <2> HIDE DEF m, v
  <2>4. next' \in [Timers -> Nat] /\ ms' \in [Timers -> Nat] /\ \A o \in Timers : ms'[o] <= next'[o]
    BY <2>1, <2>2, <2>3, DeadlineTypes DEF AddLocked
  <2>5. heap' \subseteq used
    BY <1>0, <2>1, <2>2 DEF AddLocked, Insert, TypeOK
  <2>6. tickled' \in BOOLEAN /\ tickleDue' \in [Users -> BOOLEAN]
    BY <1>0, <2>1 DEF AddLocked, TypeOK, Front
  <2>7. moving' \in [Users -> {NoMove} \cup [timer : used', ms : Delays, fromNow : BOOLEAN]]
    BY <1>0, <2>1 DEF TypeOK
  <2> QED
    BY <1>0, <2>1, <2>4, <2>5, <2>6, <2>7 DEF TypeInv, TypeOK
<1> QED
  BY <1>1, <1>2, <1>3, <1>4, <1>5, <1>6 DEF User

LEMMA ListExpiredTypeInv == ASSUME TypeInv, NEW p \in use.pollers, ListExpired(p) PROVE TypeInv'
<1> USE DEF timerVars, userVars, pollVars
<1>0. TypeOK /\ p \in Pollers /\ now \in Nat
  BY UseType DEF TypeInv, TypeOK
<1>1. Expired \subseteq heap /\ Rearmed \subseteq heap
  BY DEF Expired, Rearmed
<1>2. heap' \subseteq used
  BY <1>0, <1>1 DEF ListExpired, TypeOK
<1>3. \A t \in Timers : now + ms[t] \in Nat /\ ms[t] <= now + ms[t]
  BY <1>0 DEF TypeOK
<1>4. next' \in [Timers -> Nat] /\ \A t \in Timers : ms'[t] <= next'[t]
  BY <1>0, <1>3 DEF ListExpired, TypeInv, TypeOK
<1>5. fires' \in [Timers -> Nat]
  BY <1>0 DEF ListExpired, TypeOK
<1>6. cb' \in [Timers -> BOOLEAN] /\ \A t \in Timers : cb'[t] => t \in used
  BY <1>0 DEF ListExpired, TypeInv, TypeOK
<1>7. ppc' \in [Pollers -> {"busy", "idle", "asleep", "woken", "tickled", "draining"}]
  BY <1>0 DEF ListExpired, TypeOK
<1>8. previous' \in 0..use.maxTime
  BY <1>0 DEF ListExpired, TypeOK
<1> QED
  BY <1>2, <1>4, <1>5, <1>6, <1>7, <1>8 DEF ListExpired, TypeInv, TypeOK

LEMMA PollerTypeInv == ASSUME TypeInv, NEW p \in use.pollers, Poller(p) PROVE TypeInv'
<1> USE DEF timerVars, userVars, pollVars
<1>0. TypeOK /\ p \in Pollers /\ now \in Nat /\ Cap \in Nat
  BY UseType, TimerAssumption DEF TypeInv, TypeOK
<1>1. CASE EnterIdle(p) \/ Wake(p) \/ Drain(p)
  <2>1. ppc' \in [Pollers -> {"busy", "idle", "asleep", "woken", "tickled", "draining"}] /\ pipe' \in BOOLEAN
    BY <1>0, <1>1 DEF EnterIdle, Wake, Drain, TypeOK
  <2> QED
    BY <1>1, <2>1 DEF EnterIdle, Wake, Drain, TypeInv, TypeOK
<1>2. CASE GetNextTimer(p)
  <2>1. PICK v \in {now + Cap} \cup {next[t] : t \in heap} : until' = [until EXCEPT ![p] = v]
    BY <1>2 DEF GetNextTimer
  <2>2. v \in Nat
    BY <1>0 DEF TypeOK
  <2>3. until' \in [Pollers -> Nat] /\ ppc' \in [Pollers -> {"busy", "idle", "asleep", "woken", "tickled", "draining"}]
    BY <1>0, <1>2, <2>1, <2>2 DEF GetNextTimer, TypeOK
  <2> QED
    BY <1>2, <2>3 DEF GetNextTimer, TypeInv, TypeOK
<1>3. CASE ListForever(p)
  BY <1>3 DEF ListForever, TypeInv, TypeOK
<1> QED
  BY <1>1, <1>2, <1>3, ListExpiredTypeInv DEF Poller

LEMMA NextTypeInv == TypeInv /\ [Next]_vars => TypeInv'
<1> SUFFICES ASSUME TypeInv, [Next]_vars PROVE TypeInv'
  OBVIOUS
<1> USE DEF timerVars, userVars, pollVars
<1>0. use.maxTime \in Nat
  BY UseType DEF TypeInv
<1>1. CASE ClockForward
  <2>1. now' \in 0..use.maxTime
    BY <1>0, <1>1 DEF ClockForward, TypeInv, TypeOK
  <2> QED
    BY <1>1, <2>1 DEF ClockForward, TypeInv, TypeOK
<1>2. CASE ClockSetBack
  <2>1. until' \in [Pollers -> Nat] /\ now' \in 0..use.maxTime
    BY <1>0, <1>2 DEF ClockSetBack, TypeInv, TypeOK
  <2> QED
    BY <1>2, <2>1 DEF ClockSetBack, TypeInv, TypeOK
<1>3. CASE UNCHANGED vars
  BY <1>3 DEF vars, TypeInv, TypeOK
<1> QED
  BY <1>1, <1>2, <1>3, UserTypeInv, PollerTypeInv DEF Next

LEMMA UseConstant == [Next]_vars => use' = use
<1> SUFFICES ASSUME [Next]_vars PROVE use' = use
  OBVIOUS
<1>1. ASSUME NEW u, User(u) PROVE use' = use
  BY <1>1 DEF User, Tickle, AddTimer, Cancel, Refresh, ResetErase, ResetInsert
<1>2. ASSUME NEW p, Poller(p) PROVE use' = use
  BY <1>2 DEF Poller, EnterIdle, GetNextTimer, Wake, ListExpired, ListForever, Drain
<1> QED
  BY <1>1, <1>2 DEF Next, vars, ClockForward, ClockSetBack

-----------------------------------------------------------------------------
(* One-shot timers fire once                                               *)

LEMMA InitOnceInv == Init => OnceInv
BY DEF Init, OnceInv

LEMMA NextOnceInv == TypeInv /\ OnceInv /\ [Next]_vars => OnceInv'
<1> SUFFICES ASSUME TypeInv, OnceInv, [Next]_vars PROVE OnceInv'
  OBVIOUS
<1> USE DEF timerVars
<1>a. used \subseteq Timers /\ heap \subseteq used /\ cb \in [Timers -> BOOLEAN] /\ fires \in [Timers -> Nat]
  BY DEF TypeInv, TypeOK
<1>b. ASSUME UNCHANGED <<used, cb, fires>> PROVE OnceInv'
  BY <1>b DEF OnceInv
<1>1. ASSUME NEW u, NEW t \in Timers, NEW d, NEW r, AddTimer(u, t, d, r) PROVE OnceInv'
  <2>1. t \notin used /\ fires[t] = 0 /\ used' = used \cup {t} /\ fires' = fires
    BY <1>1 DEF AddTimer, OnceInv
  <2>2. \A o \in Timers : cb'[o] <=> (o = t \/ cb[o])
    BY <1>a, <1>1 DEF AddTimer
  <2> QED
    BY <2>1, <2>2 DEF OnceInv
<1>2. ASSUME NEW u, NEW t \in Timers, Cancel(u, t) PROVE OnceInv'
  <2>1. \A o \in Timers : cb'[o] => cb[o]
    BY <1>a, <1>2 DEF Cancel
  <2> QED
    BY <1>2, <2>1 DEF Cancel, OnceInv
<1>3. ASSUME NEW u, User(u) PROVE OnceInv'
  BY <1>1, <1>2, <1>3, <1>b DEF User, Tickle, Refresh, ResetErase, ResetInsert
<1>4. ASSUME NEW p, ListExpired(p) PROVE OnceInv'
  <2> SUFFICES ASSUME NEW t \in Timers
               PROVE  /\ t \notin used => fires'[t] = 0
                      /\ fires'[t] <= 1
                      /\ fires'[t] = 1 => ~cb'[t]
    BY <1>4 DEF ListExpired, OnceInv
  <2>1. CASE t \in Expired /\ cb[t] /\ ~recurring[t]
    <3>1. fires[t] = 0
      BY <1>a, <2>1 DEF OnceInv
    <3>2. fires'[t] = 1 /\ ~cb'[t]
      <4>1. fires' = [o \in Timers |-> IF o \in Expired /\ cb[o] /\ ~recurring[o] THEN fires[o] + 1 ELSE fires[o]]
        BY <1>4 DEF ListExpired
      <4>2. fires'[t] = fires[t] + 1
        BY <2>1, <4>1
      <4>3. cb'[t] = (cb[t] /\ (t \in Expired => recurring[t]))
        BY <1>4 DEF ListExpired
      <4>4. ~cb'[t]
        BY <2>1, <4>3
      <4> QED
        BY <3>1, <4>2, <4>4
    <3>3. t \in used
      BY <2>1 DEF TypeInv
    <3> QED
      BY <3>2, <3>3
  <2>2. CASE ~(t \in Expired /\ cb[t] /\ ~recurring[t])
    <3>1. fires'[t] = fires[t] /\ (cb'[t] => cb[t])
      BY <1>4, <2>2 DEF ListExpired
    <3> QED
      BY <3>1 DEF OnceInv
  <2> QED
    BY <2>1, <2>2
<1>5. ASSUME NEW p, Poller(p) PROVE OnceInv'
  BY <1>4, <1>5, <1>b DEF Poller, EnterIdle, GetNextTimer, Wake, ListForever, Drain
<1> QED
  BY <1>3, <1>5, <1>b DEF Next, vars, ClockForward, ClockSetBack

-----------------------------------------------------------------------------
(* The heap holds live timers                                              *)

LEMMA InitLiveInv == Init => LiveInv
BY DEF Init, LiveInv

LEMMA NextLiveInv == TypeInv /\ LiveInv /\ [Next]_vars => LiveInv'
<1> SUFFICES ASSUME TypeInv, LiveInv, [Next]_vars, "reset" \notin use.ops
             PROVE  (\A t \in heap' : cb'[t]) /\ (\A u \in Users : moving'[u] = NoMove)
  BY UseConstant DEF LiveInv
<1> USE DEF timerVars, userVars
<1>a. /\ used \subseteq Timers /\ heap \subseteq used /\ cb \in [Timers -> BOOLEAN] /\ use.users \subseteq Users
      /\ \A t \in heap : cb[t]
      /\ \A u \in Users : moving[u] = NoMove
  BY UseType DEF TypeInv, TypeOK, LiveInv
<1> DEFINE Goal == (\A t \in heap' : cb'[t]) /\ (\A u \in Users : moving'[u] = NoMove)
<1>b. ASSUME UNCHANGED <<heap, cb, moving>> PROVE Goal
  BY <1>a, <1>b
<1>1. ASSUME NEW u, NEW t \in Timers, NEW d, NEW r, AddTimer(u, t, d, r) PROVE Goal
  <2>1. heap' \subseteq heap \cup {t} /\ \A o \in Timers : cb'[o] <=> (o = t \/ cb[o])
    BY <1>a, <1>1 DEF AddTimer, AddLocked, Insert
  <2> QED
    BY <1>a, <1>1, <2>1 DEF AddTimer
<1>2. ASSUME NEW u, NEW t \in Timers, Cancel(u, t) PROVE Goal
  <2>1. heap' \subseteq heap \ {t}
    BY <1>2 DEF Cancel, Erase, Same
  <2>2. \A o \in Timers : cb'[o] <=> (o # t /\ cb[o])
    BY <1>a, <1>2 DEF Cancel
  <2> QED
    BY <1>a, <1>2, <2>1, <2>2 DEF Cancel
<1>3. ASSUME NEW u, NEW t \in Timers, Refresh(u, t) PROVE Goal
  <2>1. heap' \subseteq heap \cup {t} /\ cb[t] /\ UNCHANGED <<cb, moving>>
    BY <1>3 DEF Refresh, Insert, Erase
  <2> QED
    BY <1>a, <2>1
<1>4. ASSUME NEW u \in use.users, User(u) PROVE Goal
  <2>1. ~ResetInsert(u) /\ \A t, d, f : ~ResetErase(u, t, d, f)
    BY <1>a DEF ResetInsert, ResetErase
  <2> QED
    BY <1>1, <1>2, <1>3, <1>4, <1>b, <2>1 DEF User, Tickle
<1>5. ASSUME NEW p, ListExpired(p) PROVE Goal
  <2>1. heap' = (heap \ Expired) \cup Rearmed /\ Rearmed \subseteq {t \in heap : recurring[t]}
    BY <1>5 DEF ListExpired, Rearmed, Expired
  <2>2. \A t \in Timers : cb'[t] <=> (cb[t] /\ (t \in Expired => recurring[t]))
    BY <1>5 DEF ListExpired
  <2> QED
    BY <1>a, <1>5, <2>1, <2>2 DEF ListExpired
<1>6. ASSUME NEW p, Poller(p) PROVE Goal
  BY <1>5, <1>6, <1>b DEF Poller, EnterIdle, GetNextTimer, Wake, ListForever, Drain
<1> QED
  BY <1>4, <1>6, <1>b DEF Next, vars, ClockForward, ClockSetBack

-----------------------------------------------------------------------------
(* No plain timer is lost                                                  *)

LEMMA InitLostInv == Init => LostInv
BY DEF Init, LostInv, DistinctInv, NoneLost, Due

\* What is in the heap or armed and has the deadline of t is t itself.
LEMMA OnlyItself ==
  ASSUME DistinctInv, Plain, NEW t \in Timers, Due(t), NEW o \in Timers, Due(o), next[o] = next[t]
  PROVE  o = t
BY DEF DistinctInv

\* A timer t gets a deadline that Allowed() permits; nothing else becomes due.
LEMMA NewDeadline ==
  ASSUME TypeInv, DistinctInv, Plain, NEW t \in Timers, NEW v \in Nat, Allowed(t, v),
         next' = [next EXCEPT ![t] = v],
         \A o \in Timers \ {t} : cb'[o] = cb[o] /\ (o \in heap' => o \in heap),
         \A o \in Timers : ~recurring'[o], UNCHANGED use
  PROVE  DistinctInv'
<1>1. \A o \in Timers \ {t} : Due(o)' => Due(o)
  BY DEF Due
<1>2. \A o \in Timers \ {t} : Due(o) => next[o] # v
  BY DEF Allowed, Due, Plain
<1>3. \A o \in Timers : next'[o] = IF o = t THEN v ELSE next[o]
  BY DEF TypeInv, TypeOK
<1> QED
  BY <1>1, <1>2, <1>3 DEF DistinctInv

\* insert() finds the deadline free, or taken by the timer itself.
LEMMA Inserted ==
  ASSUME Plain, NEW t \in Timers, NEW v, Allowed(t, v), NEW h \in SUBSET heap, heap \subseteq Timers
  PROVE  t \in Insert(h, next, t, v)
<1>1. CASE Same(h, next, v) = {}
  BY <1>1 DEF Insert
<1>2. CASE Same(h, next, v) # {}
  <2>1. PICK o \in h : next[o] = v
    BY <1>2 DEF Same
  <2>2. o = t
    BY <2>1 DEF Allowed, Plain
  <2> QED
    BY <1>2, <2>1, <2>2 DEF Insert
<1> QED
  BY <1>1, <1>2

LEMMA UserLostInv ==
  ASSUME TypeInv, LostInv, Plain, UNCHANGED use, NEW u \in use.users, User(u)
  PROVE  LostInv'
<1> USE DEF timerVars, userVars
<1>a. /\ TypeOK /\ used \subseteq Timers /\ heap \subseteq used /\ cb \in [Timers -> BOOLEAN]
      /\ u \in Users /\ now \in Nat
  BY UseType DEF TypeInv, TypeOK
<1>b. /\ DistinctInv /\ \A t \in Timers : ~recurring[t]
      /\ \A t \in Timers :
           cb[t] => t \in heap \/ \E w \in use.users : moving[w] # NoMove /\ moving[w].timer = t
  BY DEF LostInv, DistinctInv, NoneLost
<1>1. CASE Tickle(u)
  BY <1>b, <1>1 DEF Tickle, LostInv, DistinctInv, NoneLost, Due
<1>2. ASSUME NEW t \in Timers, NEW d \in Delays, NEW r \in use.kinds, AddTimer(u, t, d, r) PROVE LostInv'
  <2>1. /\ Allowed(t, now + d) /\ next' = [next EXCEPT ![t] = now + d]
        /\ heap' = Insert(heap, next, t, now + d) /\ UNCHANGED moving /\ now + d \in Nat
    BY <1>2, <1>a, Delay DEF AddTimer, AddLocked
  <2>2. \A o \in Timers \ {t} : cb'[o] = cb[o]
    BY <1>2, <1>a DEF AddTimer
  <2>3. heap' = heap \cup {t}
    BY <1>a, <1>b, <2>1, Inserted DEF Insert
  <2>4. \A o \in Timers : ~recurring'[o]
    <3>1. ~r
      BY DEF Plain
    <3>2. \A o \in Timers : recurring'[o] = IF o = t THEN r ELSE recurring[o]
      BY <1>a, <1>2 DEF AddTimer, TypeOK
    <3> QED
      BY <1>b, <3>1, <3>2
  <2>5. DistinctInv'
    BY <1>a, <1>b, <2>1, <2>2, <2>3, <2>4, NewDeadline
  <2>6. NoneLost'
    BY <1>a, <1>b, <2>1, <2>2, <2>3 DEF NoneLost
  <2> QED
    BY <2>5, <2>6 DEF LostInv
<1>3. ASSUME NEW t \in Timers, Cancel(u, t) PROVE LostInv'
  <2>1. cb[t] /\ heap' = heap \ Same(heap, next, next[t]) /\ UNCHANGED <<next, recurring, moving>>
    BY <1>3 DEF Cancel, Erase
  <2>2. heap' = heap \ {t}
    BY <1>a, <1>b, <2>1, OnlyItself DEF Same, Due
  <2>3. \A o \in Timers : cb'[o] <=> (o # t /\ cb[o])
    BY <1>a, <1>3 DEF Cancel
  <2>4. DistinctInv'
    BY <1>a, <1>b, <2>1, <2>2, <2>3 DEF DistinctInv, Due
  <2>5. NoneLost'
    BY <1>a, <1>b, <2>1, <2>2, <2>3 DEF NoneLost
  <2> QED
    BY <2>4, <2>5 DEF LostInv
<1>4. ASSUME NEW t \in Timers, Refresh(u, t) PROVE LostInv'
  <2>1. /\ cb[t] /\ Allowed(t, now + ms[t]) /\ next' = [next EXCEPT ![t] = now + ms[t]]
        /\ heap' = Insert(Erase(heap, next, t), next, t, now + ms[t]) /\ UNCHANGED <<cb, recurring, moving>>
        /\ now + ms[t] \in Nat
    BY <1>4, <1>a DEF Refresh, TypeOK
  <2>2. Erase(heap, next, t) = heap \ {t}
    BY <1>a, <1>b, <2>1, OnlyItself DEF Erase, Same, Due
  <2>3. t \in heap'
    BY <1>a, <1>b, <2>1, <2>2, Inserted
  <2>4. heap' = heap \cup {t}
    BY <2>1, <2>2, <2>3 DEF Insert
  <2>5. DistinctInv'
    BY <1>a, <1>b, <2>1, <2>4, NewDeadline
  <2>6. NoneLost'
    BY <1>a, <1>b, <2>1, <2>4 DEF NoneLost
  <2> QED
    BY <2>5, <2>6 DEF LostInv
<1>5. ASSUME NEW t \in Timers, NEW d \in Delays, NEW fromNow \in BOOLEAN, ResetErase(u, t, d, fromNow)
      PROVE  LostInv'
  <2>1. /\ cb[t] /\ heap' = heap \ Same(heap, next, next[t]) /\ UNCHANGED <<next, cb, recurring>>
        /\ moving' = [moving EXCEPT ![u] = [timer |-> t, ms |-> d, fromNow |-> fromNow]] /\ moving[u] = NoMove
    BY <1>5 DEF ResetErase, Erase, Free
  <2>2. heap' = heap \ {t}
    BY <1>a, <1>b, <2>1, OnlyItself DEF Same, Due
  <2>3. moving'[u].timer = t /\ moving'[u] # NoMove /\ \A w \in Users \ {u} : moving'[w] = moving[w]
    <3>1. moving'[u] = [timer |-> t, ms |-> d, fromNow |-> fromNow]
      BY <1>a, <2>1 DEF TypeOK
    <3>2. moving'[u] # NoMove
      BY <3>1, TimerAssumption
    <3> QED
      BY <1>a, <2>1, <3>1, <3>2 DEF TypeOK
  <2>4. DistinctInv'
    BY <1>a, <1>b, <2>1, <2>2 DEF DistinctInv, Due
  <2>5. NoneLost'
    <3> SUFFICES ASSUME NEW o \in Timers, cb[o]
                 PROVE  o \in heap' \/ \E w \in use.users : moving'[w] # NoMove /\ moving'[w].timer = o
      BY <2>1 DEF NoneLost
    <3>1. CASE o = t
      BY <2>3, <3>1
    <3>2. CASE o # t
      <4>1. CASE o \in heap
        BY <2>2, <3>2, <4>1
      <4>2. CASE o \notin heap
        <5>1. PICK w \in use.users : moving[w] # NoMove /\ moving[w].timer = o
          BY <1>b, <4>2
        <5>2. w # u /\ w \in Users
          BY <2>1, <5>1, UseType DEF TypeInv
        <5> QED
          BY <2>3, <5>1, <5>2
      <4> QED
        BY <4>1, <4>2
    <3> QED
      BY <3>1, <3>2
  <2> QED
    BY <2>4, <2>5 DEF LostInv
<1>6. CASE ResetInsert(u)
  <2> DEFINE t == moving[u].timer
             v == (IF moving[u].fromNow THEN now ELSE next[t] - ms[t]) + moving[u].ms
  <2>1. /\ moving[u] # NoMove /\ Allowed(t, v) /\ next' = [next EXCEPT ![t] = v]
        /\ heap' = Insert(heap, next, t, v) /\ UNCHANGED <<cb, recurring>>
        /\ moving' = [moving EXCEPT ![u] = NoMove]
    BY <1>6 DEF ResetInsert, AddLocked
  <2>2. t \in Timers /\ moving[u].ms \in Nat
    BY <1>a, <1>b, <2>1, MovingType
  <2>3. v \in Nat
    <3>1. next[t] \in Nat /\ ms[t] \in Nat /\ ms[t] <= next[t]
      BY <2>2 DEF TypeInv, TypeOK
    <3> QED
      BY <1>a, <1>b, <2>2, <3>1
  <2>4. \A w \in Users \ {u} : moving'[w] = moving[w]
    BY <2>1
  <2> HIDE DEF v
  <2>5. heap' = heap \cup {t}
    BY <1>a, <1>b, <2>1, <2>2, Inserted DEF Insert
  <2>6. DistinctInv'
    BY <1>a, <1>b, <2>1, <2>2, <2>3, <2>5, NewDeadline
  <2>7. NoneLost'
    BY <1>a, <1>b, <2>1, <2>4, <2>5, UseType DEF NoneLost
  <2> QED
    BY <2>6, <2>7 DEF LostInv
<1> QED
  BY <1>1, <1>2, <1>3, <1>4, <1>5, <1>6 DEF User

LEMMA NextLostInv == TypeInv /\ LostInv /\ [Next]_vars => LostInv'
<1> SUFFICES ASSUME TypeInv, LostInv, [Next]_vars, Plain PROVE LostInv'
  BY UseConstant DEF LostInv, DistinctInv, NoneLost, Plain
<1> USE DEF timerVars, userVars
<1>a. UNCHANGED use /\ heap \subseteq Timers
  BY UseConstant DEF TypeInv, TypeOK
<1>b. ASSUME UNCHANGED <<heap, next, recurring, cb, moving>> PROVE LostInv'
  BY <1>a, <1>b DEF LostInv, DistinctInv, NoneLost, Due, Plain
<1>1. ASSUME NEW p, ListExpired(p) PROVE LostInv'
  <2>1. \A t \in Timers : ~recurring[t]
    BY DEF LostInv, DistinctInv
  <2>2. heap' = heap \ Expired
    BY <1>1, <1>a, <2>1 DEF ListExpired, Rearmed, Expired
  <2>3. \A t \in Timers : (cb'[t] <=> cb[t] /\ t \notin Expired) /\ next'[t] = next[t]
    BY <1>1, <2>1 DEF ListExpired
  <2> QED
    BY <1>a, <1>1, <2>1, <2>2, <2>3 DEF ListExpired, LostInv, DistinctInv, NoneLost, Due, Plain
<1>2. ASSUME NEW p, Poller(p) PROVE LostInv'
  BY <1>1, <1>2, <1>b DEF Poller, EnterIdle, GetNextTimer, Wake, ListForever, Drain
<1> QED
  BY <1>2, <1>a, <1>b, UserLostInv DEF Next, vars, ClockForward, ClockSetBack

-----------------------------------------------------------------------------
(* No plain timer is overslept                                             *)

LEMMA InitSleepInv == Init => SleepInv
<1> SUFFICES ASSUME Init PROVE SleepInv
  OBVIOUS
<1>1. PICK p \in use.pollers : p \in Pollers
  BY InitTypeInv, UseType DEF TypeInv
<1>2. Attentive
  BY <1>1 DEF Init, Attentive
<1>3. \A t \in Timers : next[t] <= now + ms[t]
  BY DEF Init
<1> QED
  BY <1>2, <1>3 DEF SleepInv, Init

\* A deadline v within the period from now, or from an earlier start.
LEMMA StartInPast ==
  ASSUME TypeInv, SleepInv, NEW t \in Timers, NEW d \in Nat, NEW v \in Nat, v <= now + d,
         next' = [next EXCEPT ![t] = v], ms' = [ms EXCEPT ![t] = d], UNCHANGED <<now, use>>
  PROVE  ~use'.setBack => \A o \in Timers : next'[o] <= now' + ms'[o]
BY DEF TypeInv, TypeOK, SleepInv

\* insert() at the front of the heap leaves a tickle behind, or one is on its
\* way already; an insert behind the front does not matter to who sleeps.
LEMMA AddLockedSleeps ==
  ASSUME TypeInv, SleepInv, NEW u \in use.users, ~tickleDue[u], NEW t \in Timers, NEW v \in Nat,
         AddLocked(u, heap, t, v), UNCHANGED <<pipe, ppc, until, use>>
  PROVE  /\ tickled' => Attentive'
         /\ Plain' => Attentive' \/ Covered'
<1>0. /\ u \in Users /\ use.users \subseteq Users /\ use.pollers \subseteq Pollers /\ tickleDue \in [Users -> BOOLEAN]
      /\ next \in [Timers -> Nat] /\ heap \subseteq Timers /\ until \in [Pollers -> Nat]
  BY UseType DEF TypeInv, TypeOK
<1>1. /\ heap' \subseteq heap \cup {t} /\ next' = [next EXCEPT ![t] = v]
      /\ tickleDue' = [tickleDue EXCEPT ![u] = Front(heap, next, v) /\ ~tickled]
      /\ tickled' = (tickled \/ Front(heap, next, v))
  BY DEF AddLocked, Insert
<1>2. Attentive => Attentive'
  <2>1. \A w \in use.users : tickleDue[w] => tickleDue'[w]
    BY <1>0, <1>1
  <2> QED
    BY <2>1 DEF Attentive
<1>3. CASE Front(heap, next, v) /\ ~tickled
  <2>1. tickleDue'[u]
    BY <1>0, <1>1, <1>3
  <2> QED
    BY <2>1 DEF Attentive
<1>4. CASE tickled
  BY <1>2, <1>4 DEF SleepInv
<1>5. CASE ~Front(heap, next, v) /\ ~tickled
  <2>1. PICK o \in heap : next[o] < v
    BY <1>0, <1>5 DEF Front
  <2>2. Covered => Covered'
    <3> SUFFICES ASSUME NEW p \in use.pollers, ppc[p] = "asleep", \A x \in heap : until[p] <= next[x]
                 PROVE  \A x \in heap' : until[p] <= next'[x]
      BY DEF Covered
    <3>1. until[p] <= v
      BY <1>0, <2>1
    <3> QED
      BY <1>0, <1>1, <3>1
  <2>3. ~tickled'
    BY <1>1, <1>5
  <2> QED
    BY <1>2, <2>2, <2>3 DEF SleepInv, Plain
<1> QED
  BY <1>3, <1>4, <1>5

\* Steps after which a thread that is not asleep answers for everything.
LEMMA Awake ==
  ASSUME NEW p \in use'.pollers, ppc'[p] # "asleep"
  PROVE  Attentive'
BY DEF Attentive

\* Taking timers out, or moving them back, shortens nobody's sleep.
LEMMA StillCovered ==
  ASSUME TypeInv, Covered, UNCHANGED <<ppc, until, use>>, heap' \subseteq Timers,
         next' \in [Timers -> Nat],
         \A t \in heap' : \E o \in heap : next[o] <= next'[t]
  PROVE  Covered'
<1>1. PICK p \in use.pollers : ppc[p] = "asleep" /\ \A t \in heap : until[p] <= next[t]
  BY DEF Covered
<1>2. /\ until[p] \in Nat /\ next \in [Timers -> Nat] /\ heap \subseteq Timers
  BY UseType DEF TypeInv, TypeOK
<1>3. \A t \in heap' : until[p] <= next'[t]
  BY <1>1, <1>2
<1> QED
  BY <1>1, <1>3 DEF Covered

LEMMA UserSleepInv ==
  ASSUME TypeInv, SleepInv, UNCHANGED use, NEW u \in use.users, User(u)
  PROVE  SleepInv'
<1> USE DEF timerVars, userVars, pollVars
<1>0. /\ TypeOK /\ u \in Users /\ use.users \subseteq Users /\ use.pollers \subseteq Pollers
      /\ now \in Nat /\ moving \in [Users -> {NoMove} \cup [timer : used, ms : Delays, fromNow : BOOLEAN]]
      /\ tickleDue \in [Users -> BOOLEAN] /\ heap \subseteq Timers
      /\ next \in [Timers -> Nat] /\ ms \in [Timers -> Nat]
  BY UseType DEF TypeInv, TypeOK
<1>1. CASE Tickle(u)
  <2>1. Attentive'
    <3>1. PICK p \in use.pollers : p \in Pollers
      BY <1>0, UseType
    <3>2. CASE ppc[p] = "asleep"
      <4>1. pipe'
        BY <1>1, <3>1, <3>2 DEF Tickle
      <4> QED
        BY <4>1 DEF Attentive
    <3>3. CASE ppc[p] # "asleep"
      BY <1>1, <3>3 DEF Tickle, Attentive
    <3> QED
      BY <3>2, <3>3
  <2>2. \A w \in Users : tickleDue'[w] => tickleDue[w]
    BY <1>0, <1>1 DEF Tickle
  <2> QED
    BY <1>1, <2>1, <2>2 DEF Tickle, SleepInv
<1>2. ASSUME NEW t \in Timers, NEW d \in Delays, NEW r \in use.kinds, AddTimer(u, t, d, r) PROVE SleepInv'
  <2>1. /\ AddLocked(u, heap, t, now + d) /\ ~tickleDue[u] /\ moving[u] = NoMove
        /\ next' = [next EXCEPT ![t] = now + d] /\ ms' = [ms EXCEPT ![t] = d]
        /\ UNCHANGED <<now, moving, ppc, until, pipe>>
    BY <1>2 DEF AddTimer, Free, AddLocked
  <2>2. d \in Nat /\ now + d \in Nat /\ now + d <= now + d
    BY <1>0, Delay
  <2>3. ~use'.setBack => \A o \in Timers : next'[o] <= now' + ms'[o]
    BY <2>1, <2>2, StartInPast
  <2>4. (tickled' => Attentive') /\ (Plain' => Attentive' \/ Covered')
    BY <2>1, <2>2, AddLockedSleeps
  <2>5. \A w \in Users : moving'[w] # NoMove => ~tickleDue'[w]
    BY <1>0, <2>1 DEF AddLocked, SleepInv
  <2> QED
    BY <2>3, <2>4, <2>5 DEF SleepInv
\* Operations that only take timers out or move them back.
<1>3. ASSUME UNCHANGED <<now, ms, tickled, tickleDue, ppc, until, pipe>>, heap' \subseteq Timers,
             next' \in [Timers -> Nat], \A t \in heap' : \E o \in heap : next[o] <= next'[t],
             ~use.setBack => \A t \in Timers : next'[t] <= now + ms[t],
             \A w \in Users : moving'[w] # NoMove => ~tickleDue[w]
      PROVE  SleepInv'
  <2>1. Attentive' <=> Attentive
    BY <1>3 DEF Attentive
  <2>2. Plain' <=> Plain
    BY DEF Plain
  <2>3. Plain => Attentive' \/ Covered'
    BY <1>3, <2>1, StillCovered DEF SleepInv
  <2> QED
    BY <1>3, <2>1, <2>2, <2>3 DEF SleepInv
<1>4. ASSUME NEW t \in Timers, Cancel(u, t) PROVE SleepInv'
  <2>1. heap' \subseteq heap /\ UNCHANGED <<now, ms, next, tickled, tickleDue, moving, ppc, until, pipe>>
    BY <1>4 DEF Cancel, Erase
  <2>2. \A o \in heap' : \E x \in heap : next[x] <= next'[o]
    BY <1>0, <2>1
  <2> QED
    BY <1>0, <1>3, <2>1, <2>2 DEF SleepInv
<1>5. ASSUME NEW t \in Timers, Refresh(u, t) PROVE SleepInv'
  <2>1. /\ heap' \subseteq heap \cup {t} /\ next' = [next EXCEPT ![t] = now + ms[t]]
        /\ Same(heap, next, next[t]) # {}
        /\ UNCHANGED <<now, ms, tickled, tickleDue, moving, ppc, until, pipe>>
    BY <1>5 DEF Refresh, Erase, Insert
  <2>2. CASE use.setBack
    <3>1. ~Plain
      BY <2>2 DEF Plain
    <3>2. Attentive' <=> Attentive
      BY <2>1 DEF Attentive
    <3> QED
      BY <2>1, <2>2, <3>1, <3>2 DEF SleepInv, Plain
  <2>3. CASE ~use.setBack
    <3>1. now + ms[t] \in Nat /\ next[t] <= now + ms[t]
      BY <1>0, <2>3 DEF SleepInv
    <3>2. \A o \in heap' : \E x \in heap : next[x] <= next'[o]
      <4>1. PICK x \in heap : next[x] = next[t]
        BY <2>1 DEF Same
      <4>2. next[x] <= next'[t]
        BY <1>0, <2>1, <3>1, <4>1
      <4>3. \A o \in heap : o # t => next[o] <= next'[o]
        BY <1>0, <2>1
      <4> QED
        BY <1>0, <2>1, <4>2, <4>3
    <3>3. \A o \in Timers : next'[o] <= now + ms[o]
      BY <1>0, <2>1, <2>3, <3>1 DEF SleepInv
    <3>4. next' \in [Timers -> Nat] /\ heap' \subseteq Timers
      BY <1>0, <2>1, <3>1
    <3> QED
      BY <1>3, <2>1, <3>2, <3>3, <3>4 DEF SleepInv
  <2> QED
    BY <2>2, <2>3
<1>6. ASSUME NEW t \in Timers, NEW d \in Delays, NEW fromNow \in BOOLEAN, ResetErase(u, t, d, fromNow)
      PROVE  SleepInv'
  <2>1. /\ heap' \subseteq heap /\ UNCHANGED <<now, ms, next, tickled, tickleDue, ppc, until, pipe>>
        /\ ~tickleDue[u] /\ \A w \in Users \ {u} : moving'[w] = moving[w]
    BY <1>0, <1>6 DEF ResetErase, Erase, Free
  <2>2. \A o \in heap' : \E x \in heap : next[x] <= next'[o]
    BY <1>0, <2>1
  <2>3. \A w \in Users : moving'[w] # NoMove => ~tickleDue[w]
    BY <2>1 DEF SleepInv
  <2> QED
    BY <1>0, <1>3, <2>1, <2>2, <2>3 DEF SleepInv
<1>7. CASE ResetInsert(u)
  <2> DEFINE m == moving[u]
             v == (IF m.fromNow THEN now ELSE next[m.timer] - ms[m.timer]) + m.ms
  <2>1. /\ m # NoMove /\ ms' = [ms EXCEPT ![m.timer] = m.ms] /\ AddLocked(u, heap, m.timer, v)
        /\ moving' = [moving EXCEPT ![u] = NoMove]
        /\ next' = [next EXCEPT ![m.timer] = v]
        /\ UNCHANGED <<now, ppc, until, pipe>>
    BY <1>7 DEF ResetInsert, AddLocked
  <2>2. m.timer \in Timers /\ m.ms \in Nat /\ ~tickleDue[u]
    BY <1>0, <2>1, MovingType DEF SleepInv
  <2>3. v \in Nat
    <3>1. next[m.timer] \in Nat /\ ms[m.timer] \in Nat /\ ms[m.timer] <= next[m.timer]
      BY <2>2 DEF TypeInv, TypeOK
    <3> QED
      BY <1>0, <2>2, <3>1
  <2>4. ~use.setBack => v <= now + m.ms
    BY <1>0, <2>2 DEF SleepInv
  <2> HIDE DEF m, v
  <2>5. (tickled' => Attentive') /\ (Plain' => Attentive' \/ Covered')
    BY <2>1, <2>2, <2>3, AddLockedSleeps
  <2>6. ~use'.setBack => \A o \in Timers : next'[o] <= now' + ms'[o]
    BY <2>1, <2>2, <2>3, <2>4, StartInPast
  <2>7. \A w \in Users : moving'[w] # NoMove => ~tickleDue'[w]
    BY <1>0, <2>1 DEF AddLocked, SleepInv
  <2> QED
    BY <2>5, <2>6, <2>7 DEF SleepInv
<1> QED
  BY <1>1, <1>2, <1>4, <1>5, <1>6, <1>7 DEF User

LEMMA PollerSleepInv ==
  ASSUME TypeInv, SleepInv, UNCHANGED use, NEW p \in use.pollers, Poller(p)
  PROVE  SleepInv'
<1> USE DEF timerVars, userVars, pollVars
<1>0. /\ TypeOK /\ p \in Pollers /\ now \in Nat /\ Cap \in Nat /\ heap \subseteq Timers
      /\ ppc \in [Pollers -> {"busy", "idle", "asleep", "woken", "tickled", "draining"}]
      /\ next \in [Timers -> Nat] /\ ms \in [Timers -> Nat] /\ until \in [Pollers -> Nat]
  BY UseType, TimerAssumption DEF TypeInv, TypeOK
<1>1. CASE EnterIdle(p) \/ Wake(p) \/ Drain(p) \/ ListForever(p)
  <2>1. /\ ppc'[p] # "asleep" /\ UNCHANGED <<now, next, ms, moving, tickleDue>>
    BY <1>0, <1>1 DEF EnterIdle, Wake, Drain, ListForever
  <2> QED
    BY <2>1, Awake DEF SleepInv
<1>2. CASE ListExpired(p)
  <2>1. ppc'[p] # "asleep" /\ UNCHANGED <<now, ms, moving, tickleDue>>
    BY <1>0, <1>2 DEF ListExpired
  <2>2. ~use.setBack => \A t \in Timers : next'[t] <= now + ms[t]
    <3>1. \A t \in Timers : next'[t] = IF t \in Expired /\ recurring[t] THEN now + ms[t] ELSE next[t]
      BY <1>2 DEF ListExpired
    <3> QED
      BY <1>0, <3>1 DEF SleepInv
  <2> QED
    BY <2>1, <2>2, Awake DEF SleepInv
<1>3. CASE GetNextTimer(p)
  <2>1. PICK v \in {now + Cap} \cup {next[t] : t \in heap} :
          (\A t \in heap : v <= next[t]) /\ until' = [until EXCEPT ![p] = v]
    BY <1>3 DEF GetNextTimer
  <2>2. ppc'[p] = "asleep" /\ until'[p] = v /\ ~tickled' /\ UNCHANGED <<now, heap, next, ms, moving, tickleDue>>
    BY <1>0, <1>3, <2>1 DEF GetNextTimer
  <2>3. Covered'
    BY <2>1, <2>2 DEF Covered
  <2> QED
    BY <2>2, <2>3 DEF SleepInv
<1> QED
  BY <1>1, <1>2, <1>3 DEF Poller

LEMMA NextSleepInv == TypeInv /\ SleepInv /\ [Next]_vars => SleepInv'
<1> SUFFICES ASSUME TypeInv, SleepInv, [Next]_vars PROVE SleepInv'
  OBVIOUS
<1> USE DEF timerVars, userVars, pollVars
<1>0. UNCHANGED use /\ now \in Nat /\ next \in [Timers -> Nat] /\ ms \in [Timers -> Nat]
  BY UseConstant, UseType DEF TypeInv, TypeOK
<1>1. CASE ClockForward
  <2>1. /\ UNCHANGED <<heap, next, ms, tickled, moving, tickleDue, ppc, until, pipe>> /\ now' = now + 1
    BY <1>1 DEF ClockForward
  <2>2. (Attentive' <=> Attentive) /\ (Covered' <=> Covered) /\ (Plain' <=> Plain)
    BY <1>0, <2>1 DEF Attentive, Covered, Plain
  <2>3. ~use.setBack => \A t \in Timers : next[t] <= now' + ms[t]
    BY <1>0, <2>1 DEF SleepInv
  <2> QED
    BY <1>0, <2>1, <2>2, <2>3 DEF SleepInv
<1>2. CASE ClockSetBack
  <2>1. use.setBack /\ ~Plain /\ ~Plain' /\ UNCHANGED <<tickled, moving, tickleDue, ppc, pipe>>
    BY <1>0, <1>2 DEF ClockSetBack, Plain
  <2>2. Attentive' <=> Attentive
    BY <1>0, <2>1 DEF Attentive
  <2> QED
    BY <1>0, <2>1, <2>2 DEF SleepInv
<1>3. CASE UNCHANGED vars
  <2>1. (Attentive' <=> Attentive) /\ (Covered' <=> Covered) /\ (Plain' <=> Plain)
    BY <1>3 DEF vars, Attentive, Covered, Plain
  <2> QED
    BY <1>3, <2>1 DEF vars, SleepInv
<1> QED
  BY <1>0, <1>1, <1>2, <1>3, UserSleepInv, PollerSleepInv DEF Next

-----------------------------------------------------------------------------
(* Timers that do not recur implement OneShot                              *)

LEMMA CallbacksQuiet ==
  ASSUME UNCHANGED <<used, recurring, cb, fires>>
  PROVE  UNCHANGED Callbacks!shotVars
BY DEF Waiting, GivenUp, Callbacks!shotVars

\* A timer that is not used yet is neither waiting nor given up.
LEMMA CallbacksArm ==
  ASSUME TypeInv, OnceInv, NEW u, NEW t \in Timers, NEW d, NEW r \in BOOLEAN, AddTimer(u, t, d, r)
  PROVE  [Callbacks!ShotNext]_(Callbacks!shotVars)
<1>1. /\ used \subseteq Timers /\ recurring \in [Timers -> BOOLEAN] /\ cb \in [Timers -> BOOLEAN]
      /\ t \notin used /\ ~cb[t] /\ fires[t] = 0
  BY DEF TypeInv, TypeOK, OnceInv, AddTimer
<1>2. used' = used \cup {t} /\ fires' = fires
  BY DEF AddTimer
<1>3. /\ cb'[t] = TRUE /\ recurring'[t] = r
      /\ \A o \in Timers \ {t} : cb'[o] = cb[o] /\ recurring'[o] = recurring[o]
  BY <1>1 DEF AddTimer
<1>4. GivenUp' = GivenUp /\ t \notin Waiting \cup GivenUp
  <2>1. ASSUME NEW o \in Timers PROVE o \in GivenUp' <=> o \in GivenUp
    BY <1>1, <1>2, <1>3 DEF GivenUp
  <2> QED
    BY <1>1, <1>2, <2>1 DEF GivenUp, Waiting
<1>5. CASE r
  <2>1. ASSUME NEW o \in Timers PROVE o \in Waiting' <=> o \in Waiting
    BY <1>1, <1>3, <1>5 DEF Waiting
  <2>2. Waiting' = Waiting
    BY <2>1 DEF Waiting
  <2> QED
    BY <1>2, <1>4, <2>2 DEF Callbacks!shotVars
<1>6. CASE ~r
  <2>1. ASSUME NEW o \in Timers PROVE o \in Waiting' <=> o \in Waiting \/ o = t
    BY <1>1, <1>3, <1>6 DEF Waiting
  <2>2. Waiting' = Waiting \cup {t}
    BY <2>1 DEF Waiting
  <2>3. Callbacks!Arm(t)
    BY <1>1, <1>2, <1>4, <2>2 DEF Callbacks!Arm
  <2> QED
    BY <2>3 DEF Callbacks!ShotNext
<1> QED
  BY <1>5, <1>6

\* A callback that is still set was not handed out, so cancel() drops it.
LEMMA CallbacksDrop ==
  ASSUME TypeInv, OnceInv, NEW u, NEW t \in Timers, Cancel(u, t)
  PROVE  [Callbacks!ShotNext]_(Callbacks!shotVars)
<1>1. /\ used \subseteq Timers /\ cb \in [Timers -> BOOLEAN] /\ fires \in [Timers -> Nat]
      /\ cb[t] /\ t \in used
  BY DEF TypeInv, TypeOK, Cancel
<1>2. fires[t] = 0
  BY <1>1 DEF OnceInv
<1>3. UNCHANGED <<used, recurring, fires>> /\ ~cb'[t] /\ \A o \in Timers \ {t} : cb'[o] = cb[o]
  BY <1>1 DEF Cancel
<1>4. CASE recurring[t]
  <2>1. Waiting' = Waiting
    BY <1>3, <1>4 DEF Waiting
  <2>2. GivenUp' = GivenUp
    BY <1>1, <1>3, <1>4 DEF GivenUp
  <2> QED
    BY <1>3, <2>1, <2>2 DEF Callbacks!shotVars
<1>5. CASE ~recurring[t]
  <2>1. Waiting' = Waiting \ {t} /\ t \in Waiting
    BY <1>1, <1>3, <1>5 DEF Waiting
  <2>2. ASSUME NEW o \in Timers PROVE o \in GivenUp' <=> o \in GivenUp \/ o = t
    BY <1>1, <1>2, <1>3, <1>5 DEF GivenUp
  <2>3. GivenUp' = GivenUp \cup {t}
    BY <1>1, <1>3, <2>2 DEF GivenUp
  <2>4. Callbacks!Drop(t)
    BY <1>3, <2>1, <2>3 DEF Callbacks!Drop
  <2> QED
    BY <2>4 DEF Callbacks!ShotNext
<1> QED
  BY <1>4, <1>5

\* listExpiredCb() hands out the callbacks that are set and clears them; what it
\* takes out of the heap without a callback stays given up.
LEMMA CallbacksFire ==
  ASSUME TypeInv, NEW p, ListExpired(p)
  PROVE  Callbacks!ShotNext
<1> DEFINE S == {t \in Timers : t \in Expired /\ cb[t] /\ ~recurring[t]}
<1>1. used \subseteq Timers /\ fires \in [Timers -> Nat]
  BY DEF TypeInv, TypeOK
<1>2. /\ fires' = [t \in Timers |-> IF t \in Expired /\ cb[t] /\ ~recurring[t] THEN fires[t] + 1 ELSE fires[t]]
      /\ cb' = [t \in Timers |-> cb[t] /\ (t \in Expired => recurring[t])]
      /\ UNCHANGED <<used, recurring>>
  BY DEF ListExpired
<1>3. S \in SUBSET Waiting
  BY DEF Waiting
<1>4. Waiting' = Waiting \ S
  BY <1>2 DEF Waiting
<1>5. GivenUp' = GivenUp
  <2>1. ASSUME NEW t \in S PROVE t \notin GivenUp /\ t \notin GivenUp'
    <3>1. fires'[t] = fires[t] + 1 /\ fires[t] \in Nat
      BY <1>1, <1>2
    <3>2. fires'[t] # 0
      BY <3>1
    <3> QED
      BY <3>2 DEF GivenUp
  <2>2. ASSUME NEW t \in Timers, t \notin S PROVE t \in GivenUp' <=> t \in GivenUp
    <3>1. fires'[t] = fires[t]
      BY <1>2, <2>2
    <3>2. ~recurring[t] => (cb'[t] <=> cb[t])
      BY <1>2, <2>2
    <3> QED
      BY <1>2, <3>1, <3>2 DEF GivenUp
  <2> QED
    BY <1>1, <1>2, <2>1, <2>2 DEF GivenUp
<1>6. Callbacks!Fire(S)
  BY <1>2, <1>4, <1>5 DEF Callbacks!Fire
<1> QED
  BY <1>3, <1>6 DEF Callbacks!ShotNext

LEMMA CallbacksStep ==
  TypeInv /\ OnceInv /\ [Next]_vars => [Callbacks!ShotNext]_(Callbacks!shotVars)
<1> SUFFICES ASSUME TypeInv, OnceInv, [Next]_vars PROVE [Callbacks!ShotNext]_(Callbacks!shotVars)
  OBVIOUS
<1>0. use.kinds \subseteq BOOLEAN
  BY UseType DEF TypeInv
<1>1. CASE UNCHANGED vars \/ ClockForward \/ ClockSetBack
  BY <1>1, CallbacksQuiet DEF vars, ClockForward, ClockSetBack, timerVars
<1>2. ASSUME NEW u, User(u) PROVE [Callbacks!ShotNext]_(Callbacks!shotVars)
  <2>1. CASE \E t \in Timers, d \in Delays, r \in use.kinds : AddTimer(u, t, d, r)
    BY <1>0, <2>1, CallbacksArm
  <2>2. CASE \E t \in Timers : Cancel(u, t)
    BY <2>2, CallbacksDrop
  <2>3. CASE \/ Tickle(u) \/ ResetInsert(u)
             \/ \E t \in Timers : Refresh(u, t) \/ \E d \in Delays, fromNow \in BOOLEAN : ResetErase(u, t, d, fromNow)
    <3>1. UNCHANGED <<used, recurring, cb, fires>>
      BY <2>3 DEF Tickle, ResetInsert, Refresh, ResetErase, timerVars
    <3> QED
      BY <3>1, CallbacksQuiet
  <2> QED
    BY <1>2, <2>1, <2>2, <2>3 DEF User
<1>3. ASSUME NEW p, Poller(p) PROVE [Callbacks!ShotNext]_(Callbacks!shotVars)
  <2>1. CASE ListExpired(p)
    BY <2>1, CallbacksFire
  <2>2. CASE EnterIdle(p) \/ GetNextTimer(p) \/ Wake(p) \/ ListForever(p) \/ Drain(p)
    <3>1. UNCHANGED <<used, recurring, cb, fires>>
      BY <2>2 DEF EnterIdle, GetNextTimer, Wake, ListForever, Drain, timerVars
    <3> QED
      BY <3>1, CallbacksQuiet
  <2> QED
    BY <1>3, <2>1, <2>2 DEF Poller
<1> QED
  BY <1>1, <1>2, <1>3 DEF Next

-----------------------------------------------------------------------------
(* Theorems                                                                *)

\* Every variable keeps its type; the deadlines of timer.cpp never become negative,
\* although reset() computes the start of a period by subtraction.
THEOREM TimerTypeInv == Spec => []TypeInv
BY InitTypeInv, NextTypeInv, PTL DEF Spec

\* The callback of a one-shot timer is handed out at most once, with any number of
\* users and pollers, equal deadlines and a clock that is set back.
THEOREM TimerFiresOnce == Spec => []FiresOnce
<1>1. OnceInv => FiresOnce
  BY DEF OnceInv, FiresOnce
<1> QED
  BY <1>1, TimerTypeInv, InitOnceInv, NextOnceInv, PTL DEF Spec

\* Without reset(), a timer that was cancelled or has fired is not in m_timers.
THEOREM TimerHeapIsLive == Spec => []HeapIsLive
<1>1. LiveInv => HeapIsLive
  BY DEF LiveInv, HeapIsLive
<1> QED
  BY <1>1, TimerTypeInv, InitLiveInv, NextLiveInv, PTL DEF Spec

\* One-shot timers with distinct deadlines stay in m_timers until they fire or are
\* cancelled, whatever threads interleave addTimer(), cancel(), refresh(), the two
\* halves of reset() and listExpiredCb().
THEOREM TimerNoneLost == Spec => []NoneLost
<1>1. LostInv => NoneLost
  BY DEF LostInv
<1> QED
  BY <1>1, TimerTypeInv, InitLostInv, NextLostInv, PTL DEF Spec

\* One tickle between two calls of getNextTimer() is enough: no thread of the
\* scheduler sleeps past the first deadline unless a wakeup is on its way.
THEOREM TimerNotOverslept == Spec => []NotOverslept
<1>1. SleepInv => NotOverslept
  BY DEF SleepInv, NotOverslept, Attentive, Covered
<1> QED
  BY <1>1, TimerTypeInv, InitSleepInv, NextSleepInv, PTL DEF Spec

\* addTimer(), cancel(), refresh(), the two halves of reset() and listExpiredCb()
\* implement OneShot for the timers that do not recur, with equal deadlines and a
\* clock that is set back: a callback is armed once, then handed out or cancelled.
THEOREM TimerRefinesOneShot == Spec => CallbackRefinement
<1>1. Init => Callbacks!ShotInit
  BY DEF Init, Callbacks!ShotInit, Waiting, GivenUp
<1> QED
  BY <1>1, TimerTypeInv, InitOnceInv, NextOnceInv, CallbacksStep, PTL
     DEF Spec, CallbackRefinement, Callbacks!ShotSpec
=============================================================================
