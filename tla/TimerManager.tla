---------------------------- MODULE TimerManager ----------------------------
(***************************************************************************)
(* Timers of co-pro/corotinue-fiber-pool (timer.h, timer.cpp) and the idle *)
(* threads of ioscheduler.cpp that sleep until the next one.               *)
(*                                                                         *)
(* m_timers is a std::set ordered by m_next alone, so two timers with one  *)
(* deadline are the same element to it: insert() drops the second, find()  *)
(* finds the other one.  Operations run under the write lock and are one   *)
(* action; Timer::reset() unlocks between erase and insert and takes two,  *)
(* and addTimer() tickles after its unlock.                                *)
(*                                                                         *)
(* now is the system clock in abstract ticks; it may be set back.  Slack   *)
(* stands for the hour of detectClockRollover() and Cap for the 5 s that   *)
(* idle() sleeps at most.                                                  *)
(***************************************************************************)
EXTENDS Integers, FiniteSets

CONSTANTS Timers,   \* identities of Timer objects
          Users,    \* threads that add, cancel, refresh and reset timers
          Pollers,  \* threads of the scheduler
          Delays,   \* the ms arguments
          Setups,   \* the ways in which programs use timers
          Slack, Cap

\* users and pollers, at least one, there are, the recurring arguments and the operations
\* users call, whether two timers may get one deadline and the clock may be set
\* back, and the bound of the clock and of the deadlines of new timers.
SetupType == [users : SUBSET Users, pollers : (SUBSET Pollers) \ {{}}, kinds : SUBSET BOOLEAN,
              ops : SUBSET {"cancel", "refresh", "reset"}, ties : BOOLEAN, setBack : BOOLEAN,
              maxTime : Nat]

NoMove == [timer |-> "none", ms |-> 0, fromNow |-> FALSE]

ASSUME TimerAssumption ==
  /\ NoMove.timer \notin Timers
  /\ Delays \subseteq Nat
  /\ Setups \subseteq SetupType
  /\ Slack \in Nat \ {0} /\ Cap \in Nat \ {0}

VARIABLES now,       \* system_clock::now()
          heap,      \* m_timers
          used,      \* timers that have been created
          next,      \* Timer::m_next
          ms,        \* Timer::m_ms
          recurring, \* Timer::m_recurring
          cb,        \* is Timer::m_cb set?
          tickled,   \* m_tickled
          previous,  \* m_previouseTime
          moving,    \* the reset() call of a user between its erase and its insert
          tickleDue, \* the user left addTimer()'s lock and calls onTimerInsertedAtFront()
          ppc,       \* where each poller is
          until,     \* when a sleeping poller's epoll_wait times out
          pipe,      \* a tickle is waiting in the pipe
          fires,     \* how often each one-shot timer's callback was handed out
          stuck,     \* a poller is in listExpiredCb() for ever
          use        \* the setup of this program, which never changes

timerVars == <<heap, used, next, ms, recurring, cb>>
userVars  == <<moving, tickleDue>>
pollVars  == <<ppc, until>>
vars == <<now, timerVars, tickled, previous, userVars, pollVars, pipe, fires, stuck, use>>

Init ==
  /\ now = 0
  /\ heap = {} /\ used = {}
  /\ next = [t \in Timers |-> 0]
  /\ ms = [t \in Timers |-> 0]
  /\ recurring = [t \in Timers |-> FALSE]
  /\ cb = [t \in Timers |-> FALSE]
  /\ tickled = FALSE
  /\ previous = 0
  /\ moving = [u \in Users |-> NoMove]
  /\ tickleDue = [u \in Users |-> FALSE]
  /\ ppc = [p \in Pollers |-> "busy"]
  /\ until = [p \in Pollers |-> 0]
  /\ pipe = FALSE
  /\ fires = [t \in Timers |-> 0]
  /\ stuck = FALSE
  /\ use \in Setups

\* The lock is never free again once a poller is stuck under it.
Free(u) == moving[u] = NoMove /\ ~tickleDue[u] /\ ~stuck

\* The elements of a set of timers with deadlines d equivalent to deadline v.
Same(h, d, v) == {t \in h : d[t] = v}

\* m_timers.insert(t), t's deadline being v.
Insert(h, d, t, v) == IF Same(h, d, v) = {} THEN h \cup {t} ELSE h

\* m_timers.erase(m_timers.find(t)).
Erase(h, d, t) == h \ Same(h, d, d[t])

Front(h, d, v) == \A t \in h : v <= d[t]

\* addTimer(timer): insert, and tickle if the new element is the first one and
\* nobody has tickled since the last getNextTimer().
AddLocked(u, h, t, v) ==
  /\ heap' = Insert(h, next, t, v)
  /\ next' = [next EXCEPT ![t] = v]
  /\ tickleDue' = [tickleDue EXCEPT ![u] = Front(h, next, v) /\ ~tickled]
  /\ tickled' = (tickled \/ Front(h, next, v))

\* Deadlines a run lets arise.
Allowed(t, v) == v <= use.maxTime /\ (use.ties \/ \A o \in Timers \ {t} : (cb[o] \/ o \in heap) => next[o] # v)

-----------------------------------------------------------------------------
(* Users                                                                   *)

AddTimer(u, t, d, r) ==
  /\ Free(u)
  /\ t \notin used
  /\ Allowed(t, now + d)
  /\ used' = used \cup {t}
  /\ ms' = [ms EXCEPT ![t] = d]
  /\ recurring' = [recurring EXCEPT ![t] = r]
  /\ cb' = [cb EXCEPT ![t] = TRUE]
  /\ AddLocked(u, heap, t, now + d)
  /\ UNCHANGED <<now, previous, moving, pollVars, pipe, fires, stuck, use>>

\* onTimerInsertedAtFront() is IOManager::tickle(): a byte if a thread is idle.
Tickle(u) ==
  /\ tickleDue[u]
  /\ tickleDue' = [tickleDue EXCEPT ![u] = FALSE]
  /\ pipe' = (pipe \/ \E p \in Pollers : ppc[p] # "busy")
  /\ UNCHANGED <<now, timerVars, tickled, previous, moving, pollVars, fires, stuck, use>>

\* Mutant of Cancel: the timer stays in the heap.
CancelKeepsTimer(u, t) ==
  /\ Free(u)
  /\ "cancel" \in use.ops
  /\ cb[t]
  /\ cb' = [cb EXCEPT ![t] = FALSE]
  /\ UNCHANGED <<now, heap, used, next, ms, recurring, tickled, previous, userVars, pollVars, pipe, fires, stuck, use>>

Cancel(u, t) ==
  /\ Free(u)
  /\ "cancel" \in use.ops
  /\ cb[t]
  /\ cb' = [cb EXCEPT ![t] = FALSE]
  /\ heap' = Erase(heap, next, t)
  /\ UNCHANGED <<now, used, next, ms, recurring, tickled, previous, userVars, pollVars, pipe, fires, stuck, use>>

\* Mutant of Refresh: the timer is erased and not inserted again.
RefreshForgets(u, t) ==
  /\ Free(u)
  /\ "refresh" \in use.ops
  /\ cb[t]
  /\ Same(heap, next, next[t]) # {}
  /\ Allowed(t, now + ms[t])
  /\ heap' = Erase(heap, next, t)
  /\ next' = [next EXCEPT ![t] = now + ms[t]]
  /\ UNCHANGED <<now, used, ms, recurring, cb, tickled, previous, userVars, pollVars, pipe, fires, stuck, use>>

Refresh(u, t) ==
  /\ Free(u)
  /\ "refresh" \in use.ops
  /\ cb[t]
  /\ Same(heap, next, next[t]) # {}
  /\ Allowed(t, now + ms[t])
  /\ heap' = Insert(Erase(heap, next, t), next, t, now + ms[t])
  /\ next' = [next EXCEPT ![t] = now + ms[t]]
  /\ UNCHANGED <<now, used, ms, recurring, cb, tickled, previous, userVars, pollVars, pipe, fires, stuck, use>>

\* reset(ms, from_now), up to its unlock.
ResetErase(u, t, d, fromNow) ==
  /\ Free(u)
  /\ "reset" \in use.ops
  /\ d # ms[t] \/ fromNow
  /\ cb[t]
  /\ Same(heap, next, next[t]) # {}
  /\ heap' = Erase(heap, next, t)
  /\ moving' = [moving EXCEPT ![u] = [timer |-> t, ms |-> d, fromNow |-> fromNow]]
  /\ UNCHANGED <<now, used, next, ms, recurring, cb, tickled, previous, tickleDue, pollVars, pipe, fires, stuck, use>>

\* reset(), the rest: the new period counts from now or from the timer's start.
ResetInsert(u) ==
  LET m == moving[u]
      t == m.timer
      v == (IF m.fromNow THEN now ELSE next[t] - ms[t]) + m.ms
  IN /\ m # NoMove
     /\ ~stuck
     /\ Allowed(t, v)
     /\ ms' = [ms EXCEPT ![t] = m.ms]
     /\ AddLocked(u, heap, t, v)
     /\ moving' = [moving EXCEPT ![u] = NoMove]
     /\ UNCHANGED <<now, used, recurring, cb, previous, pollVars, pipe, fires, stuck, use>>

-----------------------------------------------------------------------------
(* Pollers                                                                 *)

\* run() counts the thread as idle, then resumes the idle fiber.
EnterIdle(p) ==
  /\ ppc[p] = "busy"
  /\ ppc' = [ppc EXCEPT ![p] = "idle"]
  /\ UNCHANGED <<now, timerVars, tickled, previous, userVars, until, pipe, fires, stuck, use>>

\* Mutant of GetNextTimer: m_tickled is not reset.
GetNextTimerKeepsTickled(p) ==
  /\ ppc[p] = "idle"
  /\ ~stuck
  /\ \E v \in {now + Cap} \cup {next[t] : t \in heap} :
       /\ v <= now + Cap /\ \A t \in heap : v <= next[t]
       /\ until' = [until EXCEPT ![p] = v]
  /\ ppc' = [ppc EXCEPT ![p] = "asleep"]
  /\ UNCHANGED <<now, timerVars, tickled, previous, userVars, pipe, fires, stuck, use>>

\* getNextTimer() decides how long epoll_wait may block.
GetNextTimer(p) ==
  /\ ppc[p] = "idle"
  /\ ~stuck
  /\ tickled' = FALSE
  /\ \E v \in {now + Cap} \cup {next[t] : t \in heap} :
       /\ v <= now + Cap /\ \A t \in heap : v <= next[t]
       /\ until' = [until EXCEPT ![p] = v]
  /\ ppc' = [ppc EXCEPT ![p] = "asleep"]
  /\ UNCHANGED <<now, timerVars, previous, userVars, pipe, fires, stuck, use>>

\* epoll_wait returns; at the bound of the clock every timeout has passed.
Wake(p) ==
  /\ ppc[p] = "asleep"
  /\ pipe \/ now >= until[p] \/ now = use.maxTime
  /\ pipe' = FALSE
  /\ ppc' = [ppc EXCEPT ![p] = IF pipe THEN "tickled" ELSE "woken"]
  /\ UNCHANGED <<now, timerVars, tickled, previous, userVars, until, fires, stuck, use>>

Rollover == now < previous - Slack

\* A recurring timer that is due again at once keeps the loop going for ever.
Endless == \E t \in heap : recurring[t] /\ (Rollover \/ (next[t] <= now /\ ms[t] = 0))

\* The timers that listExpiredCb() takes out; after a rollover all of them.
Expired == IF Rollover THEN heap ELSE {t \in heap : next[t] <= now}

\* Recurring timers go back with a deadline counted from the same now: of those
\* with one period the first stays, and none where the deadline is taken.
Rearmed ==
  {t \in Expired : /\ recurring[t]
                   /\ Same(heap \ Expired, next, now + ms[t]) = {}
                   /\ \A o \in Expired : recurring[o] /\ ms[o] = ms[t] => next[t] <= next[o]}

\* Mutant of ListExpired: what is due is handed out and left as it is.
ListExpiredInPlace(p) ==
  /\ ppc[p] \in {"woken", "tickled"}
  /\ ~stuck
  /\ ~Endless
  /\ previous' = now
  /\ fires' = [t \in Timers |-> IF t \in Expired /\ cb[t] /\ ~recurring[t] THEN fires[t] + 1 ELSE fires[t]]
  /\ ppc' = [ppc EXCEPT ![p] = IF @ = "tickled" THEN "draining" ELSE "busy"]
  /\ UNCHANGED <<now, timerVars, tickled, userVars, until, pipe, stuck, use>>

ListExpired(p) ==
  /\ ppc[p] \in {"woken", "tickled"}
  /\ ~stuck
  /\ ~Endless
  /\ previous' = now
  /\ heap' = (heap \ Expired) \cup Rearmed
  /\ next' = [t \in Timers |-> IF t \in Expired /\ recurring[t] THEN now + ms[t] ELSE next[t]]
  /\ fires' = [t \in Timers |-> IF t \in Expired /\ cb[t] /\ ~recurring[t] THEN fires[t] + 1 ELSE fires[t]]
  /\ cb' = [t \in Timers |-> cb[t] /\ (t \in Expired => recurring[t])]
  /\ ppc' = [ppc EXCEPT ![p] = IF @ = "tickled" THEN "draining" ELSE "busy"]
  /\ UNCHANGED <<now, used, ms, recurring, tickled, userVars, until, pipe, stuck, use>>

\* The loop runs until the heap is empty or nothing in it is due, under the lock.
ListForever(p) ==
  /\ ppc[p] \in {"woken", "tickled"}
  /\ ~stuck
  /\ Endless
  /\ stuck' = TRUE
  /\ UNCHANGED <<now, timerVars, tickled, previous, userVars, pollVars, pipe, fires, use>>

\* A tickled thread reads the pipe empty: what was written since is gone, too.
Drain(p) ==
  /\ ppc[p] = "draining"
  /\ pipe' = FALSE
  /\ ppc' = [ppc EXCEPT ![p] = "busy"]
  /\ UNCHANGED <<now, timerVars, tickled, previous, userVars, until, fires, stuck, use>>

-----------------------------------------------------------------------------
(* The clock                                                               *)

ClockForward ==
  /\ now < use.maxTime
  /\ now' = now + 1
  /\ UNCHANGED <<timerVars, tickled, previous, userVars, pollVars, pipe, fires, stuck, use>>

\* The clock is set back; epoll_wait's timeout is relative and does not change.
ClockSetBack ==
  /\ use.setBack
  /\ now > 0
  /\ now' = 0
  /\ until' = [p \in Pollers |-> IF until[p] > now THEN until[p] - now ELSE 0]
  /\ UNCHANGED <<timerVars, tickled, previous, userVars, ppc, pipe, fires, stuck, use>>

-----------------------------------------------------------------------------
User(u) ==
  \/ Tickle(u)
  \/ \E t \in Timers : \/ \E d \in Delays, r \in use.kinds : AddTimer(u, t, d, r)
                       \/ \E d \in Delays, fromNow \in BOOLEAN : ResetErase(u, t, d, fromNow)
                       \/ Cancel(u, t) \/ Refresh(u, t)
  \/ ResetInsert(u)

Poller(p) == EnterIdle(p) \/ GetNextTimer(p) \/ Wake(p) \/ ListExpired(p) \/ ListForever(p)
             \/ Drain(p)

Next ==
  \/ \E u \in use.users : User(u)
  \/ \E p \in use.pollers : Poller(p)
  \/ ClockForward \/ ClockSetBack

Spec == Init /\ [][Next]_vars

-----------------------------------------------------------------------------
\* Types of all variables.
TypeOK ==
  /\ use \in Setups
  /\ now \in 0..use.maxTime /\ previous \in 0..use.maxTime
  /\ heap \subseteq used /\ used \subseteq Timers
  /\ next \in [Timers -> Nat]
  /\ ms \in [Timers -> Nat]
  /\ recurring \in [Timers -> BOOLEAN] /\ cb \in [Timers -> BOOLEAN]
  /\ tickled \in BOOLEAN /\ pipe \in BOOLEAN /\ stuck \in BOOLEAN
  /\ moving \in [Users -> {NoMove} \cup [timer : used, ms : Delays, fromNow : BOOLEAN]]
  /\ tickleDue \in [Users -> BOOLEAN]
  /\ ppc \in [Pollers -> {"busy", "idle", "asleep", "woken", "tickled", "draining"}]
  /\ until \in [Pollers -> Nat]
  /\ fires \in [Timers -> Nat]

\* One-shot timers with distinct deadlines, on a clock that only goes forward.
Plain == use.kinds = {FALSE} /\ ~use.ties /\ ~use.setBack

\* Nobody oversleeps a plain timer, although addTimer() tickles only once between
\* two getNextTimer() calls (timer.h:87) and refresh() never does: when every
\* thread is blocked in epoll_wait and no wakeup is on its way, one of them wakes
\* up by the first deadline.
NotOverslept ==
  /\ Plain
  /\ \A p \in use.pollers : ppc[p] = "asleep"
  /\ ~pipe /\ \A u \in use.users : ~tickleDue[u]
  => \E p \in use.pollers : \A t \in heap : until[p] <= next[t]

\* A plain timer that may still fire is in the heap, or a reset() is about to put
\* it back: no interleaving of add, cancel, refresh, reset and expiry loses it.
NoneLost ==
  Plain => \A t \in Timers : cb[t] =>
    t \in heap \/ \E u \in use.users : moving[u] # NoMove /\ moving[u].timer = t

\* "从时间堆中删除timer" (timer.h:20): a cancelled timer, like a one-shot timer
\* that has fired, is not in the heap, in programs that never call reset().
HeapIsLive == "reset" \notin use.ops => \A t \in heap : cb[t]

Waiting == {t \in Timers : cb[t] /\ ~recurring[t]}
GivenUp == {t \in used : ~cb[t] /\ ~recurring[t] /\ fires[t] = 0}

\* The timers that do not recur implement OneShot, whatever equal deadlines,
\* rollovers and resets do to the heap: a timer is dropped by cancel() only, a
\* cancelled one never fires, and one that fired cannot be armed or cancelled again.
Callbacks == INSTANCE OneShot WITH Ids <- Timers, armed <- Waiting, runs <- fires, dropped <- GivenUp
CallbackRefinement == Callbacks!ShotSpec

\* A one-shot callback is handed out at most once, however its timer is
\* refreshed, reset or rolled over.
FiresOnce == \A t \in Timers : fires[t] <= 1
=============================================================================
