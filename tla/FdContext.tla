------------------------------ MODULE FdContext ------------------------------
(***************************************************************************)
(* Registered fd events of IOManager (ioscheduler.cpp): addEvent(),        *)
(* delEvent(), cancelEvent(), cancelAll(), triggerEvent() and the loop of  *)
(* idle() that turns epoll's results into callbacks.                       *)
(*                                                                         *)
(* Each operation works under fd_ctx->mutex and is one action.  What is    *)
(* not under that mutex is the result of epoll_wait: a polling thread      *)
(* takes it first and locks the context later.  A failed assert ends the   *)
(* process.  Epoll is edge triggered: a descriptor is queued when one of   *)
(* its conditions rises or when epoll_ctl arms one that holds.  epoll_ctl  *)
(* succeeds.  A registration is named by the order of its addEvent().      *)
(***************************************************************************)
EXTENDS Naturals, FiniteSets

CONSTANTS Fds,      \* file descriptors
          Events,   \* the event kinds in use, a subset of {"READ", "WRITE"}
          Pollers,  \* threads in IOManager::idle()
          Ops,      \* the operations callers use besides addEvent()
          MaxRegs   \* bound: addEvent() calls

ASSUME FdAssumption ==
  /\ IsFiniteSet(Fds) /\ IsFiniteSet(Events)
  /\ Events \subseteq {"READ", "WRITE"}
  /\ Ops \subseteq {"del", "cancel", "cancelAll"}
  /\ MaxRegs \in Nat

NoReg == 0
Regs  == 1..MaxRegs
Idle  == [fd |-> NoReg, got |-> {}]

VARIABLES events,    \* FdContext::events
          slot,      \* FdContext::read/write: the registration whose callback is stored
          pending,   \* m_pendingEventCount
          interest,  \* what epoll watches for each descriptor
          level,     \* conditions that hold on each descriptor, "HUP" included
          queued,    \* epoll's ready list
          taken,     \* the epoll_event each polling thread still has to handle
          regs,      \* addEvent() calls that succeeded
          fired,     \* how often each registration's callback was scheduled
          deleted,   \* registrations ended by delEvent()
          aborted    \* an assert has failed

ctxVars   == <<events, slot, pending>>
epollVars == <<interest, level, queued>>
logVars   == <<regs, fired, deleted>>
vars == <<ctxVars, epollVars, taken, logVars, aborted>>

Init ==
  /\ events = [f \in Fds |-> {}]
  /\ slot = [f \in Fds |-> [e \in Events |-> NoReg]]
  /\ pending = 0
  /\ interest = [f \in Fds |-> {}]
  /\ level = [f \in Fds |-> {}]
  /\ queued = {}
  /\ taken = [p \in Pollers |-> Idle]
  /\ regs = 0
  /\ fired = [r \in Regs |-> 0]
  /\ deleted = {}
  /\ aborted = FALSE

-----------------------------------------------------------------------------
(* Epoll                                                                   *)

\* epoll_ctl: watch exactly es, and queue the descriptor if one of them holds.
Watch(f, es) ==
  /\ interest' = [interest EXCEPT ![f] = es]
  /\ queued' = IF es # {} /\ level[f] \cap (es \cup {"HUP"}) # {}
               THEN queued \cup {f} ELSE queued \ {f}
  /\ UNCHANGED level

\* Data, buffer space or a hang-up arrives.
Rise(f, c) ==
  /\ ~aborted
  /\ c \notin level[f]
  /\ level' = [level EXCEPT ![f] = @ \cup {c}]
  /\ queued' = IF interest[f] # {} /\ c \in interest[f] \cup {"HUP"}
               THEN queued \cup {f} ELSE queued
  /\ UNCHANGED <<ctxVars, interest, taken, logVars, aborted>>

\* The program reads or writes until the condition is gone.
Consume(f, c) ==
  /\ ~aborted
  /\ c \in level[f] \cap Events
  /\ level' = [level EXCEPT ![f] = @ \ {c}]
  /\ UNCHANGED <<ctxVars, interest, queued, taken, logVars, aborted>>

\* Mutant of EpollWait: the loop over the results starts at 1.
EpollWaitSkips(p, f) ==
  /\ ~aborted
  /\ taken[p] = Idle
  /\ f \in queued
  /\ queued' = queued \ {f}
  /\ UNCHANGED <<ctxVars, interest, level, taken, logVars, aborted>>

\* epoll_wait hands one queued descriptor to a polling thread.
EpollWait(p, f) ==
  /\ ~aborted
  /\ taken[p] = Idle
  /\ f \in queued
  /\ queued' = queued \ {f}
  /\ LET got == level[f] \cap (interest[f] \cup {"HUP"})
     IN taken' = [taken EXCEPT ![p] = IF got = {} THEN Idle ELSE [fd |-> f, got |-> got]]
  /\ UNCHANGED <<ctxVars, interest, level, logVars, aborted>>

-----------------------------------------------------------------------------
(* Callers                                                                 *)

\* Mutant of AddEvent: ++m_pendingEventCount is forgotten.
AddEventUncounted(f, e) ==
  /\ ~aborted
  /\ regs < MaxRegs
  /\ e \notin events[f]
  /\ Watch(f, events[f] \cup {e})
  /\ events' = [events EXCEPT ![f] = @ \cup {e}]
  /\ slot' = [slot EXCEPT ![f][e] = regs + 1]
  /\ regs' = regs + 1
  /\ UNCHANGED <<pending, taken, fired, deleted, aborted>>

\* An event that is already registered is refused (-1) and changes nothing.
AddEvent(f, e) ==
  /\ ~aborted
  /\ regs < MaxRegs
  /\ e \notin events[f]
  /\ Watch(f, events[f] \cup {e})
  /\ pending' = pending + 1
  /\ events' = [events EXCEPT ![f] = @ \cup {e}]
  /\ slot' = [slot EXCEPT ![f][e] = regs + 1]
  /\ regs' = regs + 1
  /\ UNCHANGED <<taken, fired, deleted, aborted>>

\* Mutant of DelEvent: fd_ctx->events keeps the deleted event.
DelEventKeepsMask(f, e) ==
  /\ ~aborted
  /\ "del" \in Ops
  /\ e \in events[f]
  /\ Watch(f, events[f] \ {e})
  /\ pending' = pending - 1
  /\ deleted' = deleted \cup {slot[f][e]}
  /\ UNCHANGED <<events, slot, taken, regs, fired, aborted>>

DelEvent(f, e) ==
  /\ ~aborted
  /\ "del" \in Ops
  /\ e \in events[f]
  /\ Watch(f, events[f] \ {e})
  /\ pending' = pending - 1
  /\ events' = [events EXCEPT ![f] = @ \ {e}]
  /\ slot' = [slot EXCEPT ![f][e] = NoReg]
  /\ deleted' = deleted \cup {slot[f][e]}
  /\ UNCHANGED <<taken, regs, fired, aborted>>

\* Mutant of Trigger: the slot keeps the callback that was scheduled.
TriggerKeepsSlot(f, has, es) ==
  /\ aborted' = ~(es \subseteq has)
  /\ events' = [events EXCEPT ![f] = has \ es]
  /\ fired' = [r \in Regs |-> IF \E e \in es : slot[f][e] = r THEN fired[r] + 1 ELSE fired[r]]
  /\ UNCHANGED slot

\* triggerEvent() for each event of es on a context that has the events has:
\* assert, unregister, schedule the callback, clear the slot.
Trigger(f, has, es) ==
  /\ aborted' = ~(es \subseteq has)
  /\ events' = [events EXCEPT ![f] = has \ es]
  /\ fired' = [r \in Regs |-> IF \E e \in es : slot[f][e] = r THEN fired[r] + 1 ELSE fired[r]]
  /\ slot' = [slot EXCEPT ![f] = [e \in Events |-> IF e \in es THEN NoReg ELSE @[e]]]

\* cancelEvent() stores the remaining events before it calls triggerEvent().
CancelEvent(f, e) ==
  /\ ~aborted
  /\ "cancel" \in Ops
  /\ e \in events[f]
  /\ Watch(f, events[f] \ {e})
  /\ pending' = pending - 1
  /\ Trigger(f, events[f] \ {e}, {e})
  /\ UNCHANGED <<taken, regs, deleted>>

CancelAll(f) ==
  /\ ~aborted
  /\ "cancelAll" \in Ops
  /\ events[f] # {}
  /\ Watch(f, {})
  /\ pending' = pending - Cardinality(events[f])
  /\ Trigger(f, events[f], events[f])
  /\ UNCHANGED <<taken, regs, deleted>>

-----------------------------------------------------------------------------
(* idle(): one epoll_event, under the context's mutex                      *)

\* EPOLLERR and EPOLLHUP stand for every event registered by now.
RealEvents(ev) ==
  (ev.got \cap Events) \cup (IF "HUP" \in ev.got THEN events[ev.fd] ELSE {})

\* None of the events is registered any more.
SkipEvent(p) ==
  /\ ~aborted
  /\ taken[p] # Idle
  /\ events[taken[p].fd] \cap RealEvents(taken[p]) = {}
  /\ taken' = [taken EXCEPT ![p] = Idle]
  /\ UNCHANGED <<ctxVars, epollVars, logVars, aborted>>

\* The events that remain are armed again, those that happened are triggered.
HandleEvent(p) ==
  /\ ~aborted
  /\ taken[p] # Idle
  /\ LET f == taken[p].fd
         real == RealEvents(taken[p])
     IN /\ events[f] \cap real # {}
        /\ Watch(f, events[f] \ real)
        /\ Trigger(f, events[f], real)
        /\ pending' = pending - Cardinality(real)
  /\ taken' = [taken EXCEPT ![p] = Idle]
  /\ UNCHANGED <<regs, deleted>>

-----------------------------------------------------------------------------
World == \E f \in Fds : \/ \E c \in Events \cup {"HUP"} : Rise(f, c)
                        \/ \E c \in Events : Consume(f, c)
Callers == \E f \in Fds : \/ \E e \in Events : AddEvent(f, e) \/ DelEvent(f, e) \/ CancelEvent(f, e)
                          \/ CancelAll(f)
Handle(p) == SkipEvent(p) \/ HandleEvent(p)

Next == World \/ Callers \/ \E p \in Pollers : Handle(p) \/ \E f \in Fds : EpollWait(p, f)

Spec == Init /\ [][Next]_vars

\* The idle fibers keep polling, and epoll's ready list is first in, first out:
\* no queued descriptor is passed over for ever.
FairSpec ==
  /\ Spec
  /\ \A p \in Pollers : WF_vars(Handle(p))
  /\ \A f \in Fds : SF_vars(\E p \in Pollers : EpollWait(p, f))
-----------------------------------------------------------------------------
\* Types of all variables.
TypeOK ==
  /\ events \in [Fds -> SUBSET Events]
  /\ slot \in [Fds -> [Events -> 0..MaxRegs]]
  /\ aborted \/ pending \in Nat
  /\ interest \in [Fds -> SUBSET Events]
  /\ level \in [Fds -> SUBSET (Events \cup {"HUP"})]
  /\ queued \subseteq Fds
  /\ taken \in [Pollers -> {Idle} \cup [fd : Fds, got : SUBSET (Events \cup {"HUP"})]]
  /\ regs \in 0..MaxRegs
  /\ fired \in [Regs -> Nat]
  /\ deleted \subseteq Regs
  /\ aborted \in BOOLEAN

\* assert(events & event) (ioscheduler.cpp:39): triggerEvent() is only called for
\* a registered event.
TriggerOnlyRegistered == ~aborted

Registered == {fe \in Fds \X Events : fe[2] \in events[fe[1]]}
Armed(r) == {fe \in Registered : slot[fe[1]][fe[2]] = r}

\* "register one event -> wait for it to ready -> schedule the callback ->
\* unregister the event -> run the callback" (ioscheduler.h:10): whoever races
\* with the polling threads, each registration is armed in one place, or its
\* callback was scheduled once, or it was deleted - exactly one of these.
EndsExactlyOnce ==
  ~aborted => \A r \in 1..regs :
    Cardinality(Armed(r)) + fired[r] + Cardinality(deleted \cap {r}) = 1

\* The registrations whose callbacks are stored in a context.
Stored == {r \in Regs : \E f \in Fds, e \in Events : slot[f][e] = r}

\* The contexts, epoll's stale results and the operations that race with them
\* implement OneShot, the step that fails an assert included: what is stored is
\* armed, scheduling it takes it out, and nothing ends a registration twice,
\* loses one or brings one back.
Registry == INSTANCE OneShot WITH Ids <- Regs, armed <- Stored, runs <- fired, dropped <- deleted
RegistryRefinement == Registry!ShotSpec

\* m_pendingEventCount, which keeps the scheduler from stopping, is the number
\* of registered events, and epoll watches exactly those.
PendingIsExact ==
  ~aborted => /\ pending = Cardinality(Registered)
              /\ interest = events

\* No edge is lost: a registered event whose condition keeps holding is
\* triggered or unregistered by its owner.
ReadyIsDelivered ==
  \A f \in Fds, e \in Events :
    (e \in events[f] /\ e \in level[f]) ~> (aborted \/ e \notin events[f] \/ e \notin level[f])
=============================================================================
