------------------------------ MODULE HookedFd -------------------------------
(***************************************************************************)
(* The hooked calls on descriptors (hook.cpp), the table of descriptor     *)
(* contexts behind them (fd_manager.cpp) and the table of event contexts   *)
(* of IOManager (contextResize() and the lookups in ioscheduler.cpp).      *)
(*                                                                         *)
(* Hooked threads (t_hook_enable) are those in Scheduler::run(); others    *)
(* call the system directly; fcntl(), ioctl() and accept() consult the     *)
(* table in both.  The two lock sections of FdManager::get(), the steps of *)
(* close() and the gap between the locks of addEvent() are steps of their  *)
(* own; every other call is one.  The program does not close a descriptor  *)
(* while another thread is inside a call on it.                            *)
(***************************************************************************)
EXTENDS Integers, FiniteSets

CONSTANTS Threads,    \* threads that make calls
          Workers,    \* those that a scheduler started
          Reserved,   \* descriptors 0..Reserved-1 belong to somebody else
          MaxFd,      \* bound: the largest descriptor
          DataSize,   \* first size of FdManager::m_datas; the source has 64
          RowsSize,   \* first size of m_fdContexts; the source has 32
          MaxOpens,   \* bound: descriptors opened
          MaxSets,    \* bound: settings changed
          MaxRegs     \* bound: calls of addEvent()

ASSUME HookAssumption ==
  /\ IsFiniteSet(Threads) /\ Workers \subseteq Threads
  /\ Reserved \in Nat /\ MaxFd \in Nat
  /\ DataSize \in Nat \ {0, 1} /\ RowsSize \in Nat \ {0, 1}
  /\ MaxOpens \in Nat /\ MaxSets \in Nat /\ MaxRegs \in Nat

Fds    == Reserved..MaxFd
Events == {"READ", "WRITE"}
NoFd   == -1

\* resize(fd * 1.5)
Grown(f) == (3 * f) \div 2

\* What the context of a descriptor holds; a timeout is there or not.
Default  == [nonblock |-> FALSE, READ |-> FALSE, WRITE |-> FALSE]
Settings == [nonblock : BOOLEAN, READ : BOOLEAN, WRITE : BOOLEAN]

\* What a program has set on it, and whether its last setsockopt() was one that
\* notes the timeout.
NoWish   == [nonblock |-> FALSE, READ |-> "none", WRITE |-> "none"]
Timeouts == {"none", "noted", "unnoted"}
Wishes   == [nonblock : BOOLEAN, READ : Timeouts, WRITE : Timeouts]
NoWait   == [by |-> "nobody", event |-> "READ"]
NoCtx    == [socket |-> FALSE, own |-> Default, there |-> FALSE]

VARIABLES kind,     \* kernel: what a descriptor number is
          nonblock, \* kernel: O_NONBLOCK
          watch,    \* kernel: the events epoll watches
          datas,    \* FdManager::m_datas, NoCtx for a null pointer
          size,     \* m_datas.size()
          rows,     \* m_fdContexts.size()
          events,   \* FdContext::events of the row of each descriptor
          pending,  \* m_pendingEventCount
          pc,       \* place of each thread in its call
          arg,      \* descriptor of the call
          why,      \* who calls addEvent(), and for which event
          hooked,   \* threads with t_hook_enable
          wish,     \* what was set on this descriptor since it was opened
          known,    \* descriptors that a hooked socket() or accept() returned
          spoiled,  \* numbers closed without cleaning up, or made blocking by ioctl()
          raced,    \* two calls of contextResize() have overlapped
          opens, sets, regs,  \* counters for the bounds
          aborted   \* an assert has failed

kernelVars == <<kind, nonblock, watch>>
tableVars  == <<datas, size>>
rowVars    == <<rows, events, pending>>
callVars   == <<pc, arg, why, hooked>>
logVars    == <<wish, known, spoiled, raced, opens, sets, regs>>
vars == <<kernelVars, tableVars, rowVars, callVars, logVars, aborted>>

Places == {"ready", "get", "create", "cancel", "del", "closing", "resize",
           "register", "blocked"}

Init ==
  /\ kind = [f \in Fds |-> "free"]
  /\ nonblock = [f \in Fds |-> FALSE]
  /\ watch = [f \in Fds |-> {}]
  /\ datas = [f \in Fds |-> NoCtx]
  /\ size = DataSize
  /\ rows = RowsSize
  /\ events = [f \in Fds |-> {}]
  /\ pending = 0
  /\ pc = [t \in Threads |-> "ready"]
  /\ arg = [t \in Threads |-> NoFd]
  /\ why = [t \in Threads |-> NoWait]
  /\ hooked = Workers
  /\ wish = [f \in Fds |-> NoWish]
  /\ known = {}
  /\ spoiled = {}
  /\ raced = FALSE
  /\ opens = 0
  /\ sets = 0
  /\ regs = 0
  /\ aborted = FALSE

Goto(t, place) == pc' = [pc EXCEPT ![t] = place]
At(t, place)   == ~aborted /\ pc[t] = place

\* t makes a call on an open descriptor that nobody is closing or opening.
Calls(t, f) ==
  /\ At(t, "ready")
  /\ kind[f] # "free"
  /\ \A u \in Threads : arg[u] = f => pc[u] \notin {"get", "create", "cancel", "del", "closing"}

Return(t) == Goto(t, "ready") /\ arg' = [arg EXCEPT ![t] = NoFd]

-----------------------------------------------------------------------------
(* The descriptor table                                                    *)

\* FdManager::get(f, false)
Get(f) == IF size <= f THEN NoCtx ELSE datas[f]

\* The calls do something of their own only for a socket that has a context.
Managed(f) == Get(f).there /\ Get(f).socket

\* get(f, true), the section under the shared lock.
GetShared(t) ==
  /\ At(t, "get")
  /\ IF Get(arg[t]).there
     THEN /\ Return(t)
          /\ known' = known \cup {arg[t]}
     ELSE /\ Goto(t, "create")
          /\ UNCHANGED <<arg, known>>
  /\ UNCHANGED <<kernelVars, tableVars, rowVars, why, wish, spoiled, raced, opens, sets, regs, hooked, aborted>>

\* Mutant of DataSizeFor: the size is not read again under the write lock.
DataSizeBlind(f) == IF f < DataSize THEN size ELSE Grown(f)

\* The size of m_datas when f is about to be stored.
DataSizeFor(f) == IF size <= f THEN Grown(f) ELSE size

\* ... the section under the write lock: FdCtx::init() makes a socket nonblocking.
GetCreate(t) ==
  /\ At(t, "create")
  /\ LET f == arg[t]
         n == DataSizeFor(f)
         socket == kind[f] = "socket"
     IN /\ size' = n
        /\ datas' = [g \in Fds |->
                       IF g = f THEN [socket |-> socket, own |-> Default, there |-> TRUE]
                       ELSE IF g < n /\ g < size THEN datas[g] ELSE NoCtx]
        /\ nonblock' = [nonblock EXCEPT ![f] = @ \/ socket]
        /\ known' = known \cup {f}
  /\ Return(t)
  /\ UNCHANGED <<kind, watch, rowVars, why, wish, spoiled, raced, opens, sets, regs, hooked, aborted>>

-----------------------------------------------------------------------------
(* Opening and closing                                                     *)

\* The kernel hands out the smallest free number.
Opened(f, k) ==
  /\ opens < MaxOpens
  /\ kind[f] = "free" /\ \A g \in Fds : g < f => kind[g] # "free"
  /\ kind' = [kind EXCEPT ![f] = k]
  /\ opens' = opens + 1

\* socket(), and calls that the hooks do not know, such as open().
Open(t, f, k) ==
  /\ At(t, "ready")
  /\ Opened(f, k)
  /\ IF t \in hooked /\ k = "socket"
     THEN Goto(t, "get") /\ arg' = [arg EXCEPT ![t] = f]
     ELSE UNCHANGED <<pc, arg>>
  /\ UNCHANGED <<nonblock, watch, tableVars, rowVars, why, wish, known, spoiled, raced, sets, regs, hooked, aborted>>

\* accept() on listener l, when do_io() has a connection: also without hooks
\* the new descriptor gets its context.
Accept(t, l, f) ==
  /\ Calls(t, l)
  /\ kind[l] = "socket"
  /\ Opened(f, "socket")
  /\ Goto(t, "get")
  /\ arg' = [arg EXCEPT ![t] = f]
  /\ UNCHANGED <<nonblock, watch, tableVars, rowVars, why, wish, known, spoiled, raced, sets, regs, hooked, aborted>>

\* The kernel forgets the descriptor, its flags, and epoll its entry.
Closed(f) ==
  /\ kind' = [kind EXCEPT ![f] = "free"]
  /\ watch' = [watch EXCEPT ![f] = {}]
  /\ nonblock' = [nonblock EXCEPT ![f] = FALSE]
  /\ wish' = [wish EXCEPT ![f] = NoWish]
  /\ known' = known \ {f}

\* close() without hooks leaves the tables as they are.
CloseUnhooked(t, f) ==
  /\ t \notin hooked
  /\ Calls(t, f)
  /\ f \notin {arg[u] : u \in Threads}
  /\ Closed(f)
  /\ spoiled' = IF Get(f).there \/ events[f] # {} THEN spoiled \cup {f} ELSE spoiled
  /\ UNCHANGED <<tableVars, rowVars, callVars, raced, opens, sets, regs, aborted>>

\* close() of a hooked thread: cancelAll() and del() only when there is a context;
\* the events of a socket made without hooks stay registered.
Close(t, f) ==
  /\ t \in hooked
  /\ Calls(t, f)
  /\ f \notin {arg[u] : u \in Threads}
  /\ arg' = [arg EXCEPT ![t] = f]
  /\ Goto(t, IF Get(f).there THEN "cancel" ELSE "closing")
  /\ spoiled' = IF ~Get(f).there /\ events[f] # {} THEN spoiled \cup {f} ELSE spoiled
  /\ UNCHANGED <<kernelVars, tableVars, rowVars, why, wish, known, raced, opens, sets, regs, hooked, aborted>>

\* Mutant of CancelAll: close() forgets the registered events.
CancelNothing(t) ==
  /\ At(t, "cancel")
  /\ Goto(t, "del")
  /\ UNCHANGED <<kernelVars, tableVars, rowVars, arg, why, logVars, hooked, aborted>>

\* cancelAll() finds a row with events and epoll knows the descriptor: what waits
\* is scheduled.
CancelAll(t) ==
  /\ At(t, "cancel")
  /\ IF arg[t] < rows /\ events[arg[t]] # {} /\ watch[arg[t]] # {}
     THEN /\ events' = [events EXCEPT ![arg[t]] = {}]
          /\ watch' = [watch EXCEPT ![arg[t]] = {}]
          /\ pending' = pending - Cardinality(events[arg[t]])
     ELSE UNCHANGED <<events, watch, pending>>
  /\ Goto(t, "del")
  /\ UNCHANGED <<kind, nonblock, tableVars, rows, arg, why, logVars, hooked, aborted>>

\* Mutant of Del: the context stays.
DelNothing(t) ==
  /\ At(t, "del")
  /\ Goto(t, "closing")
  /\ UNCHANGED <<kernelVars, tableVars, rowVars, arg, why, logVars, hooked, aborted>>

\* FdManager::del()
Del(t) ==
  /\ At(t, "del")
  /\ datas' = IF size <= arg[t] THEN datas ELSE [datas EXCEPT ![arg[t]] = NoCtx]
  /\ Goto(t, "closing")
  /\ UNCHANGED <<kernelVars, size, rowVars, arg, why, logVars, hooked, aborted>>

\* close_f()
CloseEnd(t) ==
  /\ At(t, "closing")
  /\ Closed(arg[t])
  /\ Return(t)
  /\ UNCHANGED <<tableVars, rowVars, why, spoiled, raced, opens, sets, regs, hooked, aborted>>

-----------------------------------------------------------------------------
(* Settings                                                                *)

Wished(f, what, v) ==
  /\ sets < MaxSets
  /\ sets' = sets + 1
  /\ wish' = [wish EXCEPT ![f][what] = v]

\* fcntl(F_SETFL): the context keeps what the user wants, the kernel what the
\* library needs.
SetFl(t, f, v) ==
  /\ Calls(t, f)
  /\ Wished(f, "nonblock", v)
  /\ datas' = IF Managed(f) THEN [datas EXCEPT ![f].own.nonblock = v] ELSE datas
  /\ nonblock' = [nonblock EXCEPT ![f] = IF Managed(f) THEN TRUE ELSE v]
  /\ UNCHANGED <<kind, watch, size, rowVars, callVars, known, spoiled, raced, opens, regs, aborted>>

\* Mutant of GetFl: the kernel's flag is shown.
GetFlRaw(f) == nonblock[f]

\* fcntl(F_GETFL): O_NONBLOCK as shown to the user.
GetFl(f) == IF Managed(f) THEN datas[f].own.nonblock ELSE nonblock[f]

\* ioctl(FIONBIO): unlike F_SETFL it hands the user's wish to the kernel.
Ioctl(t, f, v) ==
  /\ Calls(t, f)
  /\ Wished(f, "nonblock", v)
  /\ datas' = IF Managed(f) THEN [datas EXCEPT ![f].own.nonblock = v] ELSE datas
  /\ nonblock' = [nonblock EXCEPT ![f] = v]
  /\ spoiled' = IF Managed(f) /\ ~v THEN spoiled \cup {f} ELSE spoiled
  /\ UNCHANGED <<kind, watch, size, rowVars, callVars, known, raced, opens, regs, aborted>>

\* setsockopt(SO_RCVTIMEO or SO_SNDTIMEO): a hooked thread notes it in the context,
\* if there is one; any other hands it to the kernel and nothing else.
Notes(t, f) == t \in hooked /\ Get(f).there

SetTimeout(t, f, e) ==
  /\ Calls(t, f)
  /\ Wished(f, e, IF Notes(t, f) THEN "noted" ELSE "unnoted")
  /\ datas' = IF Notes(t, f) THEN [datas EXCEPT ![f].own[e] = TRUE] ELSE datas
  /\ UNCHANGED <<kernelVars, size, rowVars, callVars, known, spoiled, raced, opens, regs, aborted>>

-----------------------------------------------------------------------------
(* Waiting calls                                                           *)

\* do_io() and connect() go to the system and nothing else, or connect() fails
\* with EBADF.
Raw(t, f) == t \notin hooked \/ ~Managed(f) \/ datas[f].own.nonblock

\* The system call of a hooked thread waits in the kernel.
Block(t, f) ==
  /\ Calls(t, f)
  /\ t \in hooked
  /\ ~nonblock[f]
  /\ Goto(t, "blocked")
  /\ arg' = [arg EXCEPT ![t] = f]
  /\ UNCHANGED <<kernelVars, tableVars, rowVars, why, logVars, hooked, aborted>>

Unblock(t) ==
  /\ At(t, "blocked")
  /\ Return(t)
  /\ UNCHANGED <<kernelVars, tableVars, rowVars, why, logVars, hooked, aborted>>

\* Who comes out of the gap of addEvent() while another one is in it.
Overlaps(t) == \E u \in Threads \ {t} : pc[u] = "resize"

\* addEvent() looks up the row under the shared lock.
Lookup(t, f, by, e) ==
  /\ arg' = [arg EXCEPT ![t] = f]
  /\ why' = [why EXCEPT ![t] = [by |-> by, event |-> e]]
  /\ Goto(t, IF rows > f THEN "register" ELSE "resize")
  /\ raced' = (raced \/ (rows <= f /\ Overlaps(t)))
  /\ regs < MaxRegs
  /\ regs' = regs + 1
  /\ UNCHANGED <<kernelVars, tableVars, rowVars, wish, known, spoiled, opens, sets, hooked, aborted>>

\* do_io() after EAGAIN: a read or write waits for its event.
IoAgain(t, f, e) ==
  /\ Calls(t, f)
  /\ ~Raw(t, f) /\ nonblock[f]
  /\ Lookup(t, f, "io", e)

\* connect_with_timeout() after EINPROGRESS.
ConnectInProgress(t, f) ==
  /\ Calls(t, f)
  /\ ~Raw(t, f) /\ nonblock[f]
  /\ Lookup(t, f, "connect", "WRITE")

\* The program registers a callback for input, as main.cpp does.
ProgramAwaits(t, f) ==
  /\ Calls(t, f)
  /\ kind[f] = "socket"
  /\ Lookup(t, f, "program", "READ")

\* contextResize(fd * 1.5) under the write lock, without a second look at the
\* size: rows beyond the new size are dropped, and come back empty.
ContextResize(t) ==
  /\ At(t, "resize")
  /\ rows' = Grown(arg[t])
  /\ events' = [f \in Fds |-> IF f < Grown(arg[t]) THEN events[f] ELSE {}]
  /\ Goto(t, "register")
  /\ UNCHANGED <<kernelVars, tableVars, pending, arg, why, logVars, hooked, aborted>>

\* addEvent() refuses an event that is registered; epoll_ctl() fails when the
\* context and epoll disagree about whether the descriptor is watched.
Refused(f, e) == e \in events[f] \/ (events[f] = {}) # (watch[f] = {})

\* addEvent() under the mutex of the context.  do_io() then suspends its fiber,
\* which fails the assert in Fiber::yield(); connect() yields.
Register(t) ==
  /\ At(t, "register")
  /\ LET f == arg[t]
         e == why[t].event
     IN IF Refused(f, e) THEN UNCHANGED <<events, watch, pending, aborted>>
        ELSE /\ events' = [events EXCEPT ![f] = @ \cup {e}]
             /\ watch' = [watch EXCEPT ![f] = events[f] \cup {e}]
             /\ pending' = pending + 1
             /\ aborted' = (why[t].by = "io")
  /\ Return(t)
  /\ why' = [why EXCEPT ![t] = NoWait]
  /\ UNCHANGED <<kind, nonblock, tableVars, rows, logVars, hooked>>

\* idle() triggers an event, through the context that epoll's entry points to;
\* a context that was dropped from the table is still there.
Deliver(f, e) ==
  /\ ~aborted
  /\ e \in watch[f]
  /\ watch' = [watch EXCEPT ![f] = @ \ {e}]
  /\ events' = [events EXCEPT ![f] = @ \ {e}]
  /\ pending' = pending - 1
  /\ UNCHANGED <<kind, nonblock, tableVars, rows, callVars, logVars, aborted>>

-----------------------------------------------------------------------------
\* The caller enters run() in stop(): set_hook_enable(true).
EnableHook(t) ==
  /\ At(t, "ready")
  /\ t \notin hooked
  /\ hooked' = hooked \cup {t}
  /\ UNCHANGED <<kernelVars, tableVars, rowVars, pc, arg, why, logVars, aborted>>

Step(t) ==
  \/ EnableHook(t)
  \/ GetShared(t) \/ GetCreate(t)
  \/ CancelAll(t) \/ Del(t) \/ CloseEnd(t)
  \/ ContextResize(t) \/ Register(t) \/ Unblock(t)

Call(t, f) ==
  \/ Open(t, f, "socket") \/ Open(t, f, "other")
  \/ \E l \in Fds : Accept(t, l, f)
  \/ CloseUnhooked(t, f) \/ Close(t, f)
  \/ \E v \in BOOLEAN : SetFl(t, f, v) \/ Ioctl(t, f, v)
  \/ \E e \in Events : SetTimeout(t, f, e) \/ IoAgain(t, f, e)
  \/ ProgramAwaits(t, f) \/ ConnectInProgress(t, f) \/ Block(t, f)

Next ==
  \/ \E t \in Threads : Step(t) \/ \E f \in Fds : Call(t, f)
  \/ \E f \in Fds : \E e \in Events : Deliver(f, e)

Spec == Init /\ [][Next]_vars

-----------------------------------------------------------------------------
(* Properties                                                              *)

\* Types of all variables.
TypeOK ==
  /\ kind \in [Fds -> {"free", "socket", "other"}]
  /\ nonblock \in [Fds -> BOOLEAN]
  /\ watch \in [Fds -> SUBSET Events]
  /\ datas \in [Fds -> [socket : BOOLEAN, own : Settings, there : BOOLEAN]]
  /\ size \in {DataSize} \cup {Grown(f) : f \in Fds}
  /\ rows \in {RowsSize} \cup {Grown(f) : f \in Fds}
  /\ events \in [Fds -> SUBSET Events]
  /\ pending \in Nat
  /\ pc \in [Threads -> Places]
  /\ arg \in [Threads -> Fds \cup {NoFd}]
  /\ why \in [Threads -> [by : {"nobody", "program", "io", "connect"}, event : Events]]
  /\ hooked \subseteq Threads
  /\ wish \in [Fds -> Wishes]
  /\ known \subseteq Fds /\ spoiled \subseteq Fds
  /\ raced \in BOOLEAN
  /\ opens \in 0..MaxOpens /\ sets \in 0..MaxSets /\ regs \in 0..MaxRegs
  /\ aborted \in BOOLEAN

Closing == {arg[t] : t \in {u \in Threads : pc[u] \in {"cancel", "del", "closing"}}}

\* What socket() or accept() returned to a caller keeps its context until it is
\* closed, although other descriptors are opened and closed at the same time and
\* the table is resized (fd_manager.cpp:129-137).
KnownHasContext == \A f \in known \ Closing : Managed(f)

\* The context holds the flag that was set, a timeout only if one was set, and
\* each one that a hooked thread was the last to set.
Agrees(own, w) ==
  /\ own.nonblock = w.nonblock
  /\ \A e \in Events : (own[e] => w[e] # "none") /\ (w[e] = "noted" => own[e])

\* A descriptor shows and uses what was set on it since it was opened, never what
\* was set on an earlier one with its number (hook.cpp:472, 517-525), unless that
\* one was closed without its context.  The one setting it may miss is a timeout
\* that a thread without hooks gave to the kernel alone (hook.cpp:612-615).
SettingsAreOwn ==
  \A f \in known \ (Closing \cup spoiled) :
    Agrees(datas[f].own, wish[f]) /\ GetFl(f) = wish[f].nonblock

\* A hooked thread waits in the kernel on none of the descriptors the hooks
\* returned, unless ioctl(FIONBIO) made it blocking or its number was closed by
\* an unhooked thread (hook.cpp:115-128, 494-504).
HookedNeverBlocks ==
  \A t \in hooked : pc[t] = "blocked" => arg[t] \notin known \ spoiled

\* Events in the table of contexts.
Registered == {fe \in Fds \X Events : fe[2] \in events[fe[1]]}

\* While calls of contextResize() do not overlap, each watched event is found
\* again in its row, a closed descriptor has none left, and the count that keeps
\* the scheduler alive is that of the registered events (ioscheduler.cpp:133-137).
RegistrationsAreFound ==
  ~raced =>
    /\ pending = Cardinality(Registered)
    /\ \A f \in Fds \ spoiled :
         /\ events[f] = watch[f]
         /\ watch[f] # {} => f < rows /\ kind[f] # "free"
=============================================================================
