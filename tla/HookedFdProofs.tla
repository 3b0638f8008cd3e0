--------------------------- MODULE HookedFdProofs ---------------------------
(***************************************************************************)
(* Proofs about HookedFd, for every set of threads, every range of         *)
(* descriptors and every table size: the types, that the descriptors the   *)
(* hooks returned keep a context of their own, that no hooked thread waits *)
(* in the kernel on one of them, and that registrations are found again.   *)
(***************************************************************************)
EXTENDS HookedFd, FiniteSetTheorems, TLAPS

-----------------------------------------------------------------------------
(* The inductive invariants                                                *)

\* Places at which a call has its descriptor for itself.
Sole == {"get", "create", "cancel", "del", "closing"}

\* A call is made on an open descriptor; opening and closing are made alone.
CallInv ==
  /\ \A t \in Threads : pc[t] = "ready" <=> arg[t] = NoFd
  /\ \A t \in Threads : pc[t] # "ready" => kind[arg[t]] # "free"
  /\ \A t \in Threads : pc[t] \in {"get", "create"} => kind[arg[t]] = "socket"
  /\ \A t, u \in Threads : t # u /\ pc[t] \in Sole => arg[u] # arg[t]

\* Contexts are made for sockets and lie inside the table, which never gets so
\* small that growing by one half would not make room.
TableInv ==
  /\ 2 <= size
  /\ \A f \in Fds : datas[f].there => datas[f].socket /\ f < size
  /\ \A t \in Threads : pc[t] = "closing" => ~datas[arg[t]].there

\* A number that is free, or that socket() has just returned, has a context only
\* if it was closed without cleaning up; nothing was set on it yet.
FreshInv ==
  /\ \A f \in Fds : kind[f] = "free" => (datas[f].there => f \in spoiled) /\ wish[f] = NoWish
  /\ \A t \in Threads : pc[t] \in {"get", "create"} =>
       (datas[arg[t]].there => arg[t] \in spoiled) /\ wish[arg[t]] = NoWish

\* What the hooks returned has a context until close() has come past del().
KnownInv == \A f \in known \ Closing : datas[f].there

\* The user's settings are in the context, and the kernel does not block.
OwnInv ==
  \A f \in known \ spoiled :
    nonblock[f] /\ (f \notin Closing => Agrees(datas[f].own, wish[f]))

WaitInv == \A t \in Threads : pc[t] = "blocked" => arg[t] \notin known \ spoiled

\* Events that somebody still counts.
Counted == {fe \in Fds \X Events : fe[2] \in events[fe[1]] \cup watch[fe[1]]}

\* addEvent() refuses where the two tables disagree, so that they never differ in
\* more than one being empty; the count falls behind only when rows were dropped.
CountInv ==
  /\ \A f \in Fds : events[f] = {} \/ watch[f] = {} \/ events[f] = watch[f]
  /\ Cardinality(Counted) <= pending
  /\ ~raced => pending = Cardinality(Counted)

\* The rows of m_fdContexts while calls of contextResize() do not overlap.
RowsInv ==
  /\ 2 <= rows
  /\ \A t \in Threads : pc[t] = "resize" => 2 <= arg[t]
  /\ ~raced =>
       /\ \A t \in Threads : pc[t] = "resize" => rows <= arg[t]
       /\ \A t \in Threads : pc[t] = "register" => arg[t] < rows
       /\ \A t, u \in Threads : pc[t] = "resize" /\ pc[u] = "resize" => t = u

\* Nothing that is watched is lost, and close() leaves nothing behind on a number
\* that is not spoiled.
FoundInv ==
  ~raced =>
    /\ \A f \in Fds : watch[f] \subseteq events[f] /\ (events[f] # {} => f < rows)
    /\ \A f \in Fds \ spoiled : events[f] = watch[f] /\ (kind[f] = "free" => events[f] = {})
    /\ \A t \in Threads : pc[t] \in {"del", "closing"} /\ arg[t] \notin spoiled => events[arg[t]] = {}

-----------------------------------------------------------------------------
(* Lemmas                                                                  *)

Ctxs == [socket : BOOLEAN, own : Settings, there : BOOLEAN]

LEMMA FdTypes ==
  /\ Fds \subseteq Nat /\ IsFiniteSet(Fds) /\ NoFd \notin Fds
  /\ \A f \in Fds : f \in Nat /\ Grown(f) \in Nat
  /\ \A f \in Nat : 2 <= f => f < Grown(f)
<1>1. Fds \subseteq Nat /\ \A f \in Fds : f \in Nat
  BY HookAssumption DEF Fds
<1>2. IsFiniteSet(Fds)
  BY HookAssumption, FS_Interval DEF Fds
<1>3. NoFd \notin Fds
  BY <1>1 DEF NoFd
<1>4. \A f \in Nat : Grown(f) \in Nat /\ (2 <= f => f < Grown(f))
  BY DEF Grown
<1> QED
  BY <1>1, <1>2, <1>3, <1>4

LEMMA SizeTypes == ASSUME TypeOK PROVE size \in Nat /\ rows \in Nat
BY FdTypes, HookAssumption DEF TypeOK

LEMMA ArgType ==
  ASSUME TypeOK, CallInv, NEW t \in Threads, pc[t] # "ready"
  PROVE  arg[t] \in Fds
BY DEF TypeOK, CallInv

LEMMA DefaultType ==
  /\ Default \in Settings /\ NoWish \in Wishes /\ Agrees(Default, NoWish)
  /\ NoCtx \in Ctxs /\ ~NoCtx.there
BY DEF Default, Settings, NoWish, Wishes, Timeouts, Agrees, Events, NoCtx, Ctxs

\* The writes of fcntl(), ioctl() and setsockopt() to a context.
LEMMA OwnWritten ==
  ASSUME TypeOK, NEW f \in Fds, NEW w \in {"nonblock", "READ", "WRITE"}, NEW v \in BOOLEAN,
         datas' = [datas EXCEPT ![f].own[w] = v]
  PROVE  /\ datas' \in [Fds -> Ctxs]
         /\ \A g \in Fds : datas'[g].there = datas[g].there /\ datas'[g].socket = datas[g].socket
         /\ \A g \in Fds : g # f => datas'[g] = datas[g]
         /\ datas'[f].own = [datas[f].own EXCEPT ![w] = v]
<1>1. datas \in [Fds -> Ctxs]
  BY DEF TypeOK, Ctxs
<1> QED
  BY <1>1 DEF Ctxs, Settings

LEMMA WishType ==
  ASSUME TypeOK, NEW f \in Fds, NEW w \in {"nonblock", "READ", "WRITE"}, NEW v,
         v \in IF w = "nonblock" THEN BOOLEAN ELSE Timeouts, Wished(f, w, v)
  PROVE  /\ wish' \in [Fds -> Wishes] /\ sets' \in 0..MaxSets
         /\ wish'[f] = [wish[f] EXCEPT ![w] = v]
         /\ \A g \in Fds : g # f => wish'[g] = wish[g]
<1>1. wish \in [Fds -> Wishes] /\ wish' = [wish EXCEPT ![f][w] = v]
  BY DEF TypeOK, Wished
<1>2. wish' \in [Fds -> Wishes] /\ wish'[f] = [wish[f] EXCEPT ![w] = v]
  BY <1>1 DEF Wishes
<1>3. sets' \in 0..MaxSets
  BY HookAssumption DEF TypeOK, Wished
<1> QED
  BY <1>1, <1>2, <1>3

\* fcntl() and ioctl() set the flag in both.
LEMMA FlagAgrees ==
  ASSUME TypeOK, NEW f \in Fds, NEW v \in BOOLEAN, Wished(f, "nonblock", v),
         datas[f].there => datas' = [datas EXCEPT ![f].own["nonblock"] = v]
  PROVE  datas[f].there /\ Agrees(datas[f].own, wish[f]) => Agrees(datas'[f].own, wish'[f])
<1> SUFFICES ASSUME datas[f].there, Agrees(datas[f].own, wish[f])
             PROVE  Agrees(datas'[f].own, wish'[f])
  OBVIOUS
<1>1. datas'[f].own = [datas[f].own EXCEPT !["nonblock"] = v]
  BY OwnWritten
<1>2. wish'[f] = [wish[f] EXCEPT !["nonblock"] = v]
  BY WishType
<1>3. datas[f].own \in Settings /\ wish[f] \in Wishes
  BY DEF TypeOK
<1> QED
  BY <1>1, <1>2, <1>3 DEF Agrees, Settings, Wishes, Events

\* setsockopt() that does not reach the context is remembered as such.
LEMMA TimeoutAgrees ==
  ASSUME TypeOK, NEW f \in Fds, NEW e \in {"READ", "WRITE"}, NEW x \in {"noted", "unnoted"},
         Wished(f, e, x),
         \/ datas' = [datas EXCEPT ![f].own[e] = TRUE]
         \/ x = "unnoted" /\ datas' = datas,
         Agrees(datas[f].own, wish[f])
  PROVE  Agrees(datas'[f].own, wish'[f])
<1>1. \/ datas'[f].own = [datas[f].own EXCEPT ![e] = TRUE]
      \/ x = "unnoted" /\ datas'[f].own = datas[f].own
  BY OwnWritten
<1>2. wish'[f] = [wish[f] EXCEPT ![e] = x]
  BY WishType DEF Timeouts
<1>3. datas[f].own \in Settings /\ wish[f] \in Wishes
  BY DEF TypeOK
<1> QED
  BY <1>1, <1>2, <1>3 DEF Agrees, Settings, Wishes, Events

-----------------------------------------------------------------------------
(* Types                                                                   *)

LEMMA InitTypeOK == Init => TypeOK
<1> SUFFICES ASSUME Init PROVE TypeOK
  OBVIOUS
<1>1. datas \in [Fds -> Ctxs] /\ wish \in [Fds -> Wishes]
  BY DefaultType DEF Init
<1>2. opens \in 0..MaxOpens /\ sets \in 0..MaxSets /\ regs \in 0..MaxRegs /\ pending \in Nat
  BY HookAssumption DEF Init
<1>3. pc \in [Threads -> Places] /\ arg \in [Threads -> Fds \cup {NoFd}]
  BY DEF Init, Places
<1>4. why \in [Threads -> [by : {"nobody", "program", "io", "connect"}, event : Events]]
  BY DEF Init, NoWait, Events
<1>5. hooked \subseteq Threads
  BY HookAssumption DEF Init
<1>6. kind \in [Fds -> {"free", "socket", "other"}] /\ nonblock \in [Fds -> BOOLEAN]
  BY DEF Init
<1>7. watch \in [Fds -> SUBSET Events] /\ events \in [Fds -> SUBSET Events]
  BY DEF Init
<1> QED
  BY <1>1, <1>2, <1>3, <1>4, <1>5, <1>6, <1>7 DEF Init, TypeOK, Ctxs

\* The steps of calls; those that change the count of events come later.
LEMMA StepTypeOK ==
  ASSUME TypeOK, CallInv, NEW t \in Threads, Step(t), pending' \in Nat
  PROVE  TypeOK'
<1> USE DEF kernelVars, tableVars, rowVars, callVars, logVars, At
<1>a. \A p \in Places : Goto(t, p) => pc' \in [Threads -> Places]
  BY DEF Goto, TypeOK
<1>b. {"ready", "get", "create", "cancel", "del", "closing", "resize", "register", "blocked"} = Places
  BY DEF Places
<1>c. Return(t) => pc' \in [Threads -> Places] /\ arg' \in [Threads -> Fds \cup {NoFd}]
  BY <1>a, <1>b DEF Return, TypeOK
<1>d. pc[t] # "ready" => arg[t] \in Fds
  BY ArgType
<1>1. CASE EnableHook(t)
  BY <1>1 DEF EnableHook, TypeOK
<1>2. CASE GetShared(t)
  <2>1. /\ pc' \in [Threads -> Places] /\ arg' \in [Threads -> Fds \cup {NoFd}]
        /\ known' \subseteq Fds
    BY <1>a, <1>b, <1>c, <1>d, <1>2 DEF GetShared, TypeOK
  <2> QED
    BY <1>2, <2>1 DEF GetShared, TypeOK
<1>3. CASE GetCreate(t)
  <2>0. arg[t] \in Fds /\ DataSizeFor(arg[t]) \in {DataSize} \cup {Grown(f) : f \in Fds}
    BY <1>d, <1>3 DEF GetCreate, DataSizeFor, TypeOK
  <2>1. datas' \in [Fds -> Ctxs]
    <3>1. [socket |-> kind[arg[t]] = "socket", own |-> Default, there |-> TRUE] \in Ctxs
      BY DefaultType DEF Ctxs
    <3>2. datas \in [Fds -> Ctxs]
      BY DEF TypeOK, Ctxs
    <3> QED
      BY <1>3, <3>1, <3>2, DefaultType DEF GetCreate
  <2>2. nonblock' \in [Fds -> BOOLEAN]
    BY <1>3 DEF GetCreate, TypeOK
  <2>3. size' \in {DataSize} \cup {Grown(f) : f \in Fds} /\ known' \subseteq Fds
    BY <1>3, <2>0 DEF GetCreate, TypeOK
  <2> QED
    BY <1>c, <1>3, <2>1, <2>2, <2>3 DEF GetCreate, TypeOK, Ctxs
<1>4. CASE CancelAll(t)
  <2>1. events' \in [Fds -> SUBSET Events] /\ watch' \in [Fds -> SUBSET Events]
    BY <1>4 DEF CancelAll, TypeOK
  <2> QED
    BY <1>a, <1>b, <1>4, <2>1 DEF CancelAll, TypeOK
<1>5. CASE Del(t)
  <2>1. datas' \in [Fds -> Ctxs]
    <3>1. datas \in [Fds -> Ctxs]
      BY DEF TypeOK, Ctxs
    <3> QED
      BY <1>5, <3>1, DefaultType DEF Del
  <2> QED
    BY <1>a, <1>b, <1>5, <2>1 DEF Del, TypeOK, Ctxs
<1>6. CASE CloseEnd(t)
  <2>1. kind' \in [Fds -> {"free", "socket", "other"}] /\ nonblock' \in [Fds -> BOOLEAN]
    BY <1>6 DEF CloseEnd, Closed, TypeOK
  <2>2. watch' \in [Fds -> SUBSET Events] /\ known' \subseteq Fds
    BY <1>6 DEF CloseEnd, Closed, TypeOK
  <2>3. wish' \in [Fds -> Wishes]
    BY <1>6, DefaultType DEF CloseEnd, Closed, TypeOK
  <2> QED
    BY <1>c, <1>6, <2>1, <2>2, <2>3 DEF CloseEnd, TypeOK
<1>7. CASE ContextResize(t)
  <2>1. events' \in [Fds -> SUBSET Events] /\ rows' \in {RowsSize} \cup {Grown(f) : f \in Fds}
    BY <1>d, <1>7 DEF ContextResize, TypeOK
  <2> QED
    BY <1>a, <1>b, <1>7, <2>1 DEF ContextResize, TypeOK
<1>8. CASE Register(t)
  <2>0. why[t].event \in Events
    BY DEF TypeOK
  <2>1. events' \in [Fds -> SUBSET Events]
    BY <1>8, <2>0 DEF Register, TypeOK
  <2>2. watch' \in [Fds -> SUBSET Events]
    BY <1>8, <2>0, <1>d DEF Register, TypeOK
  <2>3. why' \in [Threads -> [by : {"nobody", "program", "io", "connect"}, event : Events]]
    BY <1>8 DEF Register, TypeOK, NoWait, Events
  <2>4. aborted' \in BOOLEAN
    BY <1>8 DEF Register, TypeOK
  <2> QED
    BY <1>c, <1>8, <2>1, <2>2, <2>3, <2>4 DEF Register, TypeOK
<1>9. CASE Unblock(t)
  BY <1>c, <1>9 DEF Unblock, TypeOK
<1> QED
  BY <1>1, <1>2, <1>3, <1>4, <1>5, <1>6, <1>7, <1>8, <1>9 DEF Step

LEMMA LookupTypeOK ==
  ASSUME TypeOK, NEW t \in Threads, NEW f \in Fds, NEW e \in Events,
         NEW by \in {"program", "io", "connect"}, Lookup(t, f, by, e)
  PROVE  TypeOK'
<1> USE DEF kernelVars, tableVars, rowVars
<1>1. pc' \in [Threads -> Places] /\ arg' \in [Threads -> Fds \cup {NoFd}]
  BY DEF Lookup, Goto, TypeOK, Places
<1>2. why' \in [Threads -> [by : {"nobody", "program", "io", "connect"}, event : Events]]
  BY DEF Lookup, TypeOK
<1>3. raced' \in BOOLEAN /\ regs' \in 0..MaxRegs
  BY HookAssumption DEF Lookup, TypeOK
<1> QED
  BY <1>1, <1>2, <1>3 DEF Lookup, TypeOK

LEMMA CallTypeOK ==
  ASSUME TypeOK, NEW t \in Threads, NEW f \in Fds, Call(t, f)
  PROVE  TypeOK'
<1> USE DEF kernelVars, tableVars, rowVars, callVars, logVars, At
<1>a. \A p \in Places : Goto(t, p) => pc' \in [Threads -> Places]
  BY DEF Goto, TypeOK
<1>b. {"ready", "get", "create", "cancel", "del", "closing", "resize", "register", "blocked"} = Places
  BY DEF Places
<1>c. arg' = [arg EXCEPT ![t] = f] => arg' \in [Threads -> Fds \cup {NoFd}]
  BY DEF TypeOK
<1>d. \A k \in {"socket", "other"} : Opened(f, k) => kind' \in [Fds -> {"free", "socket", "other"}] /\ opens' \in 0..MaxOpens
  BY HookAssumption DEF Opened, TypeOK
<1>e. Events = {"READ", "WRITE"}
  BY DEF Events
<1>1. ASSUME NEW k \in {"socket", "other"}, Open(t, f, k) PROVE TypeOK'
  <2>1. /\ pc' \in [Threads -> Places] /\ arg' \in [Threads -> Fds \cup {NoFd}]
        /\ kind' \in [Fds -> {"free", "socket", "other"}] /\ opens' \in 0..MaxOpens
    BY <1>a, <1>b, <1>c, <1>d, <1>1 DEF Open, TypeOK
  <2> QED
    BY <1>1, <2>1 DEF Open, TypeOK
<1>2. ASSUME NEW l \in Fds, Accept(t, l, f) PROVE TypeOK'
  <2>1. /\ pc' \in [Threads -> Places] /\ arg' \in [Threads -> Fds \cup {NoFd}]
        /\ kind' \in [Fds -> {"free", "socket", "other"}] /\ opens' \in 0..MaxOpens
    BY <1>a, <1>b, <1>c, <1>d, <1>2 DEF Accept
  <2> QED
    BY <1>2, <2>1 DEF Accept, TypeOK
<1>3. CASE CloseUnhooked(t, f)
  <2>1. kind' \in [Fds -> {"free", "socket", "other"}] /\ nonblock' \in [Fds -> BOOLEAN]
    BY <1>3 DEF CloseUnhooked, Closed, TypeOK
  <2>2. watch' \in [Fds -> SUBSET Events] /\ known' \subseteq Fds /\ spoiled' \subseteq Fds
    BY <1>3 DEF CloseUnhooked, Closed, TypeOK
  <2>3. wish' \in [Fds -> Wishes]
    BY <1>3, DefaultType DEF CloseUnhooked, Closed, TypeOK
  <2> QED
    BY <1>3, <2>1, <2>2, <2>3 DEF CloseUnhooked, TypeOK
<1>4. CASE Close(t, f)
  <2>1. pc' \in [Threads -> Places] /\ spoiled' \subseteq Fds
    BY <1>a, <1>b, <1>4 DEF Close, TypeOK
  <2> QED
    BY <1>c, <1>4, <2>1 DEF Close, TypeOK
<1>5. ASSUME NEW v \in BOOLEAN, SetFl(t, f, v) \/ Ioctl(t, f, v) PROVE TypeOK'
  <2>1. wish' \in [Fds -> Wishes] /\ sets' \in 0..MaxSets
    BY <1>5, WishType DEF SetFl, Ioctl
  <2>2. datas' \in [Fds -> Ctxs]
    <3>1. datas' = datas \/ datas' = [datas EXCEPT ![f].own["nonblock"] = v]
      BY <1>5 DEF SetFl, Ioctl
    <3> QED
      BY <3>1, OwnWritten DEF TypeOK, Ctxs
  <2>3. nonblock' \in [Fds -> BOOLEAN] /\ spoiled' \subseteq Fds
    BY <1>5 DEF SetFl, Ioctl, TypeOK
  <2> QED
    BY <1>5, <2>1, <2>2, <2>3 DEF SetFl, Ioctl, TypeOK, Ctxs
<1>6. ASSUME NEW e \in Events, SetTimeout(t, f, e) PROVE TypeOK'
  <2>1. wish' \in [Fds -> Wishes] /\ sets' \in 0..MaxSets
    BY <1>6, <1>e, WishType DEF SetTimeout, Timeouts, Events
  <2>2. datas' \in [Fds -> Ctxs]
    <3>1. datas' = datas \/ datas' = [datas EXCEPT ![f].own[e] = TRUE]
      BY <1>6 DEF SetTimeout
    <3> QED
      BY <1>e, <3>1, OwnWritten DEF TypeOK, Ctxs
  <2> QED
    BY <1>6, <2>1, <2>2 DEF SetTimeout, TypeOK, Ctxs
<1>7. CASE \/ \E e \in Events : IoAgain(t, f, e)
           \/ ProgramAwaits(t, f) \/ ConnectInProgress(t, f)
  BY <1>7, <1>e, LookupTypeOK DEF IoAgain, ProgramAwaits, ConnectInProgress
<1>8. CASE Block(t, f)
  BY <1>a, <1>b, <1>c, <1>8 DEF Block, TypeOK
<1> QED
  BY <1>1, <1>2, <1>3, <1>4, <1>5, <1>6, <1>7, <1>8 DEF Call

LEMMA DeliverTypeOK ==
  ASSUME TypeOK, NEW f \in Fds, NEW e \in Events, Deliver(f, e), pending' \in Nat
  PROVE  TypeOK'
BY DEF Deliver, TypeOK, tableVars, callVars, logVars

-----------------------------------------------------------------------------
(* Calls and their descriptors                                             *)

\* A call goes on, and nobody opens or closes.
LEMMA CallGoesOn ==
  ASSUME TypeOK, CallInv, NEW t \in Threads, NEW p, pc' = [pc EXCEPT ![t] = p], pc[t] # "ready",
         p # "ready", UNCHANGED <<arg, kind>>, p \in Sole => pc[t] \in Sole,
         p \in {"get", "create"} => pc[t] \in {"get", "create"}
  PROVE  CallInv'
BY DEF TypeOK, CallInv

\* A call returns.
LEMMA CallReturns ==
  ASSUME TypeOK, CallInv, NEW t \in Threads, Return(t),
         \A u \in Threads \ {t} : pc[u] # "ready" => kind'[arg[u]] = kind[arg[u]]
  PROVE  CallInv'
<1>1. pc' = [pc EXCEPT ![t] = "ready"] /\ arg' = [arg EXCEPT ![t] = NoFd]
  BY DEF Return, Goto
<1>2. \A u \in Threads : pc[u] \in Sole => arg[u] # NoFd
  BY FdTypes DEF CallInv, Sole
<1> QED
  BY <1>1, <1>2 DEF TypeOK, CallInv, Sole

\* A call begins, on a descriptor that is open when the step is over and that
\* nobody else has when it is opened or closed.
LEMMA CallBegins ==
  ASSUME TypeOK, CallInv, NEW t \in Threads, NEW f \in Fds, NEW p, pc[t] = "ready", p # "ready",
         pc' = [pc EXCEPT ![t] = p], arg' = [arg EXCEPT ![t] = f],
         kind'[f] # "free", p \in {"get", "create"} => kind'[f] = "socket",
         \A g \in Fds : g # f => kind'[g] = kind[g],
         \A u \in Threads : arg[u] = f => kind'[f] = kind[f],
         \A u \in Threads : arg[u] = f => pc[u] \notin Sole,
         p \in Sole => \A u \in Threads : arg[u] # f
  PROVE  CallInv'
<1>1. \A u \in Threads \ {t} : pc'[u] = pc[u] /\ arg'[u] = arg[u]
  BY DEF TypeOK
<1>2. pc'[t] = p /\ arg'[t] = f /\ f # NoFd
  BY FdTypes DEF TypeOK
<1>3. \A u \in Threads : (pc[u] = "ready" <=> arg[u] = NoFd) /\ (pc[u] # "ready" => arg[u] \in Fds)
  BY DEF TypeOK, CallInv
<1>4. \A u \in Threads : (pc[u] = "ready" <=> arg[u] = NoFd)'
  BY <1>1, <1>2, <1>3
<1>5. \A u \in Threads \ {t} : pc[u] # "ready" => kind'[arg[u]] = kind[arg[u]]
  BY <1>3
<1>6. \A u \in Threads : (pc[u] # "ready" => kind[arg[u]] # "free")'
  BY <1>1, <1>2, <1>5 DEF CallInv
<1>7. \A u \in Threads : (pc[u] \in {"get", "create"} => kind[arg[u]] = "socket")'
  BY <1>1, <1>2, <1>5 DEF CallInv
<1>8. \A u, v \in Threads : (u # v /\ pc[u] \in Sole => arg[v] # arg[u])'
  BY <1>1, <1>2 DEF CallInv
<1> QED
  BY <1>4, <1>6, <1>7, <1>8 DEF CallInv

LEMMA StepCallInv ==
  ASSUME TypeOK, CallInv, NEW t \in Threads, Step(t)
  PROVE  CallInv'
<1> USE DEF kernelVars, tableVars, rowVars, callVars, logVars, At
<1>1. CASE EnableHook(t)
  BY <1>1 DEF EnableHook, CallInv
<1>2. CASE GetShared(t)
  <2>1. CASE Return(t)
    BY <1>2, <2>1, CallReturns DEF GetShared
  <2>2. CASE ~Return(t)
    <3>1. pc[t] = "get" /\ pc' = [pc EXCEPT ![t] = "create"] /\ UNCHANGED <<arg, kind>>
      BY <1>2, <2>2 DEF GetShared, Goto
    <3> QED
      BY <3>1, CallGoesOn DEF Sole
  <2> QED
    BY <2>1, <2>2
<1>3. CASE GetCreate(t) \/ Register(t) \/ Unblock(t)
  BY <1>3, CallReturns DEF GetCreate, Register, Unblock
<1>4. CASE CancelAll(t)
  <2>1. pc[t] = "cancel" /\ pc' = [pc EXCEPT ![t] = "del"] /\ UNCHANGED <<arg, kind>>
    BY <1>4 DEF CancelAll, Goto
  <2> QED
    BY <2>1, CallGoesOn DEF Sole
<1>5. CASE Del(t)
  <2>1. pc[t] = "del" /\ pc' = [pc EXCEPT ![t] = "closing"] /\ UNCHANGED <<arg, kind>>
    BY <1>5 DEF Del, Goto
  <2> QED
    BY <2>1, CallGoesOn DEF Sole
<1>6. CASE CloseEnd(t)
  <2>1. pc[t] = "closing" /\ Return(t) /\ kind' = [kind EXCEPT ![arg[t]] = "free"]
    BY <1>6 DEF CloseEnd, Closed
  <2>2. \A u \in Threads \ {t} : arg[u] # arg[t]
    BY <2>1 DEF CallInv, Sole
  <2>3. \A u \in Threads \ {t} : pc[u] # "ready" => kind'[arg[u]] = kind[arg[u]]
    BY <2>1, <2>2, ArgType DEF TypeOK
  <2> QED
    BY <2>1, <2>3, CallReturns
<1>7. CASE ContextResize(t)
  <2>1. pc[t] = "resize" /\ pc' = [pc EXCEPT ![t] = "register"] /\ UNCHANGED <<arg, kind>>
    BY <1>7 DEF ContextResize, Goto
  <2> QED
    BY <2>1, CallGoesOn DEF Sole
<1> QED
  BY <1>1, <1>2, <1>3, <1>4, <1>5, <1>6, <1>7 DEF Step

\* A free descriptor is nobody's.
LEMMA FreeIsUnused ==
  ASSUME TypeOK, CallInv, NEW f \in Fds, kind[f] = "free"
  PROVE  \A u \in Threads : arg[u] # f
<1>1. \A u \in Threads : pc[u] = "ready" => arg[u] # f
  BY FdTypes DEF CallInv
<1> QED
  BY <1>1 DEF CallInv

LEMMA LookupCallInv ==
  ASSUME TypeOK, CallInv, NEW t \in Threads, NEW f \in Fds, NEW e, NEW by,
         Calls(t, f), Lookup(t, f, by, e)
  PROVE  CallInv'
<1>1. PICK p \in {"register", "resize"} : pc' = [pc EXCEPT ![t] = p]
  BY DEF Lookup, Goto
<1>2. pc[t] = "ready" /\ arg' = [arg EXCEPT ![t] = f] /\ kind' = kind /\ kind[f] # "free"
  BY DEF Lookup, Calls, At, kernelVars
<1>3. \A u \in Threads : arg[u] = f => pc[u] \notin Sole
  BY DEF Calls, Sole
<1>4. p \notin Sole /\ p # "ready" /\ p \notin {"get", "create"}
  BY DEF Sole
<1> QED
  BY <1>1, <1>2, <1>3, <1>4, CallBegins

LEMMA CallCallInv ==
  ASSUME TypeOK, CallInv, NEW t \in Threads, NEW f \in Fds, Call(t, f)
  PROVE  CallInv'
<1> USE DEF kernelVars, tableVars, rowVars, callVars, logVars, At
<1>a. UNCHANGED <<pc, arg, kind>> => CallInv'
  BY DEF CallInv
<1>1. ASSUME NEW k \in {"socket", "other"}, Open(t, f, k) PROVE CallInv'
  <2>1. kind[f] = "free" /\ kind' = [kind EXCEPT ![f] = k] /\ pc[t] = "ready"
    BY <1>1 DEF Open, Opened
  <2>2. \A u \in Threads : arg[u] # f
    BY <2>1, FreeIsUnused
  <2>3. CASE t \in hooked /\ k = "socket"
    <3>1. pc' = [pc EXCEPT ![t] = "get"] /\ arg' = [arg EXCEPT ![t] = f]
      BY <1>1, <2>3 DEF Open, Goto
    <3>2. kind'[f] = "socket" /\ \A g \in Fds : g # f => kind'[g] = kind[g]
      BY <2>1, <2>3 DEF TypeOK
    <3> QED
      BY <2>1, <2>2, <3>1, <3>2, CallBegins
  <2>4. CASE ~(t \in hooked /\ k = "socket")
    <3>1. pc' = pc /\ arg' = arg
      BY <1>1, <2>4 DEF Open
    <3>2. \A u \in Threads : pc[u] # "ready" => kind'[arg[u]] = kind[arg[u]]
      BY <2>1, <2>2, ArgType DEF TypeOK
    <3> QED
      BY <3>1, <3>2 DEF CallInv
  <2> QED
    BY <2>3, <2>4
<1>2. ASSUME NEW l \in Fds, Accept(t, l, f) PROVE CallInv'
  <2>1. /\ kind[f] = "free" /\ kind' = [kind EXCEPT ![f] = "socket"] /\ pc[t] = "ready"
        /\ pc' = [pc EXCEPT ![t] = "get"] /\ arg' = [arg EXCEPT ![t] = f]
    BY <1>2 DEF Accept, Opened, Calls, Goto
  <2>2. \A u \in Threads : arg[u] # f
    BY <2>1, FreeIsUnused
  <2>3. kind'[f] = "socket" /\ \A g \in Fds : g # f => kind'[g] = kind[g]
    BY <2>1 DEF TypeOK
  <2> QED
    BY <2>1, <2>2, <2>3, CallBegins
<1>3. CASE CloseUnhooked(t, f)
  <2>1. kind' = [kind EXCEPT ![f] = "free"] /\ UNCHANGED <<pc, arg>> /\ \A u \in Threads : arg[u] # f
    BY <1>3 DEF CloseUnhooked, Closed
  <2>2. \A u \in Threads : pc[u] # "ready" => kind'[arg[u]] = kind[arg[u]]
    BY <2>1, ArgType DEF TypeOK
  <2> QED
    BY <2>1, <2>2 DEF CallInv
<1>4. CASE Close(t, f)
  <2>1. PICK p \in {"cancel", "closing"} : pc' = [pc EXCEPT ![t] = p]
    BY <1>4 DEF Close, Goto
  <2>2. /\ pc[t] = "ready" /\ arg' = [arg EXCEPT ![t] = f] /\ kind' = kind /\ kind[f] # "free"
        /\ \A u \in Threads : arg[u] # f
    BY <1>4 DEF Close, Calls
  <2> QED
    BY <2>1, <2>2, CallBegins
<1>5. CASE \/ \E v \in BOOLEAN : SetFl(t, f, v) \/ Ioctl(t, f, v)
           \/ \E e \in Events : SetTimeout(t, f, e)
  BY <1>a, <1>5 DEF SetFl, Ioctl, SetTimeout
<1>6. CASE \/ \E e \in Events : IoAgain(t, f, e)
           \/ ProgramAwaits(t, f) \/ ConnectInProgress(t, f)
  BY <1>6, LookupCallInv DEF IoAgain, ProgramAwaits, ConnectInProgress
<1>7. CASE Block(t, f)
  <2>1. /\ pc[t] = "ready" /\ pc' = [pc EXCEPT ![t] = "blocked"] /\ arg' = [arg EXCEPT ![t] = f]
        /\ kind' = kind /\ kind[f] # "free"
    BY <1>7 DEF Block, Calls, Goto
  <2>2. (\A u \in Threads : arg[u] = f => pc[u] \notin Sole) /\ "blocked" \notin Sole
    BY <1>7 DEF Block, Calls, Sole
  <2> QED
    BY <2>1, <2>2, CallBegins
<1> QED
  BY <1>1, <1>2, <1>3, <1>4, <1>5, <1>6, <1>7 DEF Call

-----------------------------------------------------------------------------
(* Contexts and settings                                                   *)

OwnerInv == TableInv /\ FreshInv /\ KnownInv /\ OwnInv /\ WaitInv

\* Inside the table get() finds what is stored.
LEMMA ManagedIsThere ==
  ASSUME TypeOK, TableInv, NEW f \in Fds
  PROVE  /\ Get(f).there <=> datas[f].there
         /\ Managed(f) <=> datas[f].there
         /\ datas[f].there => Get(f) = datas[f]
<1>1. size \in Nat /\ f \in Nat
  BY SizeTypes, FdTypes
<1>2. CASE size <= f
  <2>1. ~datas[f].there
    BY <1>1, <1>2 DEF TableInv
  <2> QED
    BY <1>2, <2>1, DefaultType DEF Get, Managed
<1>3. CASE ~(size <= f)
  <2>1. Get(f) = datas[f]
    BY <1>3 DEF Get
  <2> QED
    BY <2>1 DEF Managed, TableInv
<1> QED
  BY <1>2, <1>3

\* A thread moves at places that contexts have nothing to do with.
LEMMA OwnerFrame ==
  ASSUME TypeOK, OwnerInv, NEW t \in Threads, NEW p, pc' = [pc EXCEPT ![t] = p],
         p \notin {"get", "create", "cancel", "del", "closing", "blocked"},
         pc[t] \notin {"cancel", "del", "closing"},
         \A u \in Threads \ {t} : arg'[u] = arg[u],
         UNCHANGED <<kind, nonblock, datas, size, wish, known, spoiled>>
  PROVE  OwnerInv'
<1>1. \A u \in Threads \ {t} : pc'[u] = pc[u] /\ arg'[u] = arg[u]
  BY DEF TypeOK
<1>2. pc'[t] = p
  BY DEF TypeOK
<1>3. Closing' = Closing
  BY <1>1, <1>2 DEF Closing
<1>4. TableInv' /\ FreshInv'
  BY <1>1, <1>2 DEF OwnerInv, TableInv, FreshInv
<1>5. KnownInv' /\ OwnInv'
  BY <1>3 DEF OwnerInv, KnownInv, OwnInv
<1>6. WaitInv'
  BY <1>1, <1>2 DEF OwnerInv, WaitInv
<1> QED
  BY <1>4, <1>5, <1>6 DEF OwnerInv

LEMMA OwnerStays ==
  ASSUME OwnerInv, UNCHANGED <<kind, nonblock, datas, size, pc, arg, wish, known, spoiled>>
  PROVE  OwnerInv'
BY DEF OwnerInv, TableInv, FreshInv, KnownInv, OwnInv, WaitInv, Closing

LEMMA GetSharedOwner ==
  ASSUME TypeOK, CallInv, OwnerInv, NEW t \in Threads, GetShared(t)
  PROVE  OwnerInv'
<1> USE DEF kernelVars, tableVars, rowVars, At
<1>0. pc[t] = "get" /\ arg[t] \in Fds /\ UNCHANGED <<kind, nonblock, datas, size, wish, spoiled>>
  BY ArgType DEF GetShared
<1>1. CASE Get(arg[t]).there
  <2>1. /\ pc' = [pc EXCEPT ![t] = "ready"] /\ arg' = [arg EXCEPT ![t] = NoFd]
        /\ known' = known \cup {arg[t]}
    BY <1>1 DEF GetShared, Return, Goto
  <2>2. datas[arg[t]].there /\ arg[t] \in spoiled
    BY <1>0, <1>1, ManagedIsThere DEF OwnerInv, FreshInv
  <2>3. \A u \in Threads \ {t} : pc'[u] = pc[u] /\ arg'[u] = arg[u]
    BY <2>1 DEF TypeOK
  <2>4. pc'[t] = "ready"
    BY <2>1 DEF TypeOK
  <2>5. Closing' = Closing
    BY <1>0, <2>3, <2>4 DEF Closing
  <2>6. TableInv' /\ FreshInv'
    BY <1>0, <2>3, <2>4 DEF OwnerInv, TableInv, FreshInv
  <2>7. KnownInv' /\ OwnInv'
    BY <1>0, <2>1, <2>2, <2>5 DEF OwnerInv, KnownInv, OwnInv
  <2>8. WaitInv'
    BY <1>0, <2>1, <2>2, <2>3, <2>4 DEF OwnerInv, WaitInv
  <2> QED
    BY <2>6, <2>7, <2>8 DEF OwnerInv
<1>2. CASE ~Get(arg[t]).there
  <2>1. pc' = [pc EXCEPT ![t] = "create"] /\ UNCHANGED <<arg, known>>
    BY <1>2 DEF GetShared, Goto
  <2>2. Closing' = Closing
    BY <1>0, <2>1 DEF Closing, TypeOK
  <2>3. TableInv' /\ FreshInv' /\ WaitInv'
    BY <1>0, <2>1 DEF OwnerInv, TableInv, FreshInv, WaitInv, TypeOK
  <2>4. KnownInv' /\ OwnInv'
    BY <1>0, <2>1, <2>2 DEF OwnerInv, KnownInv, OwnInv
  <2> QED
    BY <2>3, <2>4 DEF OwnerInv
<1> QED
  BY <1>1, <1>2

LEMMA GetCreateOwner ==
  ASSUME TypeOK, CallInv, OwnerInv, NEW t \in Threads, GetCreate(t)
  PROVE  OwnerInv'
<1> USE DEF kernelVars, tableVars, rowVars, At
<1> DEFINE f == arg[t]
<1>0. /\ pc[t] = "create" /\ f \in Fds /\ kind[f] = "socket"
      /\ pc' = [pc EXCEPT ![t] = "ready"] /\ arg' = [arg EXCEPT ![t] = NoFd]
      /\ nonblock' = [nonblock EXCEPT ![f] = @ \/ kind[f] = "socket"] /\ known' = known \cup {f}
      /\ size' = DataSizeFor(f) /\ UNCHANGED <<kind, wish, spoiled>>
  BY ArgType DEF GetCreate, CallInv, Return, Goto
<1>1. size \in Nat /\ f \in Nat /\ 2 <= size
  BY <1>0, SizeTypes, FdTypes DEF OwnerInv, TableInv
<1>2. size <= size' /\ f < size' /\ size' \in Nat
  <2>1. CASE size <= f
    BY <1>0, <1>1, <2>1, FdTypes DEF DataSizeFor
  <2>2. CASE ~(size <= f)
    BY <1>0, <1>1, <2>2 DEF DataSizeFor
  <2> QED
    BY <2>1, <2>2
<1>3. /\ datas'[f] = [socket |-> TRUE, own |-> Default, there |-> TRUE]
      /\ \A g \in Fds : g # f => datas'[g] = IF g < size' /\ g < size THEN datas[g] ELSE NoCtx
  BY <1>0 DEF GetCreate
<1>4. \A g \in Fds : g # f /\ datas[g].there => datas'[g] = datas[g]
  <2>1. \A g \in Fds : datas[g].there => g < size /\ g \in Nat
    BY FdTypes DEF OwnerInv, TableInv
  <2> QED
    BY <1>1, <1>2, <1>3, <2>1
<1>5. \A g \in Fds : g # f /\ datas'[g].there => datas[g].there /\ datas'[g] = datas[g] /\ g < size'
  BY <1>3, DefaultType
<1>6. \A u \in Threads \ {t} : pc'[u] = pc[u] /\ arg'[u] = arg[u] /\ arg[u] # f
  BY <1>0 DEF TypeOK, CallInv, Sole
<1>7. pc'[t] = "ready"
  BY <1>0 DEF TypeOK
<1>8. Closing' = Closing /\ f \notin Closing
  <2>1. \A u \in Threads : pc[u] \in {"cancel", "del", "closing"} => u # t
    BY <1>0
  <2> QED
    BY <1>6, <1>7, <2>1 DEF Closing
<1>9. nonblock'[f] /\ \A g \in Fds : g # f => nonblock'[g] = nonblock[g]
  BY <1>0 DEF TypeOK
<1>10. TableInv'
  <2>1. 2 <= size'
    BY <1>1, <1>2
  <2>2. \A g \in Fds : datas'[g].there => datas'[g].socket /\ g < size'
    BY <1>2, <1>3, <1>5 DEF OwnerInv, TableInv
  <2>3. \A u \in Threads : pc'[u] = "closing" => ~datas'[arg'[u]].there
    BY <1>5, <1>6, <1>7, ArgType DEF OwnerInv, TableInv
  <2> QED
    BY <2>1, <2>2, <2>3 DEF TableInv
<1>11. FreshInv'
  <2>1. \A g \in Fds : (kind[g] = "free" => (datas[g].there => g \in spoiled) /\ wish[g] = NoWish)'
    BY <1>0, <1>5 DEF OwnerInv, FreshInv
  <2>2. ASSUME NEW u \in Threads, pc'[u] \in {"get", "create"}
        PROVE  (datas'[arg'[u]].there => arg'[u] \in spoiled') /\ wish'[arg'[u]] = NoWish
    <3>1. u # t /\ pc'[u] = pc[u] /\ arg'[u] = arg[u] /\ arg[u] \in Fds /\ arg[u] # f
      BY <1>6, <1>7, <2>2, ArgType
    <3> QED
      BY <1>0, <1>5, <2>2, <3>1 DEF OwnerInv, FreshInv
  <2> QED
    BY <2>1, <2>2 DEF FreshInv
<1>12. KnownInv'
  BY <1>0, <1>3, <1>4, <1>8 DEF OwnerInv, KnownInv, TypeOK
<1>13. OwnInv'
  <2>1. wish[f] = NoWish
    BY <1>0 DEF OwnerInv, FreshInv
  <2>2. datas'[f].own = Default
    BY <1>3
  <2>3. ASSUME NEW g \in known' \ spoiled', g # f
        PROVE  nonblock'[g] /\ (g \notin Closing' => Agrees(datas'[g].own, wish'[g]))
    <3>1. g \in known \ spoiled /\ g \in Fds
      BY <1>0, <2>3 DEF TypeOK
    <3>2. g \notin Closing => datas'[g] = datas[g]
      BY <1>4, <2>3, <3>1 DEF OwnerInv, KnownInv
    <3> QED
      BY <1>0, <1>8, <1>9, <2>3, <3>1, <3>2 DEF OwnerInv, OwnInv
  <2> QED
    BY <1>0, <1>9, <2>1, <2>2, <2>3, DefaultType DEF OwnInv
<1>14. WaitInv'
  BY <1>0, <1>6, <1>7 DEF OwnerInv, WaitInv
<1> QED
  BY <1>10, <1>11, <1>12, <1>13, <1>14 DEF OwnerInv

LEMMA DelOwner ==
  ASSUME TypeOK, CallInv, OwnerInv, NEW t \in Threads, Del(t)
  PROVE  OwnerInv'
<1> USE DEF kernelVars, tableVars, rowVars, logVars, At
<1> DEFINE f == arg[t]
<1>0. /\ pc[t] = "del" /\ f \in Fds /\ pc' = [pc EXCEPT ![t] = "closing"]
      /\ UNCHANGED <<kind, nonblock, size, arg, wish, known, spoiled>>
  BY ArgType DEF Del, Goto
<1>1. ~datas'[f].there /\ \A g \in Fds : g # f => datas'[g] = datas[g]
  <2>1. CASE size <= f
    <3>1. ~datas[f].there
      BY <1>0, <2>1, SizeTypes, FdTypes DEF OwnerInv, TableInv
    <3> QED
      BY <2>1, <3>1 DEF Del
  <2>2. CASE ~(size <= f)
    BY <1>0, <2>2, DefaultType DEF Del, TypeOK
  <2> QED
    BY <2>1, <2>2
<1>2. \A u \in Threads \ {t} : pc'[u] = pc[u] /\ arg[u] # f
  BY <1>0 DEF TypeOK, CallInv, Sole
<1>3. pc'[t] = "closing"
  BY <1>0 DEF TypeOK
<1>4. Closing' = Closing /\ f \in Closing
  BY <1>0, <1>2, <1>3 DEF Closing
<1>5. TableInv'
  <2>1. \A g \in Fds : datas'[g].there => datas'[g].socket /\ g < size'
    BY <1>0, <1>1 DEF OwnerInv, TableInv
  <2>2. \A u \in Threads : pc'[u] = "closing" => ~datas'[arg'[u]].there
    BY <1>0, <1>1, <1>2, ArgType DEF OwnerInv, TableInv
  <2> QED
    BY <1>0, <2>1, <2>2 DEF OwnerInv, TableInv
<1>6. FreshInv'
  <2>1. \A g \in Fds : (kind[g] = "free" => (datas[g].there => g \in spoiled) /\ wish[g] = NoWish)'
    BY <1>0, <1>1 DEF OwnerInv, FreshInv
  <2>2. \A u \in Threads : (pc[u] \in {"get", "create"} =>
                              (datas[arg[u]].there => arg[u] \in spoiled) /\ wish[arg[u]] = NoWish)'
    BY <1>0, <1>1, <1>2, <1>3, ArgType DEF OwnerInv, FreshInv
  <2> QED
    BY <2>1, <2>2 DEF FreshInv
<1>7. KnownInv' /\ OwnInv'
  <2>1. known \subseteq Fds
    BY DEF TypeOK
  <2>2. \A g \in known \ Closing : g # f /\ g \in Fds /\ datas'[g] = datas[g]
    BY <1>1, <1>4, <2>1
  <2>3. KnownInv'
    BY <1>0, <1>4, <2>2 DEF OwnerInv, KnownInv
  <2>4. OwnInv'
    BY <1>0, <1>4, <2>2 DEF OwnerInv, OwnInv
  <2> QED
    BY <2>3, <2>4
<1>8. WaitInv'
  BY <1>0, <1>2, <1>3 DEF OwnerInv, WaitInv
<1> QED
  BY <1>5, <1>6, <1>7, <1>8 DEF OwnerInv

\* A descriptor is closed that nobody else has, and whose context is gone or whose
\* number is spoiled.
LEMMA ClosedOwner ==
  ASSUME TypeOK, CallInv, OwnerInv, NEW f \in Fds, NEW t \in Threads, Closed(f),
         spoiled \subseteq spoiled', datas[f].there => f \in spoiled',
         pc[t] \in {"ready", "closing"}, pc[t] = "closing" => arg[t] = f,
         \A u \in Threads \ {t} : pc'[u] = pc[u] /\ arg'[u] = arg[u] /\ arg[u] # f,
         pc'[t] = "ready", UNCHANGED <<datas, size>>
  PROVE  OwnerInv'
<1>0. /\ kind'[f] = "free" /\ wish'[f] = NoWish /\ known' = known \ {f}
      /\ \A g \in Fds : g # f => kind'[g] = kind[g] /\ wish'[g] = wish[g] /\ nonblock'[g] = nonblock[g]
  BY DEF Closed, TypeOK
<1>1. \A u \in Threads : pc'[u] # "ready" => u # t /\ pc'[u] = pc[u] /\ arg'[u] = arg[u] /\ arg[u] \in Fds /\ arg[u] # f
  BY ArgType
<1>2. \A g \in Fds : g # f => (g \in Closing' <=> g \in Closing)
  BY DEF Closing
<1>3. TableInv'
  <2>1. \A u \in Threads : pc'[u] = "closing" => ~datas'[arg'[u]].there
    BY <1>1 DEF OwnerInv, TableInv
  <2> QED
    BY <2>1 DEF OwnerInv, TableInv
<1>4. FreshInv'
  <2>1. \A g \in Fds : (kind[g] = "free" => (datas[g].there => g \in spoiled) /\ wish[g] = NoWish)'
    BY <1>0 DEF OwnerInv, FreshInv
  <2>2. \A u \in Threads : (pc[u] \in {"get", "create"} =>
                              (datas[arg[u]].there => arg[u] \in spoiled) /\ wish[arg[u]] = NoWish)'
    BY <1>0, <1>1 DEF OwnerInv, FreshInv
  <2> QED
    BY <2>1, <2>2 DEF FreshInv
<1>5. \A g \in known' : g \in known /\ g # f /\ g \in Fds
  BY <1>0 DEF TypeOK
<1>6. KnownInv'
  BY <1>2, <1>5 DEF OwnerInv, KnownInv
<1>7. OwnInv'
  BY <1>0, <1>2, <1>5 DEF OwnerInv, OwnInv
<1>8. WaitInv'
  BY <1>1, <1>5 DEF OwnerInv, WaitInv
<1> QED
  BY <1>3, <1>4, <1>6, <1>7, <1>8 DEF OwnerInv

LEMMA StepOwner ==
  ASSUME TypeOK, CallInv, OwnerInv, NEW t \in Threads, Step(t)
  PROVE  OwnerInv'
<1> USE DEF kernelVars, tableVars, rowVars, callVars, logVars, At
<1>1. CASE EnableHook(t)
  BY <1>1, OwnerStays DEF EnableHook
<1>2. CASE GetShared(t)
  BY <1>2, GetSharedOwner
<1>3. CASE GetCreate(t)
  BY <1>3, GetCreateOwner
<1>4. CASE CancelAll(t)
  <2>1. /\ pc[t] = "cancel" /\ pc' = [pc EXCEPT ![t] = "del"]
        /\ UNCHANGED <<kind, nonblock, datas, size, arg, wish, known, spoiled>>
    BY <1>4 DEF CancelAll, Goto
  <2>2. \A u \in Threads \ {t} : pc'[u] = pc[u]
    BY <2>1 DEF TypeOK
  <2>3. pc'[t] = "del"
    BY <2>1 DEF TypeOK
  <2>4. Closing' = Closing
    BY <2>1, <2>2, <2>3 DEF Closing
  <2>5. TableInv' /\ FreshInv' /\ WaitInv'
    BY <2>1, <2>2, <2>3 DEF OwnerInv, TableInv, FreshInv, WaitInv
  <2>6. KnownInv' /\ OwnInv'
    BY <2>1, <2>4 DEF OwnerInv, KnownInv, OwnInv
  <2> QED
    BY <2>5, <2>6 DEF OwnerInv
<1>5. CASE Del(t)
  BY <1>5, DelOwner
<1>6. CASE CloseEnd(t)
  <2>1. /\ pc[t] = "closing" /\ Closed(arg[t]) /\ arg[t] \in Fds
        /\ pc' = [pc EXCEPT ![t] = "ready"] /\ arg' = [arg EXCEPT ![t] = NoFd]
        /\ UNCHANGED <<datas, size, spoiled>>
    BY <1>6, ArgType DEF CloseEnd, Return, Goto
  <2>2. \A u \in Threads \ {t} : pc'[u] = pc[u] /\ arg'[u] = arg[u] /\ arg[u] # arg[t]
    BY <2>1 DEF TypeOK, CallInv, Sole
  <2>3. pc'[t] = "ready" /\ ~datas[arg[t]].there
    BY <2>1 DEF TypeOK, OwnerInv, TableInv
  <2> QED
    BY <2>1, <2>2, <2>3, ClosedOwner
<1>7. CASE ContextResize(t)
  <2>1. /\ pc[t] = "resize" /\ pc' = [pc EXCEPT ![t] = "register"]
        /\ UNCHANGED <<arg, kind, nonblock, datas, size, wish, known, spoiled>>
    BY <1>7 DEF ContextResize, Goto
  <2> QED
    BY <2>1, OwnerFrame
<1>8. CASE Register(t) \/ Unblock(t)
  <2>1. /\ pc[t] \in {"register", "blocked"} /\ pc' = [pc EXCEPT ![t] = "ready"]
        /\ arg' = [arg EXCEPT ![t] = NoFd]
        /\ UNCHANGED <<kind, nonblock, datas, size, wish, known, spoiled>>
    BY <1>8 DEF Register, Unblock, Return, Goto
  <2>2. \A u \in Threads \ {t} : arg'[u] = arg[u]
    BY <2>1 DEF TypeOK
  <2> QED
    BY <2>1, <2>2, OwnerFrame
<1> QED
  BY <1>1, <1>2, <1>3, <1>4, <1>5, <1>6, <1>7, <1>8 DEF Step

\* A socket is opened: its number carries nothing but what was spoiled.
LEMMA OpenedOwner ==
  ASSUME TypeOK, CallInv, OwnerInv, NEW t \in Threads, NEW f \in Fds, NEW k, k # "free",
         kind[f] = "free", kind' = [kind EXCEPT ![f] = k], pc[t] = "ready",
         \/ pc' = [pc EXCEPT ![t] = "get"] /\ arg' = [arg EXCEPT ![t] = f]
         \/ UNCHANGED <<pc, arg>>,
         UNCHANGED <<nonblock, datas, size, wish, known, spoiled>>
  PROVE  OwnerInv'
<1>1. \A u \in Threads \ {t} : pc'[u] = pc[u] /\ arg'[u] = arg[u]
  BY DEF TypeOK
<1>2. pc'[t] = "ready" \/ (pc'[t] = "get" /\ arg'[t] = f)
  BY DEF TypeOK
<1>3. Closing' = Closing
  BY <1>1, <1>2 DEF Closing
<1>4. (datas[f].there => f \in spoiled) /\ wish[f] = NoWish
  BY DEF OwnerInv, FreshInv
<1>5. TableInv' /\ WaitInv'
  BY <1>1, <1>2 DEF OwnerInv, TableInv, WaitInv
<1>6. FreshInv'
  <2>1. \A g \in Fds : (kind[g] = "free" => (datas[g].there => g \in spoiled) /\ wish[g] = NoWish)'
    BY DEF OwnerInv, FreshInv, TypeOK
  <2>2. \A u \in Threads : (pc[u] \in {"get", "create"} =>
                              (datas[arg[u]].there => arg[u] \in spoiled) /\ wish[arg[u]] = NoWish)'
    BY <1>1, <1>2, <1>4 DEF OwnerInv, FreshInv
  <2> QED
    BY <2>1, <2>2 DEF FreshInv
<1>7. KnownInv' /\ OwnInv'
  BY <1>3 DEF OwnerInv, KnownInv, OwnInv
<1> QED
  BY <1>5, <1>6, <1>7 DEF OwnerInv

\* Something is set on a descriptor that nobody is opening or closing: in the
\* context, if there is one, and nothing makes a good one blocking.
LEMMA SettingOwner ==
  ASSUME TypeOK, CallInv, OwnerInv, NEW t \in Threads, NEW f \in Fds, Calls(t, f),
         NEW w \in {"nonblock", "READ", "WRITE"}, NEW v \in BOOLEAN, NEW x,
         x \in IF w = "nonblock" THEN BOOLEAN ELSE Timeouts, Wished(f, w, x),
         datas' = datas \/ datas' = [datas EXCEPT ![f].own[w] = v],
         datas[f].there /\ Agrees(datas[f].own, wish[f]) => Agrees(datas'[f].own, wish'[f]),
         \A g \in Fds : g # f => nonblock'[g] = nonblock[g],
         datas[f].there /\ f \notin spoiled' => nonblock'[f] \/ nonblock'[f] = nonblock[f],
         spoiled \subseteq spoiled',
         UNCHANGED <<kind, size, pc, arg, known>>
  PROVE  OwnerInv'
<1>0. \A u \in Threads : arg[u] = f => pc[u] \notin {"get", "create", "cancel", "del", "closing"}
  BY DEF Calls
<1>1. /\ \A g \in Fds : datas'[g].there = datas[g].there /\ datas'[g].socket = datas[g].socket
      /\ \A g \in Fds : g # f => datas'[g] = datas[g]
  BY OwnWritten
<1>2. \A g \in Fds : g # f => wish'[g] = wish[g]
  BY WishType
<1>3. Closing' = Closing /\ f \notin Closing
  BY <1>0 DEF Closing
<1>4. TableInv'
  <2>1. \A u \in Threads : pc[u] = "closing" => arg[u] \in Fds
    BY ArgType
  <2> QED
    BY <1>1, <2>1 DEF OwnerInv, TableInv
<1>5. FreshInv'
  <2>1. kind[f] # "free"
    BY DEF Calls
  <2>2. \A g \in Fds : (kind[g] = "free" => (datas[g].there => g \in spoiled) /\ wish[g] = NoWish)'
    BY <1>1, <1>2, <2>1 DEF OwnerInv, FreshInv
  <2>3. \A u \in Threads : pc[u] \in {"get", "create"} => arg[u] \in Fds /\ arg[u] # f
    BY <1>0, ArgType
  <2>4. \A u \in Threads : (pc[u] \in {"get", "create"} =>
                              (datas[arg[u]].there => arg[u] \in spoiled) /\ wish[arg[u]] = NoWish)'
    BY <1>1, <1>2, <2>3 DEF OwnerInv, FreshInv
  <2> QED
    BY <2>2, <2>4 DEF FreshInv
<1>6. KnownInv'
  BY <1>1, <1>3 DEF OwnerInv, KnownInv, TypeOK
<1>7. OwnInv'
  <2>1. ASSUME NEW g \in known \ spoiled' PROVE g \in known \ spoiled /\ g \in Fds
    BY DEF TypeOK
  <2>2. f \in known => datas[f].there
    BY <1>3 DEF OwnerInv, KnownInv
  <2>3. ASSUME f \in known \ spoiled' PROVE nonblock'[f] /\ Agrees(datas'[f].own, wish'[f])
    <3>1. nonblock[f] /\ Agrees(datas[f].own, wish[f])
      BY <1>3, <2>1, <2>3 DEF OwnerInv, OwnInv
    <3> QED
      BY <1>1, <1>2, <2>2, <2>3, <3>1
  <2>4. ASSUME NEW g \in known \ spoiled', g # f
        PROVE  nonblock'[g] /\ (g \notin Closing => Agrees(datas'[g].own, wish'[g]))
    BY <1>1, <1>2, <2>1, <2>4 DEF OwnerInv, OwnInv
  <2> QED
    BY <1>3, <2>3, <2>4 DEF OwnInv
<1>8. WaitInv'
  BY DEF OwnerInv, WaitInv
<1> QED
  BY <1>4, <1>5, <1>6, <1>7, <1>8 DEF OwnerInv

LEMMA CallOwner ==
  ASSUME TypeOK, CallInv, OwnerInv, NEW t \in Threads, NEW f \in Fds, Call(t, f)
  PROVE  OwnerInv'
<1> USE DEF kernelVars, tableVars, rowVars, callVars, logVars, At
<1>a. TableInv
  BY DEF OwnerInv
<1>1. ASSUME NEW k \in {"socket", "other"}, Open(t, f, k) PROVE OwnerInv'
  <2>1. /\ kind[f] = "free" /\ kind' = [kind EXCEPT ![f] = k] /\ pc[t] = "ready"
        /\ UNCHANGED <<nonblock, datas, size, wish, known, spoiled>>
    BY <1>1 DEF Open, Opened
  <2>2. \/ pc' = [pc EXCEPT ![t] = "get"] /\ arg' = [arg EXCEPT ![t] = f]
        \/ UNCHANGED <<pc, arg>>
    BY <1>1 DEF Open, Goto
  <2> QED
    BY <2>1, <2>2, OpenedOwner
<1>2. ASSUME NEW l \in Fds, Accept(t, l, f) PROVE OwnerInv'
  <2>1. /\ kind[f] = "free" /\ kind' = [kind EXCEPT ![f] = "socket"] /\ pc[t] = "ready"
        /\ pc' = [pc EXCEPT ![t] = "get"] /\ arg' = [arg EXCEPT ![t] = f]
        /\ UNCHANGED <<nonblock, datas, size, wish, known, spoiled>>
    BY <1>2 DEF Accept, Opened, Calls, Goto
  <2> QED
    BY <2>1, OpenedOwner
<1>3. CASE CloseUnhooked(t, f)
  <2>1. /\ Closed(f) /\ pc[t] = "ready" /\ \A u \in Threads : arg[u] # f
        /\ UNCHANGED <<datas, size, pc, arg>>
    BY <1>3 DEF CloseUnhooked, Calls
  <2>2. spoiled \subseteq spoiled' /\ (datas[f].there => f \in spoiled')
    BY <1>a, <1>3, ManagedIsThere DEF CloseUnhooked
  <2> QED
    BY <2>1, <2>2, ClosedOwner
<1>4. CASE Close(t, f)
  <2>1. /\ pc[t] = "ready" /\ arg' = [arg EXCEPT ![t] = f] /\ spoiled \subseteq spoiled'
        /\ pc' = [pc EXCEPT ![t] = IF Get(f).there THEN "cancel" ELSE "closing"]
        /\ UNCHANGED <<kind, nonblock, datas, size, wish, known>>
    BY <1>4 DEF Close, Calls, Goto
  <2>2. \A u \in Threads \ {t} : pc'[u] = pc[u] /\ arg'[u] = arg[u]
    BY <2>1
  <2>3. /\ arg'[t] = f /\ pc'[t] \in {"cancel", "closing"}
        /\ pc'[t] = "closing" => ~datas[f].there
    BY <1>a, <2>1, ManagedIsThere DEF TypeOK
  <2>4. \A g : g \in Closing => g \in Closing'
    <3>1. \A u \in Threads : pc[u] \in {"cancel", "del", "closing"} => u # t
      BY <2>1
    <3> QED
      BY <2>2, <3>1 DEF Closing
  <2>5. TableInv' /\ WaitInv'
    BY <2>1, <2>2, <2>3 DEF OwnerInv, TableInv, WaitInv
  <2>6. FreshInv'
    BY <2>1, <2>2, <2>3 DEF OwnerInv, FreshInv
  <2>7. KnownInv' /\ OwnInv'
    BY <2>1, <2>4 DEF OwnerInv, KnownInv, OwnInv
  <2> QED
    BY <2>5, <2>6, <2>7 DEF OwnerInv
<1>5. ASSUME NEW v \in BOOLEAN, SetFl(t, f, v) PROVE OwnerInv'
  <2>1. /\ Calls(t, f) /\ Wished(f, "nonblock", v)
        /\ datas[f].there => datas' = [datas EXCEPT ![f].own["nonblock"] = v]
        /\ ~datas[f].there => datas' = datas
        /\ UNCHANGED <<kind, size, pc, arg, known, spoiled>>
    BY <1>a, <1>5, ManagedIsThere DEF SetFl
  <2>2. \A g \in Fds : g # f => nonblock'[g] = nonblock[g]
    BY <1>5 DEF SetFl, TypeOK
  <2>3. datas[f].there => nonblock'[f]
    BY <1>a, <1>5, ManagedIsThere DEF SetFl, TypeOK
  <2>4. datas[f].there /\ Agrees(datas[f].own, wish[f]) => Agrees(datas'[f].own, wish'[f])
    BY <2>1, FlagAgrees
  <2> QED
    BY <2>1, <2>2, <2>3, <2>4, SettingOwner
<1>6. ASSUME NEW v \in BOOLEAN, Ioctl(t, f, v) PROVE OwnerInv'
  <2>1. /\ Calls(t, f) /\ Wished(f, "nonblock", v)
        /\ datas[f].there => datas' = [datas EXCEPT ![f].own["nonblock"] = v]
        /\ ~datas[f].there => datas' = datas
        /\ UNCHANGED <<kind, size, pc, arg, known>> /\ spoiled \subseteq spoiled'
    BY <1>a, <1>6, ManagedIsThere DEF Ioctl
  <2>2. \A g \in Fds : g # f => nonblock'[g] = nonblock[g]
    BY <1>6 DEF Ioctl, TypeOK
  <2>3. datas[f].there /\ f \notin spoiled' => nonblock'[f]
    <3>1. datas[f].there /\ f \notin spoiled' => v
      BY <1>a, <1>6, ManagedIsThere DEF Ioctl
    <3>2. nonblock'[f] = v
      BY <1>6 DEF Ioctl, TypeOK
    <3> QED
      BY <3>1, <3>2
  <2>4. datas[f].there /\ Agrees(datas[f].own, wish[f]) => Agrees(datas'[f].own, wish'[f])
    BY <2>1, FlagAgrees
  <2> QED
    BY <2>1, <2>2, <2>3, <2>4, SettingOwner
<1>7. ASSUME NEW e \in Events, SetTimeout(t, f, e) PROVE OwnerInv'
  <2>1. PICK x \in {"noted", "unnoted"} :
          /\ Wished(f, e, x)
          /\ \/ datas' = [datas EXCEPT ![f].own[e] = TRUE]
             \/ x = "unnoted" /\ datas' = datas
    BY <1>7 DEF SetTimeout
  <2>2. /\ Calls(t, f) /\ e \in {"READ", "WRITE"}
        /\ UNCHANGED <<kind, nonblock, size, pc, arg, known, spoiled>>
    BY <1>7 DEF SetTimeout, Events
  <2>3. x \in IF e = "nonblock" THEN BOOLEAN ELSE Timeouts
    BY <2>2 DEF Timeouts
  <2>4. Agrees(datas[f].own, wish[f]) => Agrees(datas'[f].own, wish'[f])
    BY <2>1, <2>2, TimeoutAgrees
  <2> QED
    BY <2>1, <2>2, <2>3, <2>4, SettingOwner
<1>8. CASE \/ \E e \in Events : IoAgain(t, f, e)
           \/ ProgramAwaits(t, f) \/ ConnectInProgress(t, f)
  <2>1. PICK e, by : Calls(t, f) /\ Lookup(t, f, by, e)
    BY <1>8 DEF IoAgain, ProgramAwaits, ConnectInProgress
  <2>2. PICK p \in {"register", "resize"} : pc' = [pc EXCEPT ![t] = p]
    BY <2>1 DEF Lookup, Goto
  <2>3. /\ pc[t] = "ready" /\ arg' = [arg EXCEPT ![t] = f]
        /\ UNCHANGED <<kind, nonblock, datas, size, wish, known, spoiled>>
    BY <2>1 DEF Lookup, Calls
  <2>4. \A u \in Threads \ {t} : arg'[u] = arg[u]
    BY <2>3 DEF TypeOK
  <2> QED
    BY <2>2, <2>3, <2>4, OwnerFrame
<1>9. CASE Block(t, f)
  <2>1. /\ pc[t] = "ready" /\ pc' = [pc EXCEPT ![t] = "blocked"] /\ arg' = [arg EXCEPT ![t] = f]
        /\ ~nonblock[f] /\ UNCHANGED <<kind, nonblock, datas, size, wish, known, spoiled>>
    BY <1>9 DEF Block, Calls, Goto
  <2>2. \A u \in Threads \ {t} : pc'[u] = pc[u] /\ arg'[u] = arg[u]
    BY <2>1 DEF TypeOK
  <2>3. pc'[t] = "blocked" /\ arg'[t] = f
    BY <2>1 DEF TypeOK
  <2>4. Closing' = Closing
    BY <2>1, <2>2, <2>3 DEF Closing
  <2>5. f \notin known \ spoiled
    BY <2>1 DEF OwnerInv, OwnInv
  <2>6. WaitInv'
    BY <2>1, <2>2, <2>3, <2>5 DEF OwnerInv, WaitInv
  <2>7. TableInv' /\ FreshInv'
    BY <2>1, <2>2, <2>3 DEF OwnerInv, TableInv, FreshInv
  <2>8. KnownInv' /\ OwnInv'
    BY <2>1, <2>4 DEF OwnerInv, KnownInv, OwnInv
  <2> QED
    BY <2>6, <2>7, <2>8 DEF OwnerInv
<1> QED
  BY <1>1, <1>2, <1>3, <1>4, <1>5, <1>6, <1>7, <1>8, <1>9 DEF Call

-----------------------------------------------------------------------------
(* The count of events                                                     *)

LEMMA CountedFinite ==
  ASSUME TypeOK
  PROVE  IsFiniteSet(Counted) /\ Cardinality(Counted) \in Nat /\ pending \in Nat
<1>1. IsFiniteSet({"READ"}) /\ IsFiniteSet({"WRITE"})
  BY FS_Singleton
<1>2. Events = {"READ"} \cup {"WRITE"}
  BY DEF Events
<1>3. IsFiniteSet(Events)
  BY <1>1, <1>2, FS_Union
<1>4. IsFiniteSet(Fds \X Events)
  BY <1>3, FdTypes, FS_Product
<1>5. IsFiniteSet(Counted)
  BY <1>4, FS_Subset DEF Counted
<1> QED
  BY <1>5, FS_CardinalityType DEF TypeOK

\* Nothing happens to the events.
LEMMA CountStays ==
  ASSUME CountInv, UNCHANGED <<events, watch, pending>>, raced => raced'
  PROVE  CountInv'
BY DEF CountInv, Counted

\* The tables lose some of what is counted, or nothing while no calls overlapped.
LEMMA CountShrinks ==
  ASSUME TypeOK, CountInv, Counted' \subseteq Counted, ~raced => Counted' = Counted,
         UNCHANGED <<pending, raced>>,
         \A f \in Fds : events'[f] = {} \/ watch'[f] = {} \/ events'[f] = watch'[f]
  PROVE  CountInv'
<1>1. IsFiniteSet(Counted) /\ Cardinality(Counted) \in Nat /\ pending \in Nat
  BY CountedFinite
<1>2. Cardinality(Counted') <= Cardinality(Counted) /\ Cardinality(Counted') \in Nat
  BY <1>1, FS_Subset, FS_CardinalityType
<1>3. ~raced => Cardinality(Counted') = Cardinality(Counted)
  OBVIOUS
<1>4. Cardinality(Counted') <= pending' /\ (~raced' => pending' = Cardinality(Counted'))
  BY <1>1, <1>2, <1>3 DEF CountInv
<1> QED
  BY <1>4 DEF CountInv

LEMMA RegisterCount ==
  ASSUME TypeOK, CallInv, CountInv, NEW t \in Threads, Register(t)
  PROVE  CountInv' /\ pending' \in Nat
<1> DEFINE f == arg[t]
           e == why[t].event
<1>0. f \in Fds /\ e \in Events
  BY ArgType DEF Register, At, TypeOK
<1>1. IsFiniteSet(Counted) /\ Cardinality(Counted) \in Nat /\ pending \in Nat
  BY CountedFinite
<1>2. raced' = raced
  BY DEF Register, logVars
<1>3. CASE Refused(f, e)
  <2>1. UNCHANGED <<events, watch, pending>>
    BY <1>3 DEF Register
  <2> QED
    BY <1>1, <1>2, <2>1, CountStays
<1>4. CASE ~Refused(f, e)
  <2>1. /\ events' = [events EXCEPT ![f] = @ \cup {e}]
        /\ watch' = [watch EXCEPT ![f] = events[f] \cup {e}]
        /\ pending' = pending + 1
    BY <1>4 DEF Register
  <2>2. e \notin events[f] /\ events[f] = watch[f]
    BY <1>0, <1>4 DEF Refused, CountInv
  <2>3. /\ \A g \in Fds : g # f => events'[g] = events[g] /\ watch'[g] = watch[g]
        /\ events'[f] = events[f] \cup {e} /\ watch'[f] = events[f] \cup {e}
    BY <1>0, <2>1 DEF TypeOK
  <2>4. Counted' = Counted \cup {<<f, e>>} /\ <<f, e>> \notin Counted
    BY <1>0, <2>2, <2>3 DEF Counted
  <2>5. Cardinality(Counted') = Cardinality(Counted) + 1
    BY <1>1, <2>4, FS_AddElement
  <2>6. \A g \in Fds : events'[g] = {} \/ watch'[g] = {} \/ events'[g] = watch'[g]
    BY <2>3 DEF CountInv
  <2>7. Cardinality(Counted') <= pending' /\ (~raced' => pending' = Cardinality(Counted'))
    BY <1>1, <1>2, <2>1, <2>5 DEF CountInv
  <2>8. \A g \in Fds : (events[g] = {} \/ watch[g] = {} \/ events[g] = watch[g])'
    BY <2>6
  <2>9. pending' \in Nat
    BY <1>1, <2>1
  <2> QED
    BY <2>7, <2>8, <2>9 DEF CountInv
<1> QED
  BY <1>3, <1>4

LEMMA DeliverCount ==
  ASSUME TypeOK, CountInv, NEW f \in Fds, NEW e \in Events, Deliver(f, e)
  PROVE  CountInv' /\ pending' \in Nat
<1>1. IsFiniteSet(Counted) /\ Cardinality(Counted) \in Nat /\ pending \in Nat
  BY CountedFinite
<1>2. e \in watch[f] /\ pending' = pending - 1 /\ raced' = raced
  BY DEF Deliver, logVars
<1>3. /\ \A g \in Fds : g # f => events'[g] = events[g] /\ watch'[g] = watch[g]
      /\ events'[f] = events[f] \ {e} /\ watch'[f] = watch[f] \ {e}
  BY DEF Deliver, TypeOK
<1>4. Counted' = Counted \ {<<f, e>>} /\ <<f, e>> \in Counted
  BY <1>2, <1>3 DEF Counted
<1>5. Cardinality(Counted') = Cardinality(Counted) - 1 /\ Cardinality(Counted') \in Nat
  BY <1>1, <1>4, FS_RemoveElement, FS_CardinalityType
<1>6. \A g \in Fds : events'[g] = {} \/ watch'[g] = {} \/ events'[g] = watch'[g]
  BY <1>3 DEF CountInv
<1>7. Cardinality(Counted') <= pending' /\ (~raced' => pending' = Cardinality(Counted')) /\ pending' \in Nat
  BY <1>1, <1>2, <1>5 DEF CountInv
<1> QED
  BY <1>6, <1>7 DEF CountInv

LEMMA CancelCount ==
  ASSUME TypeOK, CallInv, CountInv, NEW t \in Threads, CancelAll(t)
  PROVE  CountInv' /\ pending' \in Nat
<1> DEFINE f == arg[t]
           es == events[f]
<1>0. f \in Fds /\ es \subseteq Events
  BY ArgType DEF CancelAll, At, TypeOK
<1>1. IsFiniteSet(Counted) /\ Cardinality(Counted) \in Nat /\ pending \in Nat
  BY CountedFinite
<1>2. raced' = raced
  BY DEF CancelAll, logVars
<1>3. CASE f < rows /\ es # {} /\ watch[f] # {}
  <2>1. /\ events' = [events EXCEPT ![f] = {}] /\ watch' = [watch EXCEPT ![f] = {}]
        /\ pending' = pending - Cardinality(es)
    BY <1>3 DEF CancelAll
  <2>2. /\ \A g \in Fds : g # f => events'[g] = events[g] /\ watch'[g] = watch[g]
        /\ events'[f] = {} /\ watch'[f] = {}
    BY <1>0, <2>1 DEF TypeOK
  <2>3. watch[f] = es
    BY <1>0, <1>3 DEF CountInv
  <2>4. Counted' = Counted \ ({f} \X es)
    BY <1>0, <2>2, <2>3 DEF Counted
  <2>5. {f} \X es \subseteq Counted
    BY <1>0 DEF Counted
  <2>6. IsFiniteSet({f} \X es)
    BY <1>1, <2>5, FS_Subset
  <2>7. Cardinality({f} \X es) = Cardinality(es)
    <3>1. IsFiniteSet({f}) /\ Cardinality({f}) = 1
      BY FS_Singleton
    <3>2. IsFiniteSet(es) /\ Cardinality(es) \in Nat
      <4>1. IsFiniteSet({"READ"}) /\ IsFiniteSet({"WRITE"})
        BY FS_Singleton
      <4>2. Events = {"READ"} \cup {"WRITE"}
        BY DEF Events
      <4>3. IsFiniteSet(Events)
        BY <4>1, <4>2, FS_Union
      <4> QED
        BY <1>0, <4>3, FS_Subset, FS_CardinalityType
    <3>3. Cardinality({f} \X es) = Cardinality({f}) * Cardinality(es)
      BY <3>1, <3>2, FS_Product
    <3> QED
      BY <3>1, <3>2, <3>3
  <2>8. Cardinality(Counted') = Cardinality(Counted) - Cardinality(es) /\ Cardinality(Counted') \in Nat
    <3>1. Counted \cap ({f} \X es) = {f} \X es
      BY <2>5
    <3>2. /\ IsFiniteSet(Counted \ ({f} \X es))
          /\ Cardinality(Counted \ ({f} \X es)) = Cardinality(Counted) - Cardinality(Counted \cap ({f} \X es))
      BY <1>1, FS_Difference
    <3> QED
      BY <2>4, <2>7, <3>1, <3>2, FS_CardinalityType
  <2>9. Cardinality(es) \in Nat
    BY <2>6, <2>7, FS_CardinalityType
  <2>10. \A g \in Fds : events'[g] = {} \/ watch'[g] = {} \/ events'[g] = watch'[g]
    BY <2>2 DEF CountInv
  <2>11. Cardinality(Counted') <= pending' /\ (~raced' => pending' = Cardinality(Counted')) /\ pending' \in Nat
    BY <1>1, <1>2, <2>1, <2>8, <2>9 DEF CountInv
  <2> QED
    BY <2>10, <2>11 DEF CountInv
<1>4. CASE ~(f < rows /\ es # {} /\ watch[f] # {})
  <2>1. UNCHANGED <<events, watch, pending>>
    BY <1>4 DEF CancelAll
  <2> QED
    BY <1>1, <1>2, <2>1, CountStays
<1> QED
  BY <1>3, <1>4

\* close() takes the descriptor out of epoll.
LEMMA ClosedCount ==
  ASSUME TypeOK, CountInv, FoundInv, NEW f \in Fds, Closed(f), UNCHANGED <<events, pending, raced>>
  PROVE  CountInv'
<1>1. watch'[f] = {} /\ \A g \in Fds : g # f => watch'[g] = watch[g]
  BY DEF Closed, TypeOK
<1>2. Counted' \subseteq Counted
  BY <1>1 DEF Counted
<1>3. ASSUME ~raced PROVE Counted' = Counted
  <2>1. \A g \in Fds : watch[g] \subseteq events[g]
    BY <1>3 DEF FoundInv
  <2>2. \A g \in Fds : watch'[g] \subseteq events[g]
    BY <1>1, <2>1
  <2> QED
    BY <2>1, <2>2 DEF Counted
<1>4. \A g \in Fds : events'[g] = {} \/ watch'[g] = {} \/ events'[g] = watch'[g]
  BY <1>1 DEF CountInv
<1> QED
  BY <1>2, <1>3, <1>4, CountShrinks

\* While calls do not overlap, contextResize() drops nothing.
LEMMA ResizeKeeps ==
  ASSUME TypeOK, CallInv, RowsInv, FoundInv, NEW t \in Threads, ContextResize(t)
  PROVE  /\ arg[t] \in Fds /\ 2 <= arg[t] /\ arg[t] < rows' /\ rows' \in Nat
         /\ \A f \in Fds : events'[f] = events[f] \/ events'[f] = {}
         /\ ~raced => rows < rows' /\ events' = events
<1>0. pc[t] = "resize" /\ rows' = Grown(arg[t]) /\ arg[t] \in Fds
  BY ArgType DEF ContextResize, At
<1>1. arg[t] \in Nat /\ 2 <= arg[t] /\ rows \in Nat /\ arg[t] < rows' /\ rows' \in Nat
  BY <1>0, FdTypes, SizeTypes DEF RowsInv
<1>2. \A f \in Fds : events'[f] = IF f < rows' THEN events[f] ELSE {}
  BY <1>0 DEF ContextResize
<1>3. ASSUME ~raced PROVE rows < rows' /\ events' = events
  <2>1. rows < rows'
    BY <1>0, <1>1, <1>3 DEF RowsInv
  <2>2. \A f \in Fds : events[f] # {} => f < rows
    BY <1>3 DEF FoundInv
  <2>3. \A f \in Fds : events'[f] = events[f]
    BY <1>1, <1>2, <2>1, <2>2, FdTypes
  <2>4. events \in [Fds -> SUBSET Events] /\ events' = [f \in Fds |-> events'[f]]
    BY DEF ContextResize, TypeOK
  <2> QED
    BY <2>1, <2>3, <2>4
<1> QED
  BY <1>0, <1>1, <1>2, <1>3

LEMMA StepCount ==
  ASSUME TypeOK, CallInv, CountInv, RowsInv, FoundInv, NEW t \in Threads, Step(t)
  PROVE  CountInv' /\ pending' \in Nat
<1> USE DEF kernelVars, tableVars, rowVars, callVars, logVars, At
<1>1. CASE EnableHook(t) \/ GetShared(t) \/ GetCreate(t) \/ Del(t) \/ Unblock(t)
  <2>1. UNCHANGED <<events, watch, pending, raced>>
    BY <1>1 DEF EnableHook, GetShared, GetCreate, Del, Unblock
  <2> QED
    BY <2>1, CountStays DEF TypeOK
<1>2. CASE CancelAll(t)
  BY <1>2, CancelCount
<1>3. CASE CloseEnd(t)
  <2>1. Closed(arg[t]) /\ arg[t] \in Fds /\ UNCHANGED <<events, pending, raced>>
    BY <1>3, ArgType DEF CloseEnd
  <2> QED
    BY <2>1, ClosedCount DEF TypeOK
<1>4. CASE ContextResize(t)
  <2>1. UNCHANGED <<watch, pending, raced>>
    BY <1>4 DEF ContextResize
  <2>2. \A f \in Fds : events'[f] = events[f] \/ events'[f] = {}
    BY <1>4, ResizeKeeps
  <2>3. ~raced => events' = events
    BY <1>4, ResizeKeeps
  <2>4. Counted' \subseteq Counted
    BY <2>1, <2>2 DEF Counted
  <2>5. ~raced => Counted' = Counted
    BY <2>1, <2>3 DEF Counted
  <2>6. \A f \in Fds : events'[f] = {} \/ watch'[f] = {} \/ events'[f] = watch'[f]
    BY <2>1, <2>2 DEF CountInv
  <2> QED
    BY <2>1, <2>4, <2>5, <2>6, CountShrinks DEF TypeOK
<1>5. CASE Register(t)
  BY <1>5, RegisterCount
<1> QED
  BY <1>1, <1>2, <1>3, <1>4, <1>5 DEF Step

LEMMA CallCount ==
  ASSUME TypeOK, CountInv, FoundInv, NEW t \in Threads, NEW f \in Fds, Call(t, f)
  PROVE  CountInv'
<1> USE DEF kernelVars, tableVars, rowVars, callVars, logVars, At
<1>1. CASE CloseUnhooked(t, f)
  BY <1>1, ClosedCount DEF CloseUnhooked
<1>2. CASE ~CloseUnhooked(t, f)
  <2>1. UNCHANGED <<events, watch, pending>>
    BY <1>2 DEF Call, Open, Accept, Close, SetFl, Ioctl, SetTimeout, IoAgain, ProgramAwaits,
                ConnectInProgress, Lookup, Block
  <2>2. raced => raced'
    BY <1>2 DEF Call, Open, Accept, Close, SetFl, Ioctl, SetTimeout, IoAgain, ProgramAwaits,
                ConnectInProgress, Lookup, Block
  <2> QED
    BY <2>1, <2>2, CountStays
<1> QED
  BY <1>1, <1>2

-----------------------------------------------------------------------------
(* Rows and what is found in them                                          *)

\* A step that leaves the rows alone and brings nobody into addEvent().
LEMMA RowsFrame ==
  ASSUME RowsInv, rows' = rows, raced' = raced,
         \A u \in Threads : pc'[u] \in {"resize", "register"} => pc'[u] = pc[u] /\ arg'[u] = arg[u]
  PROVE  RowsInv'
BY DEF RowsInv

\* A step that changes no event, and after which nobody closes a descriptor that
\* has events left and is not spoiled.
LEMMA FoundFrame ==
  ASSUME FoundInv, UNCHANGED <<events, watch, rows>>, raced => raced', spoiled \subseteq spoiled',
         \A g \in Fds : kind'[g] = "free" => kind[g] = "free",
         \A u \in Threads : pc'[u] \in {"del", "closing"} =>
           \/ pc[u] \in {"del", "closing"} /\ arg'[u] = arg[u]
           \/ arg'[u] \in spoiled' \/ events[arg'[u]] = {}
  PROVE  FoundInv'
<1> SUFFICES ASSUME ~raced', ~raced PROVE FoundInv'
  BY DEF FoundInv
<1>1. \A f \in Fds : watch'[f] \subseteq events'[f] /\ (events'[f] # {} => f < rows')
  BY DEF FoundInv
<1>2. \A f \in Fds \ spoiled' : events'[f] = watch'[f] /\ (kind'[f] = "free" => events'[f] = {})
  BY DEF FoundInv
<1>3. \A u \in Threads : pc'[u] \in {"del", "closing"} /\ arg'[u] \notin spoiled' => events'[arg'[u]] = {}
  BY DEF FoundInv
<1> QED
  BY <1>1, <1>2, <1>3 DEF FoundInv

\* A descriptor is closed that nobody else has, and that has no events left or is
\* spoiled.
LEMMA ClosedFound ==
  ASSUME TypeOK, CallInv, FoundInv, NEW f \in Fds, NEW t \in Threads, Closed(f),
         UNCHANGED <<events, rows, raced>>, spoiled \subseteq spoiled',
         ~raced /\ f \notin spoiled' => events[f] = {},
         \A u \in Threads \ {t} : pc'[u] = pc[u] /\ arg'[u] = arg[u] /\ arg[u] # f,
         pc'[t] = "ready"
  PROVE  FoundInv'
<1>0. /\ watch'[f] = {} /\ kind'[f] = "free"
      /\ \A g \in Fds : g # f => watch'[g] = watch[g] /\ kind'[g] = kind[g]
  BY DEF Closed, TypeOK
<1> SUFFICES ASSUME ~raced', ~raced PROVE FoundInv'
  BY DEF FoundInv
<1>1. \A g \in Fds : watch'[g] \subseteq events'[g] /\ (events'[g] # {} => g < rows')
  <2> SUFFICES ASSUME NEW g \in Fds PROVE watch'[g] \subseteq events'[g] /\ (events'[g] # {} => g < rows')
    OBVIOUS
  <2>1. watch[g] \subseteq events[g] /\ (events[g] # {} => g < rows)
    BY DEF FoundInv
  <2>2. watch'[g] = {} \/ watch'[g] = watch[g]
    BY <1>0
  <2> QED
    BY <2>1, <2>2
<1>2. \A g \in Fds \ spoiled' : events'[g] = watch'[g] /\ (kind'[g] = "free" => events'[g] = {})
  <2> SUFFICES ASSUME NEW g \in Fds \ spoiled'
               PROVE  events'[g] = watch'[g] /\ (kind'[g] = "free" => events'[g] = {})
    OBVIOUS
  <2>1. CASE g = f
    <3>1. events[f] = {}
      BY <2>1
    <3> QED
      BY <1>0, <2>1, <3>1
  <2>2. CASE g # f
    <3>1. events[g] = watch[g] /\ (kind[g] = "free" => events[g] = {})
      BY DEF FoundInv
    <3> QED
      BY <1>0, <2>2, <3>1
  <2> QED
    BY <2>1, <2>2
<1>3. \A u \in Threads : pc'[u] \in {"del", "closing"} /\ arg'[u] \notin spoiled' => events'[arg'[u]] = {}
  BY DEF FoundInv
<1> QED
  BY <1>1, <1>2, <1>3 DEF FoundInv

LEMMA CancelFound ==
  ASSUME TypeOK, CallInv, RowsInv, FoundInv, NEW t \in Threads, CancelAll(t)
  PROVE  RowsInv' /\ FoundInv'
<1>0. /\ pc[t] = "cancel" /\ pc' = [pc EXCEPT ![t] = "del"] /\ arg[t] \in Fds
      /\ UNCHANGED <<kind, rows, arg, spoiled, raced>>
  BY ArgType DEF CancelAll, At, Goto, logVars
<1>1. \A u \in Threads \ {t} : pc'[u] = pc[u]
  BY <1>0 DEF TypeOK
<1>2. pc'[t] = "del"
  BY <1>0 DEF TypeOK
<1>3. RowsInv'
  BY <1>0, <1>1, <1>2, RowsFrame
<1>4. ASSUME ~raced PROVE FoundInv'
  <2>1. \A g \in Fds : events[g] # {} => g < rows
    BY <1>4 DEF FoundInv
  <2>2. CASE events[arg[t]] # {} /\ watch[arg[t]] # {}
    <3>1. /\ \A g \in Fds : g # arg[t] => events'[g] = events[g] /\ watch'[g] = watch[g]
          /\ events'[arg[t]] = {} /\ watch'[arg[t]] = {}
      BY <1>0, <2>1, <2>2 DEF CancelAll, TypeOK
    <3>2. \A g \in Fds : watch'[g] \subseteq events'[g] /\ (events'[g] # {} => g < rows')
      BY <1>0, <1>4, <3>1 DEF FoundInv
    <3>3. \A g \in Fds \ spoiled' : events'[g] = watch'[g] /\ (kind'[g] = "free" => events'[g] = {})
      BY <1>0, <1>4, <3>1 DEF FoundInv
    <3>4. \A u \in Threads \ {t} : pc[u] \in {"del", "closing"} => arg[u] \in Fds
      BY ArgType
    <3>5. \A u \in Threads : pc'[u] \in {"del", "closing"} /\ arg'[u] \notin spoiled' => events'[arg'[u]] = {}
      BY <1>0, <1>1, <1>4, <3>1, <3>4 DEF FoundInv
    <3> QED
      BY <3>2, <3>3, <3>5 DEF FoundInv
  <2>3. CASE ~(events[arg[t]] # {} /\ watch[arg[t]] # {})
    <3>1. UNCHANGED <<events, watch>>
      BY <2>3 DEF CancelAll
    <3>2. arg[t] \in spoiled \/ events[arg[t]] = {}
      BY <1>0, <1>4, <2>3 DEF FoundInv
    <3> QED
      BY <1>0, <1>1, <1>2, <3>1, <3>2, FoundFrame
  <2> QED
    BY <2>2, <2>3
<1>5. raced => FoundInv'
  BY <1>0 DEF FoundInv
<1> QED
  BY <1>3, <1>4, <1>5

LEMMA ResizeFound ==
  ASSUME TypeOK, CallInv, RowsInv, FoundInv, NEW t \in Threads, ContextResize(t)
  PROVE  RowsInv' /\ FoundInv'
<1>0. /\ pc[t] = "resize" /\ pc' = [pc EXCEPT ![t] = "register"]
      /\ UNCHANGED <<kind, watch, arg, spoiled, raced>>
  BY DEF ContextResize, At, Goto, kernelVars, logVars
<1>1. \A u \in Threads \ {t} : pc'[u] = pc[u]
  BY <1>0 DEF TypeOK
<1>2. pc'[t] = "register"
  BY <1>0 DEF TypeOK
<1>3. /\ arg[t] \in Fds /\ 2 <= arg[t] /\ arg[t] < rows' /\ rows' \in Nat
      /\ ~raced => rows < rows' /\ events' = events
  BY ResizeKeeps
<1>4. rows \in Nat /\ \A u \in Threads : pc[u] # "ready" => arg[u] \in Nat
  BY ArgType, FdTypes, SizeTypes
<1>5. RowsInv'
  <2>1. 2 <= rows' /\ \A u \in Threads : pc'[u] = "resize" => 2 <= arg'[u]
    BY <1>0, <1>1, <1>2, <1>3, <1>4 DEF RowsInv
  <2>2. ASSUME ~raced' PROVE \A u \in Threads : pc'[u] # "resize"
    BY <1>0, <1>1, <1>2, <2>2 DEF RowsInv
  <2>3. ASSUME ~raced', NEW u \in Threads, pc'[u] = "register" PROVE arg'[u] < rows'
    <3>1. CASE u = t
      BY <1>0, <1>3, <3>1
    <3>2. CASE u # t
      <4>1. pc[u] = "register" /\ arg[u] < rows /\ rows < rows'
        BY <1>0, <1>1, <1>3, <2>3, <3>2 DEF RowsInv
      <4> QED
        BY <1>0, <1>3, <1>4, <4>1
    <3> QED
      BY <3>1, <3>2
  <2> QED
    BY <2>1, <2>2, <2>3 DEF RowsInv
<1>6. ASSUME ~raced PROVE FoundInv'
  <2>1. \A f \in Fds : watch'[f] \subseteq events'[f] /\ (events'[f] # {} => f < rows')
    BY <1>0, <1>3, <1>4, <1>6, FdTypes DEF FoundInv
  <2>2. \A f \in Fds \ spoiled' : events'[f] = watch'[f] /\ (kind'[f] = "free" => events'[f] = {})
    BY <1>0, <1>3, <1>6 DEF FoundInv
  <2>3. \A u \in Threads : pc'[u] \in {"del", "closing"} /\ arg'[u] \notin spoiled' => events'[arg'[u]] = {}
    BY <1>0, <1>1, <1>2, <1>3, <1>6 DEF FoundInv
  <2> QED
    BY <2>1, <2>2, <2>3 DEF FoundInv
<1>7. raced => FoundInv'
  BY <1>0 DEF FoundInv
<1> QED
  BY <1>5, <1>6, <1>7

LEMMA RegisterFound ==
  ASSUME TypeOK, CallInv, CountInv, RowsInv, FoundInv, NEW t \in Threads, Register(t)
  PROVE  RowsInv' /\ FoundInv'
<1> DEFINE f == arg[t]
           e == why[t].event
<1>0. /\ pc[t] = "register" /\ pc' = [pc EXCEPT ![t] = "ready"] /\ arg' = [arg EXCEPT ![t] = NoFd]
      /\ f \in Fds /\ e \in Events /\ UNCHANGED <<kind, rows, spoiled, raced>>
  BY ArgType DEF Register, At, Return, Goto, logVars, TypeOK
<1>1. \A u \in Threads \ {t} : pc'[u] = pc[u] /\ arg'[u] = arg[u]
  BY <1>0 DEF TypeOK
<1>2. pc'[t] = "ready"
  BY <1>0 DEF TypeOK
<1>3. RowsInv'
  BY <1>0, <1>1, <1>2, RowsFrame
<1>4. CASE Refused(f, e)
  <2>1. UNCHANGED <<events, watch>>
    BY <1>4 DEF Register
  <2> QED
    BY <1>0, <1>1, <1>2, <1>3, <2>1, FoundFrame
<1>5. CASE ~Refused(f, e) /\ ~raced
  <2>1. /\ \A g \in Fds : g # f => events'[g] = events[g] /\ watch'[g] = watch[g]
        /\ events'[f] = events[f] \cup {e} /\ watch'[f] = events[f] \cup {e}
    BY <1>0, <1>5 DEF Register, TypeOK
  <2>2. f < rows /\ kind[f] # "free"
    BY <1>0, <1>5 DEF RowsInv, CallInv
  <2>3. \A g \in Fds : watch'[g] \subseteq events'[g] /\ (events'[g] # {} => g < rows')
    BY <1>0, <1>5, <2>1, <2>2 DEF FoundInv
  <2>4. \A g \in Fds \ spoiled' : events'[g] = watch'[g] /\ (kind'[g] = "free" => events'[g] = {})
    BY <1>0, <1>5, <2>1, <2>2 DEF FoundInv
  <2>5. \A u \in Threads \ {t} : pc[u] \in {"del", "closing"} => arg[u] \in Fds /\ arg[u] # f
    BY ArgType DEF CallInv, Sole
  <2>6. \A u \in Threads : pc'[u] \in {"del", "closing"} /\ arg'[u] \notin spoiled' => events'[arg'[u]] = {}
    BY <1>0, <1>1, <1>2, <1>5, <2>1, <2>5 DEF FoundInv
  <2> QED
    BY <1>3, <2>3, <2>4, <2>6 DEF FoundInv
<1>6. CASE raced
  BY <1>0, <1>3, <1>6 DEF FoundInv
<1> QED
  BY <1>4, <1>5, <1>6

LEMMA StepFound ==
  ASSUME TypeOK, CallInv, CountInv, RowsInv, FoundInv, NEW t \in Threads, Step(t)
  PROVE  RowsInv' /\ FoundInv'
<1> USE DEF kernelVars, tableVars, rowVars, callVars, logVars, At
<1>1. CASE EnableHook(t)
  <2>1. UNCHANGED <<kind, watch, events, rows, pc, arg, spoiled, raced>>
    BY <1>1 DEF EnableHook
  <2> QED
    BY <2>1 DEF RowsInv, FoundInv
<1>2. CASE GetShared(t) \/ GetCreate(t) \/ Unblock(t)
  <2>1. UNCHANGED <<kind, watch, events, rows, spoiled, raced>>
    BY <1>2 DEF GetShared, GetCreate, Unblock
  <2>2. PICK p \in {"create", "ready"} : pc' = [pc EXCEPT ![t] = p]
    BY <1>2 DEF GetShared, GetCreate, Unblock, Return, Goto
  <2>3. arg' = arg \/ arg' = [arg EXCEPT ![t] = NoFd]
    BY <1>2 DEF GetShared, GetCreate, Unblock, Return
  <2>4. \A u \in Threads \ {t} : pc'[u] = pc[u] /\ arg'[u] = arg[u]
    BY <2>2, <2>3 DEF TypeOK
  <2>5. pc'[t] \in {"create", "ready"}
    BY <2>2 DEF TypeOK
  <2> QED
    BY <2>1, <2>4, <2>5, RowsFrame, FoundFrame
<1>3. CASE Del(t)
  <2>1. /\ UNCHANGED <<kind, watch, events, rows, arg, spoiled, raced>>
        /\ pc[t] = "del" /\ pc' = [pc EXCEPT ![t] = "closing"]
    BY <1>3 DEF Del, Goto
  <2>2. \A u \in Threads \ {t} : pc'[u] = pc[u]
    BY <2>1 DEF TypeOK
  <2>3. pc'[t] = "closing"
    BY <2>1 DEF TypeOK
  <2> QED
    BY <2>1, <2>2, <2>3, RowsFrame, FoundFrame
<1>4. CASE CancelAll(t)
  BY <1>4, CancelFound
<1>5. CASE CloseEnd(t)
  <2>1. /\ pc[t] = "closing" /\ Closed(arg[t]) /\ arg[t] \in Fds
        /\ pc' = [pc EXCEPT ![t] = "ready"] /\ arg' = [arg EXCEPT ![t] = NoFd]
        /\ UNCHANGED <<events, rows, spoiled, raced>>
    BY <1>5, ArgType DEF CloseEnd, Return, Goto
  <2>2. \A u \in Threads \ {t} : pc'[u] = pc[u] /\ arg'[u] = arg[u] /\ arg[u] # arg[t]
    BY <2>1 DEF TypeOK, CallInv, Sole
  <2>3. pc'[t] = "ready"
    BY <2>1 DEF TypeOK
  <2>4. ~raced /\ arg[t] \notin spoiled' => events[arg[t]] = {}
    BY <2>1 DEF FoundInv
  <2>5. FoundInv'
    BY <2>1, <2>2, <2>3, <2>4, ClosedFound
  <2> QED
    BY <2>1, <2>2, <2>3, <2>5, RowsFrame
<1>6. CASE ContextResize(t)
  BY <1>6, ResizeFound
<1>7. CASE Register(t)
  BY <1>7, RegisterFound
<1> QED
  BY <1>1, <1>2, <1>3, <1>4, <1>5, <1>6, <1>7 DEF Step

LEMMA LookupFound ==
  ASSUME TypeOK, CallInv, RowsInv, FoundInv, NEW t \in Threads, NEW f \in Fds, NEW e, NEW by,
         Calls(t, f), Lookup(t, f, by, e)
  PROVE  RowsInv' /\ FoundInv'
<1>0. /\ pc[t] = "ready" /\ arg' = [arg EXCEPT ![t] = f]
      /\ pc' = [pc EXCEPT ![t] = IF rows > f THEN "register" ELSE "resize"]
      /\ UNCHANGED <<kind, watch, events, rows, spoiled>>
  BY DEF Lookup, Calls, At, Goto, kernelVars, rowVars
<1>1. raced' <=> raced \/ (rows <= f /\ Overlaps(t))
  BY DEF Lookup, TypeOK
<1>2. \A u \in Threads \ {t} : pc'[u] = pc[u] /\ arg'[u] = arg[u]
  BY <1>0 DEF TypeOK
<1>a. f \in Nat /\ rows \in Nat
  BY FdTypes, SizeTypes
<1>b. arg'[t] = f /\ pc'[t] = IF rows > f THEN "register" ELSE "resize"
  BY <1>0 DEF TypeOK
<1>3. /\ arg'[t] = f /\ f \in Nat /\ rows \in Nat
      /\ (pc'[t] = "register" /\ f < rows) \/ (pc'[t] = "resize" /\ rows <= f)
  BY <1>a, <1>b
<1>4. FoundInv'
  BY <1>0, <1>1, <1>2, <1>3, FoundFrame
<1>5. 2 <= rows' /\ \A u \in Threads : pc'[u] = "resize" => 2 <= arg'[u]
  BY <1>0, <1>2, <1>3 DEF RowsInv
<1>6. ASSUME ~raced'
      PROVE  /\ \A u \in Threads : pc'[u] = "resize" => rows' <= arg'[u]
             /\ \A u \in Threads : pc'[u] = "register" => arg'[u] < rows'
             /\ \A u, v \in Threads : pc'[u] = "resize" /\ pc'[v] = "resize" => u = v
  <2>1. ~raced /\ (pc'[t] = "resize" => \A u \in Threads \ {t} : pc[u] # "resize")
    BY <1>1, <1>3, <1>6 DEF Overlaps
  <2> QED
    BY <1>0, <1>2, <1>3, <2>1 DEF RowsInv
<1> QED
  BY <1>4, <1>5, <1>6 DEF RowsInv

LEMMA CallFound ==
  ASSUME TypeOK, CallInv, TableInv, RowsInv, FoundInv, NEW t \in Threads, NEW f \in Fds, Call(t, f)
  PROVE  RowsInv' /\ FoundInv'
<1> USE DEF kernelVars, tableVars, rowVars, callVars, logVars, At
<1>1. CASE \/ \E k \in {"socket", "other"} : Open(t, f, k)
           \/ \E l \in Fds : Accept(t, l, f)
  <2>1. /\ pc[t] = "ready" /\ UNCHANGED <<watch, events, rows, spoiled, raced>>
        /\ \/ pc' = [pc EXCEPT ![t] = "get"] /\ arg' = [arg EXCEPT ![t] = f]
           \/ UNCHANGED <<pc, arg>>
    BY <1>1 DEF Open, Accept, Calls, Goto
  <2>2. \A g \in Fds : kind'[g] = "free" => kind[g] = "free"
    <3>1. PICK k \in {"socket", "other"} : kind' = [kind EXCEPT ![f] = k]
      BY <1>1 DEF Open, Accept, Opened
    <3> QED
      BY <3>1 DEF TypeOK
  <2>3. \A u \in Threads \ {t} : pc'[u] = pc[u] /\ arg'[u] = arg[u]
    BY <2>1 DEF TypeOK
  <2>4. pc'[t] \in {"ready", "get"}
    BY <2>1 DEF TypeOK
  <2> QED
    BY <2>1, <2>2, <2>3, <2>4, RowsFrame, FoundFrame
<1>2. CASE CloseUnhooked(t, f)
  <2>1. /\ Closed(f) /\ pc[t] = "ready" /\ UNCHANGED <<events, rows, pc, arg, raced>>
        /\ \A u \in Threads : arg[u] # f
        /\ spoiled \subseteq spoiled' /\ (f \notin spoiled' => events[f] = {})
    BY <1>2 DEF CloseUnhooked, Calls
  <2>2. FoundInv'
    BY <2>1, ClosedFound
  <2> QED
    BY <2>1, <2>2, RowsFrame
<1>3. CASE Close(t, f)
  <2>1. /\ pc[t] = "ready" /\ arg' = [arg EXCEPT ![t] = f]
        /\ pc' = [pc EXCEPT ![t] = IF Get(f).there THEN "cancel" ELSE "closing"]
        /\ spoiled \subseteq spoiled' /\ (~Get(f).there /\ events[f] # {} => f \in spoiled')
        /\ UNCHANGED <<kind, watch, events, rows, raced>>
    BY <1>3 DEF Close, Calls, Goto
  <2>2. \A u \in Threads \ {t} : pc'[u] = pc[u] /\ arg'[u] = arg[u]
    BY <2>1 DEF TypeOK
  <2>3. arg'[t] = f /\ (pc'[t] = "cancel" \/ (pc'[t] = "closing" /\ ~Get(f).there))
    BY <2>1 DEF TypeOK
  <2> QED
    BY <2>1, <2>2, <2>3, RowsFrame, FoundFrame
<1>4. CASE \/ \E v \in BOOLEAN : SetFl(t, f, v) \/ Ioctl(t, f, v)
           \/ \E e \in Events : SetTimeout(t, f, e)
  <2>1. UNCHANGED <<kind, watch, events, rows, pc, arg, raced>> /\ spoiled \subseteq spoiled'
    BY <1>4 DEF SetFl, Ioctl, SetTimeout
  <2> QED
    BY <2>1, RowsFrame, FoundFrame
<1>5. CASE \/ \E e \in Events : IoAgain(t, f, e)
           \/ ProgramAwaits(t, f) \/ ConnectInProgress(t, f)
  BY <1>5, LookupFound DEF IoAgain, ProgramAwaits, ConnectInProgress
<1>6. CASE Block(t, f)
  <2>1. /\ pc[t] = "ready" /\ arg' = [arg EXCEPT ![t] = f] /\ pc' = [pc EXCEPT ![t] = "blocked"]
        /\ UNCHANGED <<kind, watch, events, rows, spoiled, raced>>
    BY <1>6 DEF Block, Calls, Goto
  <2>2. \A u \in Threads \ {t} : pc'[u] = pc[u] /\ arg'[u] = arg[u]
    BY <2>1 DEF TypeOK
  <2>3. pc'[t] = "blocked"
    BY <2>1 DEF TypeOK
  <2> QED
    BY <2>1, <2>2, <2>3, RowsFrame, FoundFrame
<1> QED
  BY <1>1, <1>2, <1>3, <1>4, <1>5, <1>6 DEF Call

LEMMA DeliverFound ==
  ASSUME TypeOK, CallInv, RowsInv, FoundInv, NEW f \in Fds, NEW e \in Events, Deliver(f, e)
  PROVE  RowsInv' /\ FoundInv'
<1>0. UNCHANGED <<kind, rows, pc, arg, spoiled, raced>>
  BY DEF Deliver, callVars, logVars
<1>1. /\ \A g \in Fds : g # f => events'[g] = events[g] /\ watch'[g] = watch[g]
      /\ events'[f] = events[f] \ {e} /\ watch'[f] = watch[f] \ {e}
  BY DEF Deliver, TypeOK
<1>2. RowsInv'
  BY <1>0, RowsFrame
<1>3. ASSUME ~raced PROVE FoundInv'
  <2>1. \A g \in Fds : watch'[g] \subseteq events'[g] /\ (events'[g] # {} => g < rows')
    BY <1>0, <1>1, <1>3 DEF FoundInv
  <2>2. ASSUME NEW g \in Fds \ spoiled'
        PROVE  events'[g] = watch'[g] /\ (kind'[g] = "free" => events'[g] = {})
    <3>1. events[g] = watch[g] /\ (kind[g] = "free" => events[g] = {})
      BY <1>0, <1>3 DEF FoundInv
    <3>2. CASE g = f
      BY <1>0, <1>1, <3>1, <3>2
    <3>3. CASE g # f
      BY <1>0, <1>1, <3>1, <3>3
    <3> QED
      BY <3>2, <3>3
  <2>3. \A u \in Threads : pc[u] \in {"del", "closing"} => arg[u] \in Fds
    BY ArgType
  <2>4. \A u \in Threads : pc'[u] \in {"del", "closing"} /\ arg'[u] \notin spoiled' => events'[arg'[u]] = {}
    BY <1>0, <1>1, <1>3, <2>3 DEF FoundInv
  <2> QED
    BY <2>1, <2>2, <2>4 DEF FoundInv
<1>4. raced => FoundInv'
  BY <1>0 DEF FoundInv
<1> QED
  BY <1>2, <1>3, <1>4

-----------------------------------------------------------------------------
(* The theorems                                                            *)

IInv == TypeOK /\ CallInv /\ OwnerInv /\ CountInv /\ RowsInv /\ FoundInv

LEMMA InitInv == Init => IInv
<1> SUFFICES ASSUME Init PROVE IInv
  OBVIOUS
<1>1. TypeOK
  BY InitTypeOK
<1>2. \A t \in Threads : pc[t] = "ready" /\ arg[t] = NoFd
  BY DEF Init
<1>3. CallInv
  BY <1>2, FdTypes DEF CallInv, Sole
<1>4. \A f \in Fds : /\ kind[f] = "free" /\ ~datas[f].there /\ wish[f] = NoWish
                     /\ events[f] = {} /\ watch[f] = {}
  BY DefaultType DEF Init
<1>5. OwnerInv
  <2>1. 2 <= size /\ known = {}
    BY HookAssumption DEF Init
  <2>2. TableInv /\ FreshInv
    BY <1>2, <1>4, <2>1 DEF TableInv, FreshInv
  <2>3. KnownInv /\ OwnInv /\ WaitInv
    BY <1>2, <2>1 DEF KnownInv, OwnInv, WaitInv
  <2> QED
    BY <2>2, <2>3 DEF OwnerInv
<1>6. CountInv
  <2>1. Counted = {}
    BY <1>4 DEF Counted
  <2>2. Cardinality(Counted) = 0
    BY <2>1, FS_EmptySet
  <2>3. pending = 0
    BY DEF Init
  <2> QED
    BY <1>4, <2>2, <2>3 DEF CountInv
<1>7. 2 <= rows
  BY HookAssumption DEF Init
<1>8. RowsInv /\ FoundInv
  BY <1>2, <1>4, <1>7 DEF RowsInv, FoundInv
<1> QED
  BY <1>1, <1>3, <1>5, <1>6, <1>8 DEF IInv

LEMMA NextInv == IInv /\ [Next]_vars => IInv'
<1> SUFFICES ASSUME IInv, [Next]_vars PROVE IInv'
  OBVIOUS
<1>0. TypeOK /\ CallInv /\ OwnerInv /\ CountInv /\ RowsInv /\ FoundInv /\ TableInv
  BY DEF IInv, OwnerInv
<1>1. ASSUME NEW t \in Threads, Step(t) PROVE IInv'
  <2>1. CountInv' /\ pending' \in Nat
    BY <1>0, <1>1, StepCount
  <2>2. TypeOK' /\ CallInv' /\ OwnerInv'
    BY <1>0, <1>1, <2>1, StepTypeOK, StepCallInv, StepOwner
  <2> QED
    BY <1>0, <1>1, <2>1, <2>2, StepFound DEF IInv
<1>2. ASSUME NEW t \in Threads, NEW f \in Fds, Call(t, f) PROVE IInv'
  BY <1>0, <1>2, CallTypeOK, CallCallInv, CallOwner, CallCount, CallFound DEF IInv
<1>3. ASSUME NEW f \in Fds, NEW e \in Events, Deliver(f, e) PROVE IInv'
  <2>1. CountInv' /\ pending' \in Nat
    BY <1>0, <1>3, DeliverCount
  <2>2. UNCHANGED <<kind, nonblock, datas, size, pc, arg, wish, known, spoiled>>
    BY <1>3 DEF Deliver, tableVars, callVars, logVars
  <2>3. TypeOK' /\ OwnerInv'
    BY <1>0, <1>3, <2>1, <2>2, DeliverTypeOK, OwnerStays
  <2>4. CallInv'
    BY <1>0, <2>2 DEF CallInv
  <2> QED
    BY <1>0, <1>3, <2>1, <2>3, <2>4, DeliverFound DEF IInv
<1>4. CASE UNCHANGED vars
  <2> USE <1>4 DEF vars, kernelVars, tableVars, rowVars, callVars, logVars
  <2>1. TypeOK' /\ CallInv'
    BY <1>0 DEF TypeOK, CallInv
  <2>2. OwnerInv' /\ CountInv'
    BY <1>0, OwnerStays, CountStays
  <2>3. RowsInv' /\ FoundInv'
    BY <1>0 DEF RowsInv, FoundInv
  <2> QED
    BY <2>1, <2>2, <2>3 DEF IInv
<1> QED
  BY <1>1, <1>2, <1>3, <1>4 DEF Next

\* The inductive invariant of the hooked calls holds in every reachable state.
THEOREM HookInvariant == Spec => []IInv
BY InitInv, NextInv, PTL DEF Spec

\* All variables keep their types; the count of events never goes below zero, with
\* or without rows dropped by contextResize() (ioscheduler.cpp:133-137).
THEOREM HookTypeOK == Spec => []TypeOK
<1>1. IInv => TypeOK
  BY DEF IInv
<1> QED
  BY <1>1, HookInvariant, PTL

\* Whatever is opened and closed meanwhile, a descriptor that socket() or accept()
\* returned has its context until it is closed (fd_manager.cpp:129-137).
THEOREM HookKnownHasContext == Spec => []KnownHasContext
<1>1. IInv => KnownHasContext
  <2> SUFFICES ASSUME IInv PROVE KnownHasContext
    OBVIOUS
  <2>1. TypeOK /\ TableInv /\ KnownInv /\ known \subseteq Fds
    BY DEF IInv, OwnerInv, TypeOK
  <2> QED
    BY <2>1, ManagedIsThere DEF KnownHasContext, KnownInv
<1> QED
  BY <1>1, HookInvariant, PTL

\* What fcntl() shows and what the context holds is what was set on this
\* descriptor, not on an earlier one with its number (hook.cpp:472, 517-525).
THEOREM HookSettingsAreOwn == Spec => []SettingsAreOwn
<1>1. IInv => SettingsAreOwn
  <2> SUFFICES ASSUME IInv, NEW f \in known \ (Closing \cup spoiled)
               PROVE  Agrees(datas[f].own, wish[f]) /\ GetFl(f) = wish[f].nonblock
    BY DEF SettingsAreOwn
  <2>1. TypeOK /\ TableInv /\ KnownInv /\ OwnInv /\ f \in Fds
    BY DEF IInv, OwnerInv, TypeOK
  <2>2. Agrees(datas[f].own, wish[f])
    BY <2>1 DEF OwnInv
  <2>3. Managed(f)
    BY <2>1, ManagedIsThere DEF KnownInv
  <2> QED
    BY <2>2, <2>3 DEF GetFl, Agrees
<1> QED
  BY <1>1, HookInvariant, PTL

\* No hooked thread waits in the kernel on a descriptor that the hooks returned
\* and nothing spoiled (hook.cpp:115-128, 494-504).
THEOREM HookNeverBlocks == Spec => []HookedNeverBlocks
<1>1. IInv => HookedNeverBlocks
  BY DEF IInv, OwnerInv, WaitInv, TypeOK, HookedNeverBlocks
<1> QED
  BY <1>1, HookInvariant, PTL

\* While calls of contextResize() do not overlap, each watched event is found in
\* its row, a closed descriptor has none left, and the count is that of the
\* registered events (ioscheduler.cpp:133-137).
THEOREM HookRegistrationsAreFound == Spec => []RegistrationsAreFound
<1>1. IInv => RegistrationsAreFound
  <2> SUFFICES ASSUME IInv, ~raced
               PROVE  /\ pending = Cardinality(Registered)
                      /\ \A f \in Fds \ spoiled :
                           /\ events[f] = watch[f]
                           /\ watch[f] # {} => f < rows /\ kind[f] # "free"
    BY DEF RegistrationsAreFound
  <2>1. CountInv /\ FoundInv
    BY DEF IInv
  <2>2. \A f \in Fds : watch[f] \subseteq events[f]
    BY <2>1 DEF FoundInv
  <2>3. Counted = Registered
    BY <2>2 DEF Counted, Registered
  <2>4. pending = Cardinality(Registered)
    BY <2>1, <2>3 DEF CountInv
  <2> QED
    BY <2>1, <2>4 DEF FoundInv
<1> QED
  BY <1>1, HookInvariant, PTL
=============================================================================
