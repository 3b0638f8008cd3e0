--------------------------- MODULE FdContextProofs ---------------------------
(***************************************************************************)
(* Proofs about FdContext, for every set of descriptors and polling        *)
(* threads and every number of registrations: the types, that each         *)
(* registration ends exactly once, that the pending count and epoll's      *)
(* interest agree with the registered events, and that all of it           *)
(* implements OneShot.                                                     *)
(***************************************************************************)
EXTENDS FdContext, FiniteSetTheorems, TLAPS

\* A slot holds a registration exactly while its event is registered.
SlotInv ==
  /\ \A f \in Fds, e \in Events : slot[f][e] <= regs /\ (e \in events[f] <=> slot[f][e] # NoReg)
  /\ \A f, g \in Fds, e, d \in Events :
       slot[f][e] = slot[g][d] /\ slot[f][e] # NoReg => f = g /\ e = d

\* What became of a registration.
FateInv ==
  \A r \in Regs :
    /\ r > regs => fired[r] = 0 /\ r \notin deleted
    /\ r <= regs => \/ r \in Stored /\ fired[r] = 0 /\ r \notin deleted
                    \/ r \notin Stored /\ fired[r] = 1 /\ r \notin deleted
                    \/ r \notin Stored /\ fired[r] = 0 /\ r \in deleted

RegInv == ~aborted => SlotInv /\ FateInv /\ PendingIsExact

\* The inductive invariant.
IInv == TypeOK /\ RegInv

-----------------------------------------------------------------------------
(* Lemmas                                                                  *)

LEMMA RegisteredFinite == ASSUME TypeOK
                          PROVE IsFiniteSet(Registered) /\ Cardinality(Registered) \in Nat
<1>1. IsFiniteSet(Fds \X Events)
  BY FdAssumption, FS_Product
<1>2. Registered \subseteq Fds \X Events
  BY DEF Registered
<1> QED
  BY <1>1, <1>2, FS_Subset, FS_CardinalityType

\* An armed registration is armed in one place.
LEMMA ArmedOnce ==
  ASSUME TypeOK, SlotInv, NEW r \in 1..regs
  PROVE  Cardinality(Armed(r)) = IF r \in Stored THEN 1 ELSE 0
<1>0. r # NoReg /\ r \in Regs
  BY FdAssumption DEF NoReg, TypeOK, Regs
<1>1. CASE r \in Stored
  <2>1. PICK f \in Fds, e \in Events : slot[f][e] = r
    BY <1>1 DEF Stored
  <2>2. e \in events[f]
    BY <1>0, <2>1 DEF SlotInv
  <2>3. <<f, e>> \in Armed(r)
    BY <2>1, <2>2 DEF Armed, Registered
  <2>4. ASSUME NEW x \in Armed(r) PROVE x = <<f, e>>
    <3>1. PICK g \in Fds, d \in Events : x = <<g, d>> /\ slot[g][d] = r
      BY <2>4 DEF Armed, Registered
    <3> QED
      BY <3>1, <2>1, <1>0 DEF SlotInv
  <2>5. Armed(r) = {<<f, e>>}
    BY <2>3, <2>4
  <2> QED
    BY <2>5, <1>1, FS_Singleton
<1>2. CASE r \notin Stored
  <2>1. Armed(r) = {}
    BY <1>0, <1>2 DEF Armed, Registered, Stored
  <2> QED
    BY <2>1, <1>2, FS_EmptySet
<1> QED
  BY <1>1, <1>2

LEMMA InitIInv == Init => IInv
<1> SUFFICES ASSUME Init PROVE IInv
  OBVIOUS
<1>1. TypeOK
  <2>1. taken \in [Pollers -> {Idle} \cup [fd : Fds, got : SUBSET (Events \cup {"HUP"})]]
    BY DEF Init
  <2>2. slot \in [Fds -> [Events -> 0..MaxRegs]] /\ regs \in 0..MaxRegs
    BY FdAssumption DEF Init, NoReg
  <2>3. /\ events \in [Fds -> SUBSET Events] /\ interest \in [Fds -> SUBSET Events]
        /\ level \in [Fds -> SUBSET (Events \cup {"HUP"})]
    BY DEF Init
  <2>4. pending \in Nat /\ fired \in [Regs -> Nat]
    BY DEF Init
  <2> QED
    BY <2>1, <2>2, <2>3, <2>4 DEF Init, TypeOK
<1>2. Registered = {}
  BY DEF Registered, Init
<1>3. PendingIsExact
  BY <1>2, FS_EmptySet DEF PendingIsExact, Init
<1>4. SlotInv
  BY DEF SlotInv, Init, NoReg
<1>5. FateInv
  BY FdAssumption DEF FateInv, Init, Regs
<1> QED
  BY <1>1, <1>3, <1>4, <1>5 DEF IInv, RegInv

\* A step that leaves registrations alone keeps what is said about them.
LEMMA QuietStep ==
  ASSUME RegInv, UNCHANGED <<ctxVars, interest, logVars, aborted>>
  PROVE  RegInv'
<1> USE DEF ctxVars, logVars
<1>1. SlotInv => SlotInv'
  BY DEF SlotInv
<1>2. FateInv => FateInv'
  BY DEF FateInv, Stored
<1>3. PendingIsExact => PendingIsExact'
  BY DEF PendingIsExact, Registered
<1> QED
  BY <1>1, <1>2, <1>3 DEF RegInv

LEMMA WatchType == ASSUME TypeOK, NEW f \in Fds, NEW es \in SUBSET Events, Watch(f, es)
                   PROVE  /\ interest' \in [Fds -> SUBSET Events] /\ queued' \subseteq Fds
                          /\ level' \in [Fds -> SUBSET (Events \cup {"HUP"})]
BY DEF TypeOK, Watch

-----------------------------------------------------------------------------
(* One lemma per action                                                    *)

LEMMA WorldStep == ASSUME IInv, World PROVE IInv'
<1>1. RegInv'
  BY QuietStep DEF World, Rise, Consume, IInv
<1>2. TypeOK'
  BY DEF IInv, TypeOK, World, Rise, Consume, ctxVars, logVars
<1> QED
  BY <1>1, <1>2 DEF IInv

LEMMA EpollWaitStep == ASSUME IInv, NEW p \in Pollers, NEW f \in Fds, EpollWait(p, f) PROVE IInv'
<1>1. RegInv'
  BY QuietStep DEF EpollWait, IInv
<1>2. TypeOK'
  BY DEF IInv, TypeOK, EpollWait, ctxVars, logVars
<1> QED
  BY <1>1, <1>2 DEF IInv

LEMMA SkipEventStep == ASSUME IInv, NEW p \in Pollers, SkipEvent(p) PROVE IInv'
<1>1. RegInv'
  BY QuietStep DEF SkipEvent, IInv, epollVars
<1>2. TypeOK'
  BY DEF IInv, TypeOK, SkipEvent, ctxVars, logVars, epollVars
<1> QED
  BY <1>1, <1>2 DEF IInv

LEMMA AddEventStep == ASSUME IInv, NEW f \in Fds, NEW e \in Events, AddEvent(f, e) PROVE IInv'
<1>0. TypeOK /\ ~aborted /\ SlotInv /\ FateInv /\ PendingIsExact /\ MaxRegs \in Nat
  BY FdAssumption DEF IInv, RegInv, AddEvent
<1>1. /\ regs < MaxRegs /\ e \notin events[f] /\ Watch(f, events[f] \cup {e})
      /\ pending' = pending + 1
      /\ events' = [events EXCEPT ![f] = @ \cup {e}]
      /\ slot' = [slot EXCEPT ![f][e] = regs + 1]
      /\ regs' = regs + 1
      /\ UNCHANGED <<taken, fired, deleted, aborted>>
  BY DEF AddEvent
<1>2. TypeOK'
  BY <1>0, <1>1, WatchType DEF TypeOK, Regs
<1>3. SlotInv'
  <2>1. \A g \in Fds, d \in Events : slot'[g][d] = IF g = f /\ d = e THEN regs + 1 ELSE slot[g][d]
    BY <1>0, <1>1 DEF TypeOK
  <2>2. \A g \in Fds, d \in Events : d \in events'[g] <=> (d \in events[g] \/ (g = f /\ d = e))
    BY <1>0, <1>1 DEF TypeOK
  <2>3. \A g \in Fds, d \in Events : slot[g][d] \in Nat /\ slot[g][d] <= regs
    BY <1>0 DEF TypeOK, SlotInv
  <2>4. regs \in Nat
    BY <1>0 DEF TypeOK
  <2> QED
    BY <2>1, <2>2, <2>3, <2>4, <1>0, <1>1 DEF SlotInv, NoReg
<1>4. FateInv'
  <2>1. \A g \in Fds, d \in Events : slot'[g][d] = IF g = f /\ d = e THEN regs + 1 ELSE slot[g][d]
    BY <1>0, <1>1 DEF TypeOK
  <2>2. slot[f][e] = 0 /\ regs \in Nat
    BY <1>0, <1>1 DEF SlotInv, NoReg, TypeOK
  <2>3. \A r \in Regs : r <= regs => (r \in Stored' <=> r \in Stored)
    BY <2>1, <2>2, <1>0 DEF Stored, Regs
  <2>4. regs + 1 \in Stored'
    BY <2>1, <2>2, <1>0, <1>1 DEF Stored, Regs
  <2> QED
    BY <2>2, <2>3, <2>4, <1>0, <1>1 DEF FateInv, Regs
<1>5. PendingIsExact'
  <2>1. Registered' = Registered \cup {<<f, e>>} /\ <<f, e>> \notin Registered
    BY <1>0, <1>1 DEF Registered, TypeOK
  <2>2. Cardinality(Registered') = Cardinality(Registered) + 1
    BY <2>1, <1>0, RegisteredFinite, FS_AddElement
  <2>3. interest' = events'
    BY <1>0, <1>1 DEF Watch, PendingIsExact, TypeOK
  <2> QED
    BY <2>2, <2>3, <1>0, <1>1 DEF PendingIsExact
<1> QED
  BY <1>2, <1>3, <1>4, <1>5 DEF IInv, RegInv

LEMMA DelEventStep == ASSUME IInv, NEW f \in Fds, NEW e \in Events, DelEvent(f, e) PROVE IInv'
<1>0. TypeOK /\ ~aborted /\ SlotInv /\ FateInv /\ PendingIsExact /\ MaxRegs \in Nat
  BY FdAssumption DEF IInv, RegInv, DelEvent
<1>1. /\ e \in events[f] /\ Watch(f, events[f] \ {e})
      /\ pending' = pending - 1
      /\ events' = [events EXCEPT ![f] = @ \ {e}]
      /\ slot' = [slot EXCEPT ![f][e] = NoReg]
      /\ deleted' = deleted \cup {slot[f][e]}
      /\ UNCHANGED <<taken, regs, fired, aborted>>
  BY DEF DelEvent
<1>2. slot[f][e] \in Regs /\ slot[f][e] <= regs
  BY <1>0, <1>1 DEF SlotInv, TypeOK, NoReg, Regs
<1>3. \A g \in Fds, d \in Events : slot'[g][d] = IF g = f /\ d = e THEN NoReg ELSE slot[g][d]
  BY <1>0, <1>1 DEF TypeOK
<1>4. SlotInv'
  <2>1. \A g \in Fds, d \in Events : d \in events'[g] <=> (d \in events[g] /\ ~(g = f /\ d = e))
    BY <1>0, <1>1 DEF TypeOK
  <2>2. NoReg <= regs
    BY <1>0 DEF TypeOK, NoReg
  <2> QED
    BY <1>0, <1>1, <1>3, <2>1, <2>2 DEF SlotInv
<1>5. FateInv'
  <2>1. ASSUME NEW r \in Regs PROVE r \in Stored' <=> (r \in Stored /\ r # slot[f][e])
    BY <1>0, <1>1, <1>2, <1>3 DEF Stored, SlotInv, Regs, NoReg
  <2>2. slot[f][e] \in Stored
    BY <1>2 DEF Stored
  <2>3. regs \in Nat /\ \A r \in Regs : r \in Nat
    BY <1>0 DEF TypeOK, Regs
  <2> QED
    BY <1>0, <1>1, <1>2, <2>1, <2>2, <2>3 DEF FateInv
<1>6. Registered' = Registered \ {<<f, e>>} /\ <<f, e>> \in Registered
  BY <1>0, <1>1 DEF Registered, TypeOK
<1>7. Cardinality(Registered') = Cardinality(Registered) - 1 /\ Cardinality(Registered') \in Nat
  BY <1>6, <1>0, RegisteredFinite, FS_RemoveElement, FS_CardinalityType
<1>8. PendingIsExact'
  <2>1. interest' = events'
    BY <1>0, <1>1 DEF Watch, PendingIsExact, TypeOK
  <2> QED
    BY <2>1, <1>7, <1>0, <1>1 DEF PendingIsExact
<1>9. TypeOK'
  <2>1. pending' \in Nat
    BY <1>0, <1>1, <1>7 DEF PendingIsExact
  <2> QED
    BY <1>0, <1>1, <1>2, <2>1, WatchType DEF TypeOK, NoReg
<1> QED
  BY <1>4, <1>5, <1>8, <1>9 DEF IInv, RegInv

\* Triggering registered events on one descriptor, each counted off.
LEMMA TriggerStep ==
  ASSUME IInv, ~aborted, NEW f \in Fds, NEW es \in SUBSET Events,
         Watch(f, events[f] \ es), Trigger(f, events[f], es),
         pending' = pending - Cardinality(es),
         taken' \in [Pollers -> {Idle} \cup [fd : Fds, got : SUBSET (Events \cup {"HUP"})]],
         UNCHANGED <<regs, deleted>>
  PROVE  IInv'
<1>0. TypeOK /\ SlotInv /\ FateInv /\ PendingIsExact /\ MaxRegs \in Nat
  BY FdAssumption DEF IInv, RegInv
<1>1. /\ aborted' = ~(es \subseteq events[f])
      /\ events' = [events EXCEPT ![f] = events[f] \ es]
      /\ fired' = [r \in Regs |-> IF \E e \in es : slot[f][e] = r THEN fired[r] + 1 ELSE fired[r]]
  BY DEF Trigger
<1>2. slot' = [slot EXCEPT ![f] = [e \in Events |-> IF e \in es THEN NoReg ELSE slot[f][e]]]
  BY <1>0 DEF Trigger, TypeOK
<1>3. \A g \in Fds, d \in Events : slot'[g][d] = IF g = f /\ d \in es THEN NoReg ELSE slot[g][d]
  BY <1>0, <1>2 DEF TypeOK
<1>4. slot' \in [Fds -> [Events -> 0..MaxRegs]]
  BY <1>0, <1>2 DEF TypeOK, NoReg
<1>5. fired' \in [Regs -> Nat]
  BY <1>0, <1>1 DEF TypeOK
<1>6. ASSUME es \subseteq events[f] PROVE SlotInv' /\ FateInv' /\ PendingIsExact' /\ pending' \in Nat
  <2>1. SlotInv'
    <3>1. \A g \in Fds, d \in Events : d \in events'[g] <=> (d \in events[g] /\ ~(g = f /\ d \in es))
      BY <1>0, <1>1 DEF TypeOK
    <3>2. NoReg <= regs
      BY <1>0 DEF TypeOK, NoReg
    <3> QED
      BY <1>0, <1>3, <3>1, <3>2 DEF SlotInv
  <2>2. FateInv'
    <3>1. ASSUME NEW r \in Regs
          PROVE  /\ r \in Stored' <=> (r \in Stored /\ ~\E e \in es : slot[f][e] = r)
                 /\ (\E e \in es : slot[f][e] = r) => r \in Stored
                 /\ r \in Stored => r <= regs
      BY <1>0, <1>3 DEF Stored, SlotInv, Regs, NoReg
    <3>2. \A r \in Regs : fired'[r] = IF \E e \in es : slot[f][e] = r THEN fired[r] + 1 ELSE fired[r]
      BY <1>1
    <3>3. regs \in Nat /\ \A r \in Regs : r \in Nat
      BY <1>0 DEF TypeOK, Regs
    <3> QED
      BY <1>0, <3>1, <3>2, <3>3 DEF FateInv
  <2>3. Registered' = Registered \ ({f} \X es) /\ Registered \cap ({f} \X es) = {f} \X es
    BY <1>0, <1>1, <1>6 DEF Registered, TypeOK
  <2>4. IsFiniteSet(es) /\ Cardinality(es) \in Nat
    BY FdAssumption, FS_Subset, FS_CardinalityType
  <2>5. Cardinality({f} \X es) = Cardinality(es)
    <3>1. IsFiniteSet({f}) /\ Cardinality({f}) = 1
      BY FS_Singleton
    <3>2. Cardinality({f} \X es) = Cardinality({f}) * Cardinality(es)
      BY <2>4, <3>1, FS_Product
    <3> QED
      BY <2>4, <3>1, <3>2
  <2>6. Cardinality(Registered') = Cardinality(Registered) - Cardinality(es)
    <3>1. Cardinality(Registered \ ({f} \X es)) = Cardinality(Registered) - Cardinality(Registered \cap ({f} \X es))
      BY <1>0, RegisteredFinite, FS_Difference
    <3> QED
      BY <2>3, <2>5, <3>1
  <2>7. Cardinality(Registered') \in Nat
    BY <2>3, <1>0, RegisteredFinite, FS_Difference, FS_CardinalityType
  <2>8. interest' = events'
    BY <1>0, <1>1 DEF Watch, PendingIsExact, TypeOK
  <2>9. PendingIsExact' /\ pending' \in Nat
    BY <2>6, <2>7, <2>8, <1>0 DEF PendingIsExact
  <2> QED
    BY <2>1, <2>2, <2>9
<1>7. TypeOK'
  <2>1. aborted' \/ pending' \in Nat
    BY <1>1, <1>6
  <2>2. events' \in [Fds -> SUBSET Events] /\ aborted' \in BOOLEAN
    BY <1>0, <1>1 DEF TypeOK
  <2>3. events[f] \ es \in SUBSET Events
    BY <1>0 DEF TypeOK
  <2> QED
    BY <1>0, <1>4, <1>5, <2>1, <2>2, <2>3, WatchType DEF TypeOK
<1>8. RegInv'
  BY <1>1, <1>6 DEF RegInv
<1> QED
  BY <1>7, <1>8 DEF IInv

\* cancelEvent() removes the event before triggerEvent() asserts it: the process ends.
LEMMA CancelEventStep == ASSUME IInv, NEW f \in Fds, NEW e \in Events, CancelEvent(f, e) PROVE IInv'
<1>0. TypeOK /\ ~aborted /\ MaxRegs \in Nat
  BY FdAssumption DEF IInv, CancelEvent
<1>1. /\ Watch(f, events[f] \ {e}) /\ Trigger(f, events[f] \ {e}, {e})
      /\ UNCHANGED <<taken, regs, deleted>>
  BY DEF CancelEvent
<1>2. aborted' = TRUE
  BY <1>1 DEF Trigger
<1>3. slot' = [slot EXCEPT ![f] = [d \in Events |-> IF d \in {e} THEN NoReg ELSE slot[f][d]]]
  BY <1>0, <1>1 DEF Trigger, TypeOK
<1>4. slot' \in [Fds -> [Events -> 0..MaxRegs]]
  BY <1>0, <1>3 DEF TypeOK, NoReg
<1>5. fired' \in [Regs -> Nat] /\ events' \in [Fds -> SUBSET Events]
  BY <1>0, <1>1 DEF TypeOK, Trigger
<1>6. events[f] \ {e} \in SUBSET Events
  BY <1>0 DEF TypeOK
<1>7. TypeOK'
  BY <1>0, <1>1, <1>2, <1>4, <1>5, <1>6, WatchType DEF TypeOK
<1> QED
  BY <1>2, <1>7 DEF IInv, RegInv

LEMMA CancelAllStep == ASSUME IInv, NEW f \in Fds, CancelAll(f) PROVE IInv'
<1>1. events[f] \in SUBSET Events /\ events[f] \ events[f] = {}
  BY DEF IInv, TypeOK
<1>2. taken' \in [Pollers -> {Idle} \cup [fd : Fds, got : SUBSET (Events \cup {"HUP"})]]
  BY DEF IInv, TypeOK, CancelAll
<1> QED
  BY <1>1, <1>2, TriggerStep DEF CancelAll

LEMMA HandleEventStep == ASSUME IInv, NEW p \in Pollers, HandleEvent(p) PROVE IInv'
<1> DEFINE f == taken[p].fd
           real == RealEvents(taken[p])
<1>1. taken[p] \in [fd : Fds, got : SUBSET (Events \cup {"HUP"})]
  BY DEF IInv, TypeOK, HandleEvent
<1>2. f \in Fds /\ real \in SUBSET Events
  BY <1>1 DEF RealEvents, IInv, TypeOK
<1>3. taken' \in [Pollers -> {Idle} \cup [fd : Fds, got : SUBSET (Events \cup {"HUP"})]]
  BY DEF IInv, TypeOK, HandleEvent
<1>4. /\ ~aborted /\ Watch(f, events[f] \ real) /\ Trigger(f, events[f], real)
      /\ pending' = pending - Cardinality(real) /\ UNCHANGED <<regs, deleted>>
  BY DEF HandleEvent
<1> HIDE DEF f, real
<1> QED
  BY <1>2, <1>3, <1>4, TriggerStep

LEMMA StepIInv == IInv /\ [Next]_vars => IInv'
<1> SUFFICES ASSUME IInv, [Next]_vars PROVE IInv'
  OBVIOUS
<1>1. CASE UNCHANGED vars
  <2>1. RegInv'
    BY <1>1, QuietStep DEF IInv, vars, epollVars
  <2>2. TypeOK'
    BY <1>1 DEF IInv, TypeOK, vars, epollVars, ctxVars, logVars
  <2> QED
    BY <2>1, <2>2 DEF IInv
<1>2. CASE Callers
  BY <1>2, AddEventStep, DelEventStep, CancelEventStep, CancelAllStep DEF Callers
<1>3. ASSUME NEW p \in Pollers, Handle(p) PROVE IInv'
  BY <1>3, SkipEventStep, HandleEventStep DEF Handle
<1> QED
  BY <1>1, <1>2, <1>3, WorldStep, EpollWaitStep DEF Next

-----------------------------------------------------------------------------
(* Theorems                                                                *)

THEOREM FdInvariant == Spec => []IInv
BY InitIInv, StepIInv, PTL DEF Spec

\* Every variable keeps its type; in particular m_pendingEventCount, an unsigned
\* counter, never drops below zero while the process runs.
THEOREM FdTypeOK == Spec => []TypeOK
<1>1. IInv => TypeOK
  BY DEF IInv
<1> QED
  BY <1>1, FdInvariant, PTL

\* m_pendingEventCount and epoll's interest agree with FdContext::events after
\* every operation, whichever poller or caller made it.
THEOREM FdPendingIsExact == Spec => []PendingIsExact
<1>1. IInv => PendingIsExact
  BY DEF IInv, RegInv, PendingIsExact
<1> QED
  BY <1>1, FdInvariant, PTL

\* Whatever order addEvent(), delEvent(), cancelAll() and the polling threads
\* come in, a registration is armed in one place, was scheduled once, or deleted.
THEOREM FdEndsExactlyOnce == Spec => []EndsExactlyOnce
<1>1. IInv => EndsExactlyOnce
  <2> SUFFICES ASSUME IInv, ~aborted, NEW r \in 1..regs
               PROVE  Cardinality(Armed(r)) + fired[r] + Cardinality(deleted \cap {r}) = 1
    BY DEF EndsExactlyOnce
  <2>1. TypeOK /\ SlotInv /\ FateInv /\ r \in Regs /\ r <= regs
    BY FdAssumption DEF IInv, RegInv, TypeOK, Regs
  <2>2. Cardinality(Armed(r)) = IF r \in Stored THEN 1 ELSE 0
    BY <2>1, ArmedOnce
  <2>3. Cardinality(deleted \cap {r}) = IF r \in deleted THEN 1 ELSE 0
    <3>1. deleted \cap {r} = IF r \in deleted THEN {r} ELSE {}
      OBVIOUS
    <3> QED
      BY <3>1, FS_EmptySet, FS_Singleton
  <2> QED
    BY <2>1, <2>2, <2>3 DEF FateInv
<1> QED
  BY <1>1, FdInvariant, PTL

-----------------------------------------------------------------------------
(* Refinement                                                              *)

LEMMA RegistryQuiet ==
  ASSUME UNCHANGED <<slot, fired, deleted>>
  PROVE  UNCHANGED Registry!shotVars
BY DEF Stored, Registry!shotVars

LEMMA RegistryArm ==
  ASSUME IInv, NEW f \in Fds, NEW e \in Events, AddEvent(f, e)
  PROVE  Registry!ShotNext
<1>1. TypeOK /\ SlotInv /\ FateInv /\ MaxRegs \in Nat
  BY FdAssumption DEF IInv, RegInv, AddEvent
<1>2. /\ regs < MaxRegs /\ e \notin events[f] /\ slot' = [slot EXCEPT ![f][e] = regs + 1]
      /\ UNCHANGED <<fired, deleted>>
  BY DEF AddEvent
<1>3. regs \in Nat /\ regs + 1 \in Regs /\ slot[f][e] = 0
  BY <1>1, <1>2 DEF TypeOK, Regs, SlotInv, NoReg
<1>4. \A g \in Fds, d \in Events : slot'[g][d] = IF g = f /\ d = e THEN regs + 1 ELSE slot[g][d]
  BY <1>1, <1>2 DEF TypeOK
<1>5. regs + 1 \notin Stored
  <2>1. ASSUME NEW g \in Fds, NEW d \in Events PROVE slot[g][d] # regs + 1
    <3>1. slot[g][d] <= regs /\ slot[g][d] \in 0..MaxRegs
      BY <1>1 DEF SlotInv, TypeOK
    <3> QED
      BY <1>1, <1>3, <3>1
  <2> QED
    BY <2>1 DEF Stored
<1>6. fired[regs + 1] = 0 /\ regs + 1 \notin deleted
  <2>1. regs + 1 > regs
    BY <1>3
  <2> QED
    BY <1>1, <1>3, <2>1 DEF FateInv
<1>7. Stored' = Stored \cup {regs + 1}
  <2>1. 0 \notin Regs
    BY <1>1 DEF Regs
  <2> QED
    BY <1>3, <1>4, <2>1 DEF Stored
<1>8. Registry!Arm(regs + 1)
  BY <1>2, <1>5, <1>6, <1>7 DEF Registry!Arm
<1> QED
  BY <1>3, <1>8 DEF Registry!ShotNext

LEMMA RegistryDrop ==
  ASSUME IInv, NEW f \in Fds, NEW e \in Events, DelEvent(f, e)
  PROVE  Registry!ShotNext
<1>1. TypeOK /\ SlotInv /\ MaxRegs \in Nat
  BY FdAssumption DEF IInv, RegInv, DelEvent
<1>2. /\ e \in events[f] /\ slot' = [slot EXCEPT ![f][e] = NoReg]
      /\ deleted' = deleted \cup {slot[f][e]} /\ UNCHANGED fired
  BY DEF DelEvent
<1>3. slot[f][e] \in Regs /\ slot[f][e] # NoReg
  BY <1>1, <1>2 DEF SlotInv, TypeOK, NoReg, Regs
<1>4. \A g \in Fds, d \in Events : slot'[g][d] = IF g = f /\ d = e THEN NoReg ELSE slot[g][d]
  BY <1>1, <1>2 DEF TypeOK
<1>5. NoReg \notin Regs
  BY <1>1 DEF Regs, NoReg
<1>6. Stored' = Stored \ {slot[f][e]} /\ slot[f][e] \in Stored
  BY <1>1, <1>3, <1>4, <1>5 DEF Stored, SlotInv
<1>7. Registry!Drop(slot[f][e])
  BY <1>2, <1>6 DEF Registry!Drop
<1> QED
  BY <1>3, <1>7 DEF Registry!ShotNext

\* triggerEvent() hands out what it finds stored and takes it out, whether or not
\* its assert fails.
LEMMA RegistryFire ==
  ASSUME IInv, ~aborted, NEW f \in Fds, NEW has, NEW es \in SUBSET Events,
         Trigger(f, has, es), UNCHANGED deleted
  PROVE  Registry!ShotNext
<1> DEFINE S == {r \in Regs : \E e \in es : slot[f][e] = r}
<1>1. TypeOK /\ SlotInv /\ MaxRegs \in Nat
  BY FdAssumption DEF IInv, RegInv
<1>2. slot' = [slot EXCEPT ![f] = [e \in Events |-> IF e \in es THEN NoReg ELSE slot[f][e]]]
  BY <1>1 DEF Trigger, TypeOK
<1>3. \A g \in Fds, d \in Events : slot'[g][d] = IF g = f /\ d \in es THEN NoReg ELSE slot[g][d]
  BY <1>1, <1>2 DEF TypeOK
<1>4. NoReg \notin Regs
  BY <1>1 DEF Regs, NoReg
<1>5. S \subseteq Stored
  BY DEF Stored
<1>6. Stored' = Stored \ S
  <2>1. ASSUME NEW r \in Regs PROVE r \in Stored' <=> r \in Stored /\ r \notin S
    <3>1. r # NoReg
      BY <1>4
    <3> QED
      BY <1>1, <1>3, <3>1 DEF Stored, SlotInv
  <2> QED
    BY <2>1 DEF Stored
<1>7. fired' = [r \in Regs |-> IF r \in S THEN fired[r] + 1 ELSE fired[r]]
  BY DEF Trigger
<1>8. Registry!Fire(S)
  BY <1>6, <1>7 DEF Registry!Fire
<1> QED
  BY <1>5, <1>8 DEF Registry!ShotNext

LEMMA RegistryStep == IInv /\ [Next]_vars => [Registry!ShotNext]_(Registry!shotVars)
<1> SUFFICES ASSUME IInv, [Next]_vars PROVE [Registry!ShotNext]_(Registry!shotVars)
  OBVIOUS
<1>1. CASE UNCHANGED vars \/ World
  BY <1>1, RegistryQuiet DEF vars, World, Rise, Consume, ctxVars, logVars
<1>2. ASSUME NEW p \in Pollers, SkipEvent(p) \/ \E f \in Fds : EpollWait(p, f)
      PROVE  UNCHANGED Registry!shotVars
  BY <1>2, RegistryQuiet DEF SkipEvent, EpollWait, ctxVars, logVars
<1>3. ASSUME NEW f \in Fds, NEW e \in Events, CancelEvent(f, e) PROVE Registry!ShotNext
  <2>1. {e} \in SUBSET Events
    OBVIOUS
  <2> QED
    BY <1>3, <2>1, RegistryFire DEF CancelEvent
<1>4. ASSUME NEW f \in Fds, CancelAll(f) PROVE Registry!ShotNext
  <2>1. events[f] \in SUBSET Events
    BY DEF IInv, TypeOK
  <2> QED
    BY <1>4, <2>1, RegistryFire DEF CancelAll
<1>5. ASSUME NEW p \in Pollers, HandleEvent(p) PROVE Registry!ShotNext
  <2> DEFINE f == taken[p].fd
             real == RealEvents(taken[p])
  <2>1. taken[p] \in [fd : Fds, got : SUBSET (Events \cup {"HUP"})]
    BY <1>5 DEF IInv, TypeOK, HandleEvent
  <2>2. f \in Fds /\ real \in SUBSET Events
    BY <2>1 DEF RealEvents, IInv, TypeOK
  <2>3. ~aborted /\ Trigger(f, events[f], real) /\ UNCHANGED deleted
    BY <1>5 DEF HandleEvent
  <2> HIDE DEF f, real
  <2> QED
    BY <2>2, <2>3, RegistryFire
<1> QED
  BY <1>1, <1>2, <1>3, <1>4, <1>5, RegistryArm, RegistryDrop DEF Next, Callers, Handle

\* addEvent(), delEvent(), cancelEvent(), cancelAll() and the polling threads with
\* their stale epoll results implement OneShot: every step arms a new callback, drops
\* one, hands out some that were armed, or changes nothing about them.
THEOREM FdRefinesOneShot == Spec => RegistryRefinement
<1>1. Init => Registry!ShotInit
  <2>1. NoReg \notin Regs
    BY FdAssumption DEF Regs, NoReg
  <2> QED
    BY <2>1 DEF Init, Registry!ShotInit, Stored
<1>2. IInv /\ [Next]_vars => [Registry!ShotNext]_(Registry!shotVars)
  BY RegistryStep
<1> QED
  BY <1>1, <1>2, FdInvariant, PTL DEF Spec, RegistryRefinement, Registry!ShotSpec
=============================================================================
