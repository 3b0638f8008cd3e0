--------------------------- MODULE MCTimerManager ---------------------------
(* TimerManager for TLC: timers, users and pollers are interchangeable.     *)
EXTENDS TimerManager, TLC

\* All users and pollers with one-shot timers and every operation; or any one
\* user and poller with recurring timers too, equal deadlines and a clock that
\* is set back.
MCSetups ==
  {[users |-> Users, pollers |-> Pollers, kinds |-> {FALSE},
    ops |-> {"cancel", "refresh", "reset"}, ties |-> FALSE, setBack |-> FALSE, maxTime |-> 2]}
  \cup
  {[users |-> {u}, pollers |-> {p}, kinds |-> BOOLEAN,
    ops |-> {"cancel", "refresh"}, ties |-> TRUE, setBack |-> TRUE, maxTime |-> 3] :
      u \in Users, p \in Pollers}

Symmetry == Permutations(Timers) \cup Permutations(Users) \cup Permutations(Pollers)
=============================================================================
