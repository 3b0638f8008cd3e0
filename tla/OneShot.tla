------------------------------ MODULE OneShot ------------------------------
(***************************************************************************)
(* What IOManager promises whoever leaves a callback with it, for an event *)
(* of a descriptor or for a timer that does not recur: it is armed once,   *)
(* then handed to the scheduler once or dropped on request, and after that *)
(* nothing happens to it.  One expiry or one epoll result may hand out     *)
(* several.  Who waits, where the callback is stored and what races with   *)
(* what is left to FdContext and TimerManager.                             *)
(***************************************************************************)
EXTENDS Naturals

CONSTANT Ids       \* one for each callback that is ever left

VARIABLES armed,   \* callbacks that may still be handed out
          runs,    \* how often each was handed out
          dropped  \* callbacks given up before they were handed out

shotVars == <<armed, runs, dropped>>

ShotInit ==
  /\ armed = {}
  /\ runs = [i \in Ids |-> 0]
  /\ dropped = {}

Arm(i) ==
  /\ i \notin armed \cup dropped
  /\ runs[i] = 0
  /\ armed' = armed \cup {i}
  /\ UNCHANGED <<runs, dropped>>

Fire(S) ==
  /\ armed' = armed \ S
  /\ runs' = [i \in Ids |-> IF i \in S THEN runs[i] + 1 ELSE runs[i]]
  /\ UNCHANGED dropped

Drop(i) ==
  /\ i \in armed
  /\ armed' = armed \ {i}
  /\ dropped' = dropped \cup {i}
  /\ UNCHANGED runs

ShotNext ==
  \/ \E i \in Ids : Arm(i) \/ Drop(i)
  \/ \E S \in SUBSET armed : Fire(S)

ShotSpec == ShotInit /\ [][ShotNext]_shotVars
=============================================================================
