-------------------------- MODULE ConnectionLease --------------------------
(***************************************************************************)
(* What DbConnectionPool promises its callers, without queue, mutex or     *)
(* condition variable: every connection is either free or held by exactly  *)
(* one caller.  A connection enters the pool free, one caller at a time    *)
(* takes it, and only its holder gives it back.                            *)
(***************************************************************************)
CONSTANTS Workers,   \* the threads that call getConnection()
          Conns,     \* every connection that can be created
          NoConn     \* "holds nothing"

VARIABLES free,      \* connections available for a lease
          holder     \* the connection each worker holds

leaseVars == <<free, holder>>

LeaseInit ==
  /\ free = {}
  /\ holder = [w \in Workers |-> NoConn]

Held == {holder[w] : w \in Workers} \ {NoConn}

\* A connection that nobody has seen before joins the pool.
Add(c) ==
  /\ c \notin free \cup Held
  /\ free' = free \cup {c}
  /\ UNCHANGED holder

Take(w, c) ==
  /\ holder[w] = NoConn
  /\ c \in free
  /\ free' = free \ {c}
  /\ holder' = [holder EXCEPT ![w] = c]

Give(w) ==
  /\ holder[w] # NoConn
  /\ free' = free \cup {holder[w]}
  /\ holder' = [holder EXCEPT ![w] = NoConn]

LeaseNext ==
  \/ \E c \in Conns : Add(c)
  \/ \E w \in Workers, c \in Conns : Take(w, c)
  \/ \E w \in Workers : Give(w)

LeaseSpec == LeaseInit /\ [][LeaseNext]_leaseVars
=============================================================================
