--------------------------- MODULE MCGomokuServer ---------------------------
(* GomokuServer for TLC: threads, browsers, accounts and session ids are     *)
(* interchangeable.                                                          *)
EXTENDS GomokuServer, TLC

\* All threads with all browsers, which send these requests.
Busy(requests) == [threads |-> Threads, clients |-> Clients, badBodies |-> FALSE,
                   expiry |-> FALSE, requests |-> requests]

\* One IO thread with every request and everything that may go wrong in one; and
\* all threads with accounts that are made and used, with logins against logouts,
\* and with players.
MCSetups ==
  {[threads |-> {t}, clients |-> Clients, badBodies |-> TRUE, expiry |-> TRUE,
    requests |-> {"register", "login", "logout", "start", "move"}] : t \in Threads}
  \cup {[Busy({"register", "login"}) EXCEPT !.clients = {c}] : c \in Clients}
  \cup {[Busy({"login", "logout"}) EXCEPT !.badBodies = TRUE], Busy({"login", "start", "move"})}

\* Logins and logouts alone.
MCLockout ==
  {[threads |-> Threads, clients |-> Clients, badBodies |-> TRUE, expiry |-> FALSE,
    requests |-> {"login", "logout"}]}

Symmetry == Permutations(Threads) \cup Permutations(Clients) \cup Permutations(Users)
            \cup Permutations(SessionIds)
=============================================================================
