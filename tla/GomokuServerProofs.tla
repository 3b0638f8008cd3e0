------------------------- MODULE GomokuServerProofs -------------------------
(***************************************************************************)
(* Proofs about GomokuServer, for every number of IO threads, browsers,    *)
(* accounts and sessions and every set of setups: a request that overlaps  *)
(* none of its user or session meets no undefined behaviour, the maximum   *)
(* of users online is backed by users online or just let in, and neither   *)
(* logins nor rows of a name exceed the number of IO threads.              *)
(***************************************************************************)
EXTENDS GomokuServer, FiniteSetTheorems, TLAPS

\* A thread inside a handler knows its user.
UserKnown == \A t \in Threads : pc[t] \notin {"idle", "reply", "registerReply"} => user[t] \in Users

\* Threads that serve no request of this server stay idle.
OthersIdle == \A t \in Threads \ use.threads : pc[t] = "idle"

TypeInv == TypeOK /\ UserKnown /\ OthersIdle

\* Every entry of online_users is backed, and the peak has seen them all ...
EntriesInv == listed \subseteq online \cup LetIn /\ Cardinality(online \cup LetIn) <= peak

\* ... so that nothing that is ever stored in maxOnline_ exceeds it.
CountInv == maxOnline <= peak /\ \A t \in Threads : count[t] <= peak

\* The threads that have found u offline and are about to log u in ...
Admitted(u) == {t \in use.threads : pc[t] = "loginInsert" /\ user[t] = u}

LoginsInv ==
  \A u \in Users : /\ u \notin online => logins[u] = 0
                   /\ logins[u] + Cardinality(Admitted(u)) <= Cardinality(use.threads)

\* ... and those that have seen no row for u and are about to insert one.
Inserting(u) == {t \in use.threads : pc[t] = "registerInsert" /\ user[t] = u}

RowsInv == \A u \in Users : rows[u] + Cardinality(Inserting(u)) <= Cardinality(use.threads)

Larger(m, n) == IF m >= n THEN m ELSE n

\* Two requests of one user, or on one session.
Related(t, o) == sid[t] = sid[o] \/ (user[t] = user[o] /\ user[t] # NoUser)

\* Requests that are related and handled at one time know that they crossed.
MeetInv == \A t, o \in Threads : t # o /\ Serving(t) /\ Serving(o) /\ Related(t, o) => crossed[t]

\* Between finding a game, or a session, and using it, nothing that is unrelated
\* takes it away.
Undisturbed(t) ==
  /\ ~dangling[t]
  /\ pc[t] = "moveRefer" => user[t] \in games
  /\ pc[t] = "logoutClear" => sid[t] \in sessions

AloneInv ==
  /\ "alone" \notin undefined
  /\ \A t \in Threads : crossed[t] \/ Undisturbed(t)
  /\ \A t \in Threads : ~Serving(t) => ~dangling[t]

-----------------------------------------------------------------------------
(* Lemmas                                                                  *)

LEMMA UseType == ASSUME TypeInv
                 PROVE  /\ use \in SetupType /\ use.threads \subseteq Threads /\ use.threads # {}
                        /\ use.clients \subseteq Clients
                        /\ IsFiniteSet(use.threads) /\ Cardinality(use.threads) \in Nat
<1>1. use \in SetupType
  BY GomokuAssumption DEF TypeInv, TypeOK
<1>2. use.threads \subseteq Threads /\ use.threads # {} /\ use.clients \subseteq Clients
  BY <1>1 DEF SetupType
<1> QED
  BY <1>1, <1>2, GomokuAssumption, FS_Subset, FS_CardinalityType

LEMMA MaxOfTwo == ASSUME NEW m \in Nat, NEW n \in Nat
                  PROVE  Max({m, n}) = Larger(m, n)
<1> DEFINE P(x) == \A y \in {m, n} : x >= y
<1>1. \E x \in {m, n} : P(x)
  OBVIOUS
<1>2. \A x \in {m, n} : P(x) => x = Larger(m, n)
  BY DEF Larger
<1>3. Max({m, n}) = CHOOSE x \in {m, n} : P(x)
  BY DEF Max
<1> HIDE DEF P
<1>4. Max({m, n}) \in {m, n} /\ P(Max({m, n}))
  BY <1>1, <1>3
<1> QED
  BY <1>2, <1>4

LEMMA OnlineCount == ASSUME NEW S \in SUBSET Users
                     PROVE  Cardinality(S) \in 0..Cardinality(Users)
<1>1. IsFiniteSet(Users) /\ IsFiniteSet(S) /\ Cardinality(S) <= Cardinality(Users)
  BY GomokuAssumption, FS_Subset
<1> QED
  BY <1>1, FS_CardinalityType

-----------------------------------------------------------------------------
(* Types                                                                   *)

LEMMA InitTypeInv == Init => TypeInv
<1> SUFFICES ASSUME Init PROVE TypeInv
  OBVIOUS
<1>1. Cardinality(Users) \in Nat
  BY GomokuAssumption, FS_CardinalityType
<1>2. count \in [Threads -> 0..Cardinality(Users)] /\ maxOnline \in 0..Cardinality(Users)
      /\ peak \in 0..Cardinality(Users)
  BY <1>1 DEF Init
<1>3. rows \in [Users -> Nat] /\ logins \in [Users -> Nat]
  BY DEF Init
<1>4. TypeOK
  BY <1>2, <1>3 DEF Init, TypeOK, Labels
<1> QED
  BY <1>4 DEF TypeInv, UserKnown, OthersIdle, Init

\* Steps that change no more than the place of one thread, games and undefined.
LEMMA MoveTypeInv ==
  ASSUME TypeInv, NEW t \in use.threads, NEW l \in Labels, Goto(t, l),
         user[t] \in Users \/ l \in {"idle", "reply", "registerReply"},
         games' \subseteq Users, dangling' \in [Threads -> BOOLEAN], undefined' \subseteq {"alone", "crossed"},
         UNCHANGED <<sessionVars, cookie, onlineVars, threadVars, restVars>>
  PROVE  TypeInv'
<1> USE DEF sessionVars, onlineVars, threadVars, restVars, Goto
<1>1. t \in Threads
  BY UseType
<1>2. TypeOK'
  BY <1>1 DEF TypeInv, TypeOK
<1>3. UserKnown' /\ OthersIdle'
  BY <1>1 DEF TypeInv, TypeOK, UserKnown, OthersIdle
<1> QED
  BY <1>2, <1>3 DEF TypeInv

LEMMA RegisterTypeInv == ASSUME TypeInv, NEW t \in use.threads, Register(t) PROVE TypeInv'
<1> USE DEF sessionVars, onlineVars, threadVars, restVars
<1>0. t \in Threads
  BY UseType
<1>a. pc[t] \notin {"idle", "reply", "registerReply"} => user[t] \in Users
  BY <1>0 DEF TypeInv, UserKnown
<1>b. games \subseteq Users /\ dangling \in [Threads -> BOOLEAN] /\ undefined \subseteq {"alone", "crossed"}
  BY DEF TypeInv, TypeOK
<1>1. ASSUME NEW u \in Users, RegisterRequest(t, u) PROVE TypeInv'
  <2>1. TypeOK'
    BY <1>0, <1>1 DEF TypeInv, TypeOK, RegisterRequest, Goto, Labels
  <2> QED
    BY <1>0, <1>1, <2>1 DEF TypeInv, TypeOK, UserKnown, OthersIdle, RegisterRequest, Goto
<1>2. CASE RegisterCheck(t)
  BY <1>2, <1>a, <1>b, MoveTypeInv DEF RegisterCheck, Labels, Goto
<1>3. CASE RegisterInsert(t)
  <2>1. rows' \in [Users -> Nat]
    BY <1>3, <1>a DEF TypeInv, TypeOK, RegisterInsert
  <2>2. TypeOK'
    BY <1>0, <1>3, <2>1 DEF TypeInv, TypeOK, RegisterInsert, Goto, Labels
  <2> QED
    BY <1>0, <1>3, <2>2 DEF TypeInv, TypeOK, UserKnown, OthersIdle, RegisterInsert, Goto
<1>4. CASE RegisterReply(t)
  <2>1. TypeOK'
    BY <1>0, <1>4 DEF TypeInv, TypeOK, RegisterReply, Goto, Labels
  <2> QED
    BY <1>0, <1>4, <2>1 DEF TypeInv, TypeOK, UserKnown, OthersIdle, RegisterReply, Goto
<1> QED
  BY <1>1, <1>2, <1>3, <1>4 DEF Register

\* The response leaves: whatever the maximum has become.
LEMMA ReplyTypeInv ==
  ASSUME TypeInv, NEW t \in use.threads, Reply(t), maxOnline' \in 0..Cardinality(Users),
         UNCHANGED <<sessionVars, listed, online, logins, peak, games, undefined, restVars>>
  PROVE  TypeInv'
<1> USE DEF sessionVars, restVars, Reply, Goto
<1>0. t \in Threads
  BY UseType
<1>1. Cardinality(Users) \in Nat
  BY GomokuAssumption, FS_CardinalityType
<1>2. count' \in [Threads -> 0..Cardinality(Users)]
  BY <1>0, <1>1 DEF TypeInv, TypeOK
<1>3. cookie' \in [Clients -> SessionIds \cup {NoSession}] /\ sid' \in [Threads -> SessionIds \cup {NoSession}]
  BY <1>0 DEF TypeInv, TypeOK
<1>4. /\ pc' \in [Threads -> Labels] /\ fresh' \in [Threads -> BOOLEAN] /\ dangling' \in [Threads -> BOOLEAN]
      /\ client' \in [Threads -> Clients \cup {NoClient}] /\ user' \in [Threads -> Users \cup {NoUser}]
      /\ crossed' \in [Threads -> BOOLEAN]
  BY <1>0 DEF TypeInv, TypeOK, Labels
<1>5. TypeOK'
  BY <1>2, <1>3, <1>4 DEF TypeInv, TypeOK
<1>6. UserKnown' /\ OthersIdle'
  BY <1>0 DEF TypeInv, TypeOK, UserKnown, OthersIdle
<1> QED
  BY <1>5, <1>6 DEF TypeInv

\* A user is let in; operator[] may have made an entry.
LEMMA AdmitTypeInv ==
  ASSUME TypeInv, NEW t \in use.threads, user[t] \in Users, Admit(t),
         listed' = listed \/ listed' = listed \cup {user[t]}
  PROVE  TypeInv'
<1> USE DEF sessionVars, threadVars, restVars, Admit, Goto
<1>0. t \in Threads
  BY UseType
<1>1. online \subseteq Users /\ LetIn \subseteq Users
  BY DEF TypeInv, TypeOK, UserKnown, LetIn
<1>2. /\ Cardinality(online \cup LetIn \cup {user[t]}) \in 0..Cardinality(Users)
      /\ Cardinality(Users) \in Nat /\ peak \in 0..Cardinality(Users)
  BY <1>1, OnlineCount, GomokuAssumption, FS_CardinalityType DEF TypeInv, TypeOK
<1>3. peak' = Larger(peak, Cardinality(online \cup LetIn \cup {user[t]}))
  <2>1. /\ peak \in Nat /\ Cardinality(online \cup LetIn \cup {user[t]}) \in Nat
        /\ peak' = Max({peak, Cardinality(online \cup LetIn \cup {user[t]})})
    BY <1>2
  <2> HIDE DEF Admit
  <2> QED
    BY ONLY <2>1, MaxOfTwo
<1>4. peak' \in 0..Cardinality(Users)
  BY <1>2, <1>3 DEF Larger
<1>5. pc' \in [Threads -> Labels] /\ listed' \subseteq Users /\ online' \subseteq listed'
  BY <1>0 DEF TypeInv, TypeOK, Labels
<1>6. TypeOK'
  BY <1>4, <1>5 DEF TypeInv, TypeOK
<1> QED
  BY <1>0, <1>6 DEF TypeInv, TypeOK, UserKnown, OthersIdle

LEMMA LoginTypeInv == ASSUME TypeInv, NEW t \in use.threads, Login(t) PROVE TypeInv'
<1> USE DEF sessionVars, onlineVars, threadVars, restVars
<1>0. t \in Threads
  BY UseType
<1>a. pc[t] \notin {"idle", "reply", "registerReply"} => user[t] \in Users
  BY <1>0 DEF TypeInv, UserKnown
<1>b. games \subseteq Users /\ dangling \in [Threads -> BOOLEAN] /\ undefined \subseteq {"alone", "crossed"}
      /\ maxOnline \in 0..Cardinality(Users) /\ count[t] \in 0..Cardinality(Users)
      /\ peak \in 0..Cardinality(Users)
  BY <1>0 DEF TypeInv, TypeOK
<1>1. CASE LoginRefuse(t)
  BY <1>1, <1>b, ReplyTypeInv DEF LoginRefuse
<1>2. CASE LoginFind(t) \/ LoginAccept(t)
  <2>1. user[t] \in Users
    BY <1>2, <1>a DEF LoginFind, LoginAccept
  <2>2. CASE ReadNext(t)
    BY <1>b, <2>1, <2>2, MoveTypeInv DEF ReadNext, Labels
  <2>3. CASE Admit(t) /\ (listed' = listed \/ listed' = listed \cup {user[t]})
    BY <2>1, <2>3, AdmitTypeInv
  <2> QED
    BY <1>2, <2>2, <2>3 DEF LoginFind, LoginAccept
<1>3. CASE LoginInsert(t)
  <2>1. /\ listed' \subseteq Users /\ online' \subseteq listed'
        /\ logins' \in [Users -> Nat] /\ pc' \in [Threads -> Labels]
    BY <1>0, <1>3, <1>a DEF TypeInv, TypeOK, LoginInsert, Goto, Labels
  <2>2. TypeOK'
    BY <1>3, <2>1 DEF TypeInv, TypeOK, LoginInsert
  <2> QED
    BY <1>0, <1>3, <2>2 DEF TypeInv, TypeOK, UserKnown, OthersIdle, LoginInsert, Goto
<1>4. CASE LoginCount(t) \/ LoginLoad(t)
  <2>1. count' \in [Threads -> 0..Cardinality(Users)]
    <3>1. Cardinality(listed) \in 0..Cardinality(Users) /\ Cardinality(Users) \in Nat
      BY OnlineCount, GomokuAssumption, FS_CardinalityType DEF TypeInv, TypeOK
    <3>2. Max({maxOnline, count[t]}) \in 0..Cardinality(Users)
      <4>1. maxOnline \in Nat /\ count[t] \in Nat
        BY <1>b, <3>1
      <4> QED
        BY <1>b, <3>1, <4>1, MaxOfTwo DEF Larger
    <3> QED
      BY <1>0, <1>4, <3>1, <3>2 DEF LoginCount, LoginLoad, TypeInv, TypeOK
  <2>2. TypeOK'
    BY <1>0, <1>4, <2>1 DEF TypeInv, TypeOK, LoginCount, LoginLoad, Goto, Labels
  <2> QED
    BY <1>0, <1>4, <2>2 DEF TypeInv, TypeOK, UserKnown, OthersIdle, LoginCount, LoginLoad, Goto
<1>5. CASE LoginStore(t)
  BY <1>5, <1>b, ReplyTypeInv DEF LoginStore
<1> QED
  BY <1>1, <1>2, <1>3, <1>4, <1>5 DEF Login

LEMMA LogoutTypeInv == ASSUME TypeInv, NEW t \in use.threads, Logout(t) PROVE TypeInv'
<1> USE DEF sessionVars, onlineVars, threadVars, restVars
<1>0. t \in Threads
  BY UseType
<1>a. pc[t] \notin {"idle", "reply", "registerReply"} => user[t] \in Users
  BY <1>0 DEF TypeInv, UserKnown
<1>b. games \subseteq Users /\ dangling \in [Threads -> BOOLEAN] /\ undefined \subseteq {"alone", "crossed"}
      /\ maxOnline \in 0..Cardinality(Users)
  BY DEF TypeInv, TypeOK
<1>1. CASE LogoutClear(t)
  <2>1. /\ sessions' \subseteq SessionIds /\ expired' \subseteq sessions'
        /\ data' \in [SessionIds -> Users \cup {NoUser}] /\ undefined' \subseteq {"alone", "crossed"}
        /\ pc' \in [Threads -> Labels]
    BY <1>0, <1>1 DEF TypeInv, TypeOK, LogoutClear, Kind, Goto, Labels
  <2>2. TypeOK'
    BY <1>1, <2>1 DEF TypeInv, TypeOK, LogoutClear
  <2> QED
    BY <1>0, <1>1, <2>2 DEF TypeInv, TypeOK, UserKnown, OthersIdle, LogoutClear, Goto
<1>2. CASE LogoutThrow(t)
  BY <1>2, <1>b, ReplyTypeInv DEF LogoutThrow
<1>3. CASE LogoutOffline(t)
  <2>1. TypeOK'
    BY <1>0, <1>3, <1>a DEF TypeInv, TypeOK, LogoutOffline, Goto, Labels
  <2> QED
    BY <1>0, <1>3, <2>1 DEF TypeInv, TypeOK, UserKnown, OthersIdle, LogoutOffline, Goto
<1>4. CASE LogoutGame(t)
  <2>1. games' \subseteq Users /\ dangling' \in [Threads -> BOOLEAN] /\ undefined' \subseteq {"alone", "crossed"}
    BY <1>4, <1>b DEF LogoutGame, EraseGame
  <2> QED
    BY <1>4, <2>1, MoveTypeInv DEF LogoutGame, Labels
<1> QED
  BY <1>1, <1>2, <1>3, <1>4 DEF Logout

LEMMA GameTypeInv == ASSUME TypeInv, NEW t \in use.threads, Game(t) PROVE TypeInv'
<1>0. t \in Threads
  BY UseType
<1>a. pc[t] \notin {"idle", "reply", "registerReply"} => user[t] \in Users
  BY <1>0 DEF TypeInv, UserKnown
<1>b. games \subseteq Users /\ dangling \in [Threads -> BOOLEAN] /\ undefined \subseteq {"alone", "crossed"}
  BY DEF TypeInv, TypeOK
<1>1. CASE StartCreate(t) \/ MoveErase(t)
  <2>1. games' \subseteq Users /\ dangling' \in [Threads -> BOOLEAN] /\ undefined' \subseteq {"alone", "crossed"}
    BY <1>1, <1>a, <1>b DEF StartCreate, MoveErase, EraseGame
  <2> QED
    BY <1>1, <2>1, MoveTypeInv DEF StartCreate, MoveErase, Labels
<1>2. CASE MoveFind(t) \/ MoveCreate(t)
  <2>1. games' \subseteq Users /\ dangling' \in [Threads -> BOOLEAN]
    BY <1>2, <1>a, <1>b DEF MoveFind, MoveCreate, EraseGame
  <2>2. user[t] \in Users
    BY <1>2, <1>a DEF MoveFind, MoveCreate
  <2> QED
    BY <1>2, <1>b, <2>1, <2>2, MoveTypeInv DEF MoveFind, MoveCreate, Labels
<1>3. CASE MoveRefer(t) \/ MovePlay(t)
  <2>1. undefined' \subseteq {"alone", "crossed"}
    BY <1>0, <1>3, <1>b DEF MoveRefer, MovePlay, Kind
  <2>2. user[t] \in Users
    BY <1>3, <1>a DEF MoveRefer, MovePlay
  <2> QED
    BY <1>3, <1>b, <2>1, <2>2, MoveTypeInv DEF MoveRefer, MovePlay, Labels
<1> QED
  BY <1>1, <1>2, <1>3 DEF Game

LEMMA OpenTypeInv ==
  ASSUME TypeInv, NEW t \in use.threads, NEW c \in Clients, NEW s \in SessionIds,
         NEW u \in Users \cup {NoUser}, NEW l \in Labels,
         u \in Users \/ l \in {"idle", "reply", "registerReply"},
         Open(t, c, s, u, l),
         UNCHANGED <<cookie, onlineVars, games, count, dangling, undefined, restVars>>
  PROVE  TypeInv'
<1> USE DEF onlineVars, restVars
<1>0. t \in Threads
  BY UseType
<1>1. /\ sessions' = Stored(c, s) /\ expired' = expired \ {cookie[c], s}
      /\ data' = [data EXCEPT ![s] = u] /\ client' = [client EXCEPT ![t] = c]
      /\ sid' = [sid EXCEPT ![t] = s] /\ fresh' = [fresh EXCEPT ![t] = ~Live(cookie[c])]
      /\ pc' = [pc EXCEPT ![t] = l] /\ user' = [user EXCEPT ![t] = u]
      /\ crossed' \in [Threads -> BOOLEAN]
  BY DEF Open, Goto, TypeInv, TypeOK
<1>2. sessions' \subseteq SessionIds /\ expired' \subseteq sessions'
  BY <1>1 DEF Stored, TypeInv, TypeOK
<1>3. data' \in [SessionIds -> Users \cup {NoUser}] /\ user' \in [Threads -> Users \cup {NoUser}]
  BY <1>1 DEF TypeInv, TypeOK
<1>4. /\ client' \in [Threads -> Clients \cup {NoClient}] /\ sid' \in [Threads -> SessionIds \cup {NoSession}]
      /\ pc' \in [Threads -> Labels]
  BY <1>1 DEF TypeInv, TypeOK
<1>5. fresh' \in [Threads -> BOOLEAN]
  BY <1>1 DEF TypeInv, TypeOK, Live
<1>6. TypeOK'
  BY <1>1, <1>2, <1>3, <1>4, <1>5 DEF TypeInv, TypeOK
<1>7. UserKnown' /\ OthersIdle'
  BY <1>0, <1>1 DEF TypeInv, TypeOK, UserKnown, OthersIdle
<1> QED
  BY <1>6, <1>7 DEF TypeInv

LEMMA RequestTypeInv ==
  ASSUME TypeInv, NEW t \in use.threads, NEW c \in use.clients, NEW s \in SessionIds, Request(t, c, s)
  PROVE  TypeInv'
<1>0. c \in Clients
  BY UseType
<1>1. ASSUME NEW u \in Users, LoginSession(t, c, s, u) PROVE TypeInv'
  BY <1>0, <1>1, OpenTypeInv DEF LoginSession, Labels
<1>2. ASSUME NEW l \in Labels, Authenticate(t, c, s, l) PROVE TypeInv'
  <2>1. Data(c, s) \in Users \cup {NoUser}
    BY DEF Data, TypeInv, TypeOK
  <2>2. (IF Data(c, s) = NoUser THEN "reply" ELSE l) \in Labels
    BY DEF Labels
  <2>3. Data(c, s) \in Users \/ (IF Data(c, s) = NoUser THEN "reply" ELSE l) \in {"idle", "reply", "registerReply"}
    BY <2>1
  <2> QED
    BY <1>0, <1>2, <2>1, <2>2, <2>3, OpenTypeInv DEF Authenticate
<1>3. {"logoutClear", "startCreate", "moveFind"} \subseteq Labels
  BY DEF Labels
<1> QED
  BY <1>1, <1>2, <1>3 DEF Request, LogoutRequest, StartRequest, MoveRequest

LEMMA NextTypeInv == TypeInv /\ [Next]_vars => TypeInv'
<1> SUFFICES ASSUME TypeInv, [Next]_vars PROVE TypeInv'
  OBVIOUS
<1> USE DEF sessionVars, onlineVars, threadVars, restVars
<1>1. ASSUME NEW t \in use.threads, Respond(t) PROVE TypeInv'
  <2>1. maxOnline \in 0..Cardinality(Users)
    BY DEF TypeInv, TypeOK
  <2> QED
    BY <1>1, <2>1, ReplyTypeInv DEF Respond
<1>2. ASSUME NEW s \in SessionIds, Expire(s) PROVE TypeInv'
  <2>1. expired' \subseteq sessions'
    BY <1>2 DEF TypeInv, TypeOK, Expire, Live
  <2> QED
    BY <1>2, <2>1 DEF TypeInv, TypeOK, UserKnown, OthersIdle, Expire
<1>3. CASE UNCHANGED vars
  BY <1>3 DEF TypeInv, TypeOK, UserKnown, OthersIdle, vars
<1> QED
  BY <1>1, <1>2, <1>3, RegisterTypeInv, LoginTypeInv, LogoutTypeInv, GameTypeInv, RequestTypeInv DEF Next

-----------------------------------------------------------------------------
(* Who is let in                                                           *)

\* t lets its user in, has seen no entry or a false one.
LetsIn(t) ==
  /\ pc[t] \in {"loginCheck", "loginRead"}
  /\ user[t] \notin online
  /\ Admit(t)
  /\ listed' = listed \/ listed' = listed \cup {user[t]}

\* t does something else that leaves online_users alone.
Calm(t, l) ==
  /\ pc[t] # "loginInsert" /\ l \in Labels \ {"loginInsert"}
  /\ Goto(t, l)
  /\ \A o \in Threads \ {t} : user'[o] = user[o]
  /\ UNCHANGED <<listed, online, logins, peak, use>>

Changes(t) == LetsIn(t) \/ LoginInsert(t) \/ LogoutOffline(t)

LEMMA CalmOrNot ==
  ASSUME TypeInv, [Next]_vars
  PROVE  \/ \E t \in use.threads : Changes(t)
         \/ \E t \in use.threads, l \in Labels : Calm(t, l)
         \/ UNCHANGED <<pc, user, listed, online, logins, peak, use>>
<1> USE DEF sessionVars, onlineVars, threadVars, restVars
<1>a. Labels \ {"loginInsert"} = {"idle", "reply", "registerCheck", "registerInsert", "registerReply",
           "loginCheck", "loginRead", "loginCount", "loginLoad", "loginStore",
           "logoutClear", "logoutOffline", "logoutGame", "startCreate",
           "moveFind", "moveCreate", "moveRefer", "movePlay", "moveErase"}
  BY DEF Labels
<1>b. user \in [Threads -> Users \cup {NoUser}] /\ online \subseteq listed
  BY DEF TypeInv, TypeOK
<1>1. ASSUME NEW t \in use.threads, Register(t) PROVE \E l \in Labels : Calm(t, l)
  BY <1>1, <1>a, <1>b
     DEF Register, RegisterRequest, RegisterCheck, RegisterInsert, RegisterReply, Calm
<1>2. ASSUME NEW t \in use.threads, pc[t] # "loginInsert", Reply(t), UNCHANGED <<listed, online, logins, peak, use>>
      PROVE  \E l \in Labels : Calm(t, l)
  BY <1>2, <1>a, <1>b DEF Reply, Calm
<1>3. ASSUME NEW t \in use.threads, Login(t) PROVE Changes(t) \/ \E l \in Labels : Calm(t, l)
  <2>1. CASE LoginRefuse(t) \/ LoginStore(t)
    BY <1>2, <2>1 DEF LoginRefuse, LoginStore
  <2>2. CASE LoginCount(t) \/ LoginLoad(t)
    BY <2>2, <1>a DEF LoginCount, LoginLoad, Calm
  <2>3. CASE LoginFind(t) \/ LoginAccept(t)
    <3>1. ReadNext(t) => Calm(t, "loginRead") \/ pc[t] = "loginInsert"
      BY <1>a DEF ReadNext, Calm
    <3> QED
      BY <1>a, <1>b, <2>3, <3>1 DEF LoginFind, LoginAccept, Changes, LetsIn
  <2> QED
    BY <1>3, <2>1, <2>2, <2>3 DEF Login, Changes
<1>4. ASSUME NEW t \in use.threads, Logout(t) PROVE Changes(t) \/ \E l \in Labels : Calm(t, l)
  <2>1. CASE LogoutThrow(t)
    BY <1>2, <2>1 DEF LogoutThrow
  <2>2. CASE LogoutClear(t) \/ LogoutGame(t)
    BY <2>2, <1>a DEF LogoutClear, LogoutGame, Calm
  <2> QED
    BY <1>4, <2>1, <2>2 DEF Logout, Changes
<1>5. ASSUME NEW t \in use.threads, Game(t) PROVE \E l \in Labels : Calm(t, l)
  BY <1>5, <1>a DEF Game, StartCreate, MoveFind, MoveCreate, MoveRefer, MovePlay, MoveErase, Calm
<1>6. ASSUME NEW t \in use.threads, Respond(t) PROVE \E l \in Labels : Calm(t, l)
  BY <1>2, <1>6 DEF Respond
<1>7. ASSUME NEW t \in use.threads, NEW c \in use.clients, NEW s \in SessionIds, Request(t, c, s)
      PROVE  \E l \in Labels : Calm(t, l)
  <2>1. ASSUME NEW u, NEW l \in Labels \ {"loginInsert"}, Open(t, c, s, u, l), UNCHANGED <<onlineVars, restVars>>
        PROVE  Calm(t, l)
    BY <2>1, <1>b DEF Open, Calm
  <2>2. ASSUME NEW u \in Users, LoginSession(t, c, s, u) PROVE \E l \in Labels : Calm(t, l)
    BY <2>1, <2>2, <1>a DEF LoginSession
  <2>3. ASSUME NEW k \in {"logoutClear", "startCreate", "moveFind"}, Authenticate(t, c, s, k)
        PROVE  \E l \in Labels : Calm(t, l)
    <3>1. (IF Data(c, s) = NoUser THEN "reply" ELSE k) \in Labels \ {"loginInsert"}
      BY <1>a
    <3>2. Calm(t, IF Data(c, s) = NoUser THEN "reply" ELSE k)
      BY <2>1, <2>3, <3>1 DEF Authenticate
    <3> QED
      BY <3>1, <3>2
  <2> QED
    BY <1>7, <2>2, <2>3 DEF Request, LogoutRequest, StartRequest, MoveRequest
<1>8. CASE (\E s \in SessionIds : Expire(s)) \/ UNCHANGED vars
  BY <1>8 DEF Expire, vars
<1> QED
  BY <1>1, <1>3, <1>4, <1>5, <1>6, <1>7, <1>8 DEF Next

\* What that means for LetIn and Admitted.
LEMMA WhoIsLetIn ==
  ASSUME TypeInv, NEW t \in use.threads
  PROVE  /\ \A l \in Labels : Calm(t, l) => LetIn' = LetIn /\ \A u : Admitted(u)' = Admitted(u)
         /\ LetsIn(t) => /\ LetIn' = LetIn \cup {user[t]} /\ UNCHANGED <<online, logins, user, use>>
                         /\ \A u : u # user[t] => Admitted(u)' = Admitted(u)
         /\ LoginInsert(t) => /\ LetIn \subseteq LetIn' \cup {user[t]} /\ LetIn' \subseteq LetIn
                              /\ user[t] \in LetIn /\ UNCHANGED use
                              /\ \A u : u # user[t] => Admitted(u)' = Admitted(u)
                              /\ t \in Admitted(user[t]) /\ Admitted(user[t])' = Admitted(user[t]) \ {t}
         /\ LogoutOffline(t) => LetIn' = LetIn /\ use' = use /\ \A u : Admitted(u)' = Admitted(u)
<1> USE DEF threadVars, restVars
<1>0. t \in Threads /\ use.threads \subseteq Threads /\ pc \in [Threads -> Labels]
  BY UseType DEF TypeInv, TypeOK
<1>1. ASSUME NEW l \in Labels, Calm(t, l) PROVE LetIn' = LetIn /\ \A u : Admitted(u)' = Admitted(u)
  <2>1. \A o \in Threads : (pc'[o] = "loginInsert") = (pc[o] = "loginInsert")
    BY <1>0, <1>1 DEF Calm, Goto
  <2>2. \A o \in Threads : pc[o] = "loginInsert" => user'[o] = user[o]
    BY <1>1 DEF Calm
  <2>3. use' = use
    BY <1>1 DEF Calm
  <2> QED
    BY <1>0, <2>1, <2>2, <2>3 DEF LetIn, Admitted
<1>2. ASSUME LetsIn(t)
      PROVE  /\ LetIn' = LetIn \cup {user[t]} /\ UNCHANGED <<online, logins, user, use>>
             /\ \A u : u # user[t] => Admitted(u)' = Admitted(u)
  <2>1. pc' = [pc EXCEPT ![t] = "loginInsert"] /\ UNCHANGED <<online, logins, user, use>> /\ pc[t] # "loginInsert"
    BY <1>2 DEF LetsIn, Admit, Goto
  <2> QED
    BY <1>0, <2>1 DEF LetIn, Admitted
<1>3. ASSUME LoginInsert(t)
      PROVE  /\ LetIn \subseteq LetIn' \cup {user[t]} /\ LetIn' \subseteq LetIn
             /\ user[t] \in LetIn /\ UNCHANGED use
             /\ \A u : u # user[t] => Admitted(u)' = Admitted(u)
             /\ t \in Admitted(user[t]) /\ Admitted(user[t])' = Admitted(user[t]) \ {t}
  <2>1. pc[t] = "loginInsert" /\ pc' = [pc EXCEPT ![t] = "loginCount"] /\ UNCHANGED <<user, use>>
    BY <1>3 DEF LoginInsert, Goto
  <2> QED
    BY <1>0, <2>1 DEF LetIn, Admitted
<1>4. ASSUME LogoutOffline(t)
      PROVE  LetIn' = LetIn /\ use' = use /\ \A u : Admitted(u)' = Admitted(u)
  <2>1. pc[t] = "logoutOffline" /\ pc' = [pc EXCEPT ![t] = "logoutGame"] /\ UNCHANGED <<user, use>>
    BY <1>4 DEF LogoutOffline, Goto
  <2> QED
    BY <1>0, <2>1 DEF LetIn, Admitted
<1> QED
  BY <1>1, <1>2, <1>3, <1>4

-----------------------------------------------------------------------------
(* The maximum of users online                                             *)

LEMMA InitEntriesInv == Init => EntriesInv /\ CountInv
<1> SUFFICES ASSUME Init PROVE EntriesInv /\ CountInv
  OBVIOUS
<1>1. listed = {} /\ online \cup LetIn = {} /\ peak = 0
  BY DEF Init, LetIn
<1>2. Cardinality(online \cup LetIn) = 0
  BY <1>1, FS_EmptySet
<1> QED
  BY <1>1, <1>2 DEF Init, EntriesInv, CountInv

\* Sets of users are finite and have a size.
LEMMA LetInFinite ==
  ASSUME TypeInv
  PROVE  /\ IsFiniteSet(online \cup LetIn) /\ Cardinality(online \cup LetIn) \in Nat
         /\ LetIn \subseteq Users /\ online \subseteq Users /\ peak \in Nat
<1>1. LetIn \subseteq Users /\ online \subseteq Users
  BY DEF LetIn, TypeInv, TypeOK, UserKnown
<1>2. IsFiniteSet(online \cup LetIn)
  BY <1>1, GomokuAssumption, FS_Subset
<1>3. peak \in Nat
  BY GomokuAssumption, FS_CardinalityType DEF TypeInv, TypeOK
<1> QED
  BY <1>1, <1>2, <1>3, FS_CardinalityType

LEMMA NextEntriesInv == TypeInv /\ EntriesInv /\ [Next]_vars => EntriesInv'
<1> SUFFICES ASSUME TypeInv, EntriesInv, [Next]_vars PROVE EntriesInv'
  OBVIOUS
<1>1. ASSUME NEW t \in use.threads, LetsIn(t) PROVE EntriesInv'
  <2>1. /\ LetIn' = LetIn \cup {user[t]} /\ online' = online
        /\ listed' = listed \/ listed' = listed \cup {user[t]}
        /\ peak' = Max({peak, Cardinality(online \cup LetIn \cup {user[t]})})
    BY <1>1, WhoIsLetIn DEF LetsIn, Admit
  <2>2. /\ online' \cup LetIn' = online \cup LetIn \cup {user[t]}
        /\ Cardinality(online \cup LetIn \cup {user[t]}) \in Nat /\ peak \in Nat
    BY <2>1, LetInFinite, FS_AddElement, FS_CardinalityType
  <2>3. peak' >= Cardinality(online \cup LetIn \cup {user[t]})
    BY <2>1, <2>2, MaxOfTwo DEF Larger
  <2>4. Cardinality(online' \cup LetIn') <= peak'
    BY <2>2, <2>3, MaxOfTwo, <2>1 DEF Larger
  <2> QED
    BY <2>1, <2>4 DEF EntriesInv
<1>2. ASSUME NEW t \in use.threads, LoginInsert(t) PROVE EntriesInv'
  <2>1. /\ listed' = listed \cup {user[t]} /\ online' = online \cup {user[t]} /\ peak' = peak
        /\ LetIn \subseteq LetIn' \cup {user[t]} /\ LetIn' \subseteq LetIn /\ user[t] \in LetIn
    BY <1>2, WhoIsLetIn DEF LoginInsert
  <2>2. online' \cup LetIn' = online \cup LetIn
    BY <2>1
  <2> QED
    BY <2>1, <2>2 DEF EntriesInv
<1>3. ASSUME NEW t \in use.threads, LogoutOffline(t) PROVE EntriesInv'
  <2>1. listed' = listed \ {user[t]} /\ online' = online \ {user[t]} /\ peak' = peak /\ LetIn' = LetIn
    BY <1>3, WhoIsLetIn DEF LogoutOffline
  <2>2. online' \cup LetIn' \subseteq online \cup LetIn
    BY <2>1
  <2>3. Cardinality(online' \cup LetIn') <= Cardinality(online \cup LetIn) /\ Cardinality(online' \cup LetIn') \in Nat
    BY <2>2, LetInFinite, FS_Subset, FS_CardinalityType
  <2>4. Cardinality(online' \cup LetIn') <= peak'
    BY <2>1, <2>3, LetInFinite DEF EntriesInv
  <2> QED
    BY <2>1, <2>4 DEF EntriesInv
<1>4. ASSUME NEW t \in use.threads, NEW l \in Labels, Calm(t, l) PROVE EntriesInv'
  <2>1. LetIn' = LetIn /\ UNCHANGED <<listed, online, peak>>
    BY <1>4, WhoIsLetIn DEF Calm
  <2> QED
    BY <2>1 DEF EntriesInv
<1>5. CASE UNCHANGED <<pc, user, listed, online, logins, peak, use>>
  BY <1>5 DEF EntriesInv, LetIn
<1> QED
  BY <1>1, <1>2, <1>3, <1>4, <1>5, CalmOrNot DEF Changes

\* The peak never falls.
LEMMA PeakGrows ==
  ASSUME TypeInv, [Next]_vars PROVE peak' \in Nat /\ peak' >= peak
<1>1. peak \in Nat
  BY LetInFinite
<1>2. ASSUME NEW t \in use.threads, LetsIn(t) PROVE peak' \in Nat /\ peak' >= peak
  <2>1. Cardinality(online \cup LetIn \cup {user[t]}) \in Nat
    BY LetInFinite, FS_AddElement, FS_CardinalityType
  <2>2. peak' = Larger(peak, Cardinality(online \cup LetIn \cup {user[t]}))
    BY <1>1, <1>2, <2>1, MaxOfTwo DEF LetsIn, Admit
  <2> QED
    BY <1>1, <2>1, <2>2 DEF Larger
<1>3. ASSUME NEW t \in use.threads, LoginInsert(t) \/ LogoutOffline(t) PROVE peak' = peak
  BY <1>3 DEF LoginInsert, LogoutOffline
<1> QED
  BY <1>1, <1>2, <1>3, CalmOrNot DEF Changes, Calm

LEMMA NextCountInv == TypeInv /\ EntriesInv /\ CountInv /\ [Next]_vars => CountInv'
<1> SUFFICES ASSUME TypeInv, EntriesInv, CountInv, [Next]_vars PROVE CountInv'
  OBVIOUS
<1> USE DEF onlineVars, threadVars
<1>a. peak \in Nat /\ maxOnline \in Nat /\ count \in [Threads -> Nat] /\ peak' \in Nat /\ peak' >= peak
  <2>1. Cardinality(Users) \in Nat
    BY GomokuAssumption, FS_CardinalityType
  <2> QED
    BY <2>1, PeakGrows, LetInFinite DEF TypeInv, TypeOK
<1>b. use.threads \subseteq Threads
  BY UseType
\* Locals of updateMaxOnline() that are gone do not matter.
<1>1. ASSUME maxOnline' = maxOnline, \A t \in Threads : count'[t] = count[t] \/ count'[t] = 0
      PROVE  CountInv'
  BY <1>1, <1>a DEF CountInv
<1>2. ASSUME NEW t \in Threads, Reply(t), maxOnline' = maxOnline PROVE CountInv'
  BY <1>1, <1>2, <1>a DEF Reply
<1>3. ASSUME NEW t \in Threads, LoginCount(t) PROVE CountInv'
  <2>1. Cardinality(listed) <= Cardinality(online \cup LetIn) /\ Cardinality(listed) \in Nat
    BY LetInFinite, FS_Subset, FS_CardinalityType DEF EntriesInv
  <2>2. Cardinality(listed) <= peak
    BY <1>a, <2>1, LetInFinite DEF EntriesInv
  <2> QED
    BY <1>3, <1>a, <2>1, <2>2 DEF CountInv, LoginCount
<1>4. ASSUME NEW t \in Threads, LoginLoad(t) PROVE CountInv'
  <2>1. Max({maxOnline, count[t]}) = Larger(maxOnline, count[t])
    BY <1>a, MaxOfTwo
  <2>2. Larger(maxOnline, count[t]) <= peak
    BY <1>a DEF CountInv, Larger
  <2> QED
    BY <1>4, <1>a, <2>1, <2>2 DEF CountInv, LoginLoad
<1>5. ASSUME NEW t \in Threads, LoginStore(t) PROVE CountInv'
  BY <1>5, <1>a DEF CountInv, LoginStore, Reply
<1>6. ASSUME NEW t \in Threads, Login(t) PROVE CountInv'
  <2>1. CASE LoginRefuse(t)
    BY <1>2, <2>1 DEF LoginRefuse
  <2>2. CASE LoginFind(t) \/ LoginAccept(t) \/ LoginInsert(t)
    BY <1>1, <2>2 DEF LoginFind, ReadNext, Admit, LoginAccept, LoginInsert
  <2> QED
    BY <1>3, <1>4, <1>5, <1>6, <2>1, <2>2 DEF Login
<1>7. ASSUME NEW t \in Threads, Logout(t) \/ Respond(t) PROVE CountInv'
  BY <1>1, <1>2, <1>7 DEF Logout, LogoutClear, LogoutThrow, LogoutOffline, LogoutGame, Respond
<1>8. ASSUME NEW t \in Threads, Register(t) \/ Game(t) PROVE CountInv'
  BY <1>1, <1>8
     DEF Register, RegisterRequest, RegisterCheck, RegisterInsert, RegisterReply,
         Game, StartCreate, MoveFind, MoveCreate, MoveRefer, MovePlay, MoveErase
<1>9. ASSUME NEW t \in Threads, NEW c \in use.clients, NEW s \in SessionIds, Request(t, c, s)
      PROVE  CountInv'
  BY <1>1, <1>9
     DEF Request, LoginSession, LogoutRequest, StartRequest, MoveRequest, Authenticate
<1>10. CASE (\E s \in SessionIds : Expire(s)) \/ UNCHANGED vars
  BY <1>1, <1>10 DEF Expire, vars
<1> QED
  BY <1>6, <1>7, <1>8, <1>9, <1>10, <1>b DEF Next

-----------------------------------------------------------------------------
(* Logins that succeed together                                            *)

LEMMA AdmittedFinite ==
  ASSUME TypeInv, NEW u
  PROVE  /\ IsFiniteSet(Admitted(u)) /\ Cardinality(Admitted(u)) \in Nat
         /\ Cardinality(Admitted(u)) <= Cardinality(use.threads) /\ Cardinality(use.threads) \in Nat
<1>1. Admitted(u) \subseteq use.threads
  BY DEF Admitted
<1> QED
  BY <1>1, UseType, FS_Subset, FS_CardinalityType

LEMMA InitLoginsInv == Init => LoginsInv
<1> SUFFICES ASSUME Init, NEW u \in Users
             PROVE  logins[u] = 0 /\ logins[u] + Cardinality(Admitted(u)) <= Cardinality(use.threads)
  BY DEF LoginsInv
<1>1. logins[u] = 0
  BY DEF Init
<1> QED
  BY <1>1, InitTypeInv, AdmittedFinite

LEMMA NextLoginsInv == TypeInv /\ LoginsInv /\ [Next]_vars => LoginsInv'
<1> SUFFICES ASSUME TypeInv, LoginsInv, [Next]_vars, TypeInv', NEW u \in Users
             PROVE  /\ u \notin online' => logins'[u] = 0
                    /\ logins'[u] + Cardinality(Admitted(u)') <= Cardinality(use'.threads)
  BY NextTypeInv DEF LoginsInv
<1>0. /\ logins \in [Users -> Nat] /\ Cardinality(Admitted(u)) \in Nat
      /\ Cardinality(use.threads) \in Nat
      /\ u \notin online => logins[u] = 0
      /\ logins[u] + Cardinality(Admitted(u)) <= Cardinality(use.threads)
  BY AdmittedFinite DEF TypeInv, TypeOK, LoginsInv
<1>k. Cardinality(Admitted(u)') <= Cardinality(use'.threads) /\ Cardinality(Admitted(u)') \in Nat
  <2>1. Admitted(u)' \subseteq use'.threads
    BY DEF Admitted
  <2>2. use'.threads \subseteq Threads
    BY GomokuAssumption DEF TypeInv, TypeOK, SetupType
  <2> QED
    BY <2>1, <2>2, GomokuAssumption, FS_Subset, FS_CardinalityType
\* u loses nothing and gains nothing.
<1>u. ASSUME UNCHANGED use, Admitted(u)' = Admitted(u), logins'[u] = logins[u], u \in online => u \in online'
      PROVE  /\ u \notin online' => logins'[u] = 0
             /\ logins'[u] + Cardinality(Admitted(u)') <= Cardinality(use'.threads)
  BY <1>0, <1>u
<1>1. ASSUME NEW t \in use.threads, LetsIn(t)
      PROVE  /\ u \notin online' => logins'[u] = 0
             /\ logins'[u] + Cardinality(Admitted(u)') <= Cardinality(use'.threads)
  <2>1. UNCHANGED <<online, logins, use>> /\ (u # user[t] => Admitted(u)' = Admitted(u))
    BY <1>1, WhoIsLetIn
  <2>2. CASE u = user[t]
    <3>1. u \notin online /\ logins'[u] = 0
      BY <1>0, <1>1, <2>1, <2>2 DEF LetsIn
    <3> QED
      BY <1>k, <2>1, <3>1
  <2>3. CASE u # user[t]
    BY <1>u, <2>1, <2>3
  <2> QED
    BY <2>2, <2>3
<1>2. ASSUME NEW t \in use.threads, LoginInsert(t)
      PROVE  /\ u \notin online' => logins'[u] = 0
             /\ logins'[u] + Cardinality(Admitted(u)') <= Cardinality(use'.threads)
  <2>0. online' = online \cup {user[t]} /\ logins' = [logins EXCEPT ![user[t]] = @ + 1] /\ user' = user
    BY <1>2 DEF LoginInsert, threadVars
  <2>1. /\ use' = use /\ (u # user[t] => Admitted(u)' = Admitted(u))
        /\ t \in Admitted(user[t]) /\ Admitted(user[t])' = Admitted(user[t]) \ {t}
    BY <1>2, WhoIsLetIn
  <2>2. CASE u = user[t]
    <3>0. t \in Admitted(u) /\ Admitted(u)' = Admitted(u) \ {t}
      BY <2>0, <2>1, <2>2
    <3>1. Cardinality(Admitted(u)') = Cardinality(Admitted(u)) - 1
      BY <3>0, AdmittedFinite, FS_RemoveElement
    <3>2. logins'[u] = logins[u] + 1 /\ u \in online'
      BY <1>0, <2>0, <2>2
    <3> QED
      BY <1>0, <2>1, <3>1, <3>2
  <2>3. CASE u # user[t]
    BY <1>0, <1>u, <2>0, <2>1, <2>3
  <2> QED
    BY <2>2, <2>3
<1>3. ASSUME NEW t \in use.threads, LogoutOffline(t)
      PROVE  /\ u \notin online' => logins'[u] = 0
             /\ logins'[u] + Cardinality(Admitted(u)') <= Cardinality(use'.threads)
  <2>1. /\ online' = online \ {user[t]} /\ logins' = [logins EXCEPT ![user[t]] = 0] /\ use' = use
        /\ Admitted(u)' = Admitted(u)
    BY <1>3, WhoIsLetIn DEF LogoutOffline
  <2>2. CASE u = user[t]
    <3>1. logins'[u] = 0
      BY <1>0, <2>1, <2>2
    <3> QED
      BY <1>k, <3>1
  <2>3. CASE u # user[t]
    BY <1>0, <1>u, <2>1, <2>3
  <2> QED
    BY <2>2, <2>3
<1>4. ASSUME NEW t \in use.threads, NEW l \in Labels, Calm(t, l)
      PROVE  /\ u \notin online' => logins'[u] = 0
             /\ logins'[u] + Cardinality(Admitted(u)') <= Cardinality(use'.threads)
  BY <1>u, <1>4, WhoIsLetIn DEF Calm
<1>5. CASE UNCHANGED <<pc, user, listed, online, logins, peak, use>>
  <2>1. Admitted(u)' = Admitted(u)
    BY <1>5 DEF Admitted
  <2> QED
    BY <1>u, <1>5, <2>1
<1> QED
  BY <1>1, <1>2, <1>3, <1>4, <1>5, CalmOrNot DEF Changes

-----------------------------------------------------------------------------
(* Rows of the users table                                                 *)

LEMMA InsertingFinite ==
  ASSUME TypeInv, NEW u
  PROVE  /\ IsFiniteSet(Inserting(u)) /\ Cardinality(Inserting(u)) \in Nat
         /\ Cardinality(Inserting(u)) <= Cardinality(use.threads)
<1>1. Inserting(u) \subseteq use.threads
  BY DEF Inserting
<1> QED
  BY <1>1, UseType, FS_Subset, FS_CardinalityType

LEMMA InitRowsInv == Init => RowsInv
<1> SUFFICES ASSUME Init, NEW u \in Users
             PROVE  rows[u] + Cardinality(Inserting(u)) <= Cardinality(use.threads)
  BY DEF RowsInv
<1>1. Inserting(u) = {}
  <2>1. use.threads \subseteq Threads
    BY InitTypeInv, UseType
  <2> QED
    BY <2>1 DEF Inserting, Init
<1>2. Cardinality(use.threads) \in Nat /\ Cardinality(use.threads) # 0
  BY InitTypeInv, UseType, FS_EmptySet
<1>3. rows[u] \in {0, 1}
  BY DEF Init
<1> QED
  BY <1>1, <1>2, <1>3, FS_EmptySet

\* No row is added and no thread comes to think that a name is free.
LEMMA QuietRowsInv ==
  ASSUME TypeInv, RowsInv, UNCHANGED <<rows, use>>,
         \A o \in Threads : pc'[o] = "registerInsert" => pc[o] = "registerInsert" /\ user'[o] = user[o]
  PROVE  RowsInv'
<1> SUFFICES ASSUME NEW u \in Users
             PROVE  rows[u] + Cardinality(Inserting(u)') <= Cardinality(use.threads)
  BY DEF RowsInv
<1>1. Inserting(u)' \subseteq Inserting(u)
  BY UseType DEF Inserting
<1>2. IsFiniteSet(Inserting(u)) /\ Cardinality(Inserting(u)) \in Nat
  BY InsertingFinite
<1>3. Cardinality(Inserting(u)') <= Cardinality(Inserting(u)) /\ Cardinality(Inserting(u)') \in Nat
  BY <1>1, <1>2, FS_Subset, FS_CardinalityType
<1>4. rows[u] \in Nat /\ Cardinality(use.threads) \in Nat
  BY UseType DEF TypeInv, TypeOK
<1> QED
  BY <1>2, <1>3, <1>4 DEF RowsInv

LEMMA RegisterRowsInv == ASSUME TypeInv, RowsInv, NEW t \in use.threads, Register(t) PROVE RowsInv'
<1> USE DEF threadVars, restVars
<1>0. t \in Threads /\ use.threads \subseteq Threads /\ Cardinality(use.threads) \in Nat
  BY UseType
<1>1. CASE (\E u \in Users : RegisterRequest(t, u)) \/ RegisterReply(t)
  <2>1. \A o \in Threads : pc'[o] = "registerInsert" => pc[o] = "registerInsert" /\ user'[o] = user[o]
    BY <1>0, <1>1 DEF TypeInv, TypeOK, RegisterRequest, RegisterReply, Goto
  <2> QED
    BY <1>1, <2>1, QuietRowsInv DEF RegisterRequest, RegisterReply
<1>2. CASE RegisterCheck(t)
  <2>1. CASE rows[user[t]] > 0
    BY <1>0, <1>2, <2>1, QuietRowsInv DEF TypeInv, TypeOK, RegisterCheck, Goto
  <2>2. CASE ~(rows[user[t]] > 0)
    <3> SUFFICES ASSUME NEW u \in Users
                 PROVE  rows[u] + Cardinality(Inserting(u)') <= Cardinality(use.threads)
      BY <1>2 DEF RowsInv, RegisterCheck
    <3>1. pc' = [pc EXCEPT ![t] = "registerInsert"] /\ UNCHANGED <<user, use, rows>> /\ pc \in [Threads -> Labels]
      BY <1>2, <2>2 DEF RegisterCheck, Goto, TypeInv, TypeOK
    <3>2. rows[u] \in Nat
      BY DEF TypeInv, TypeOK
    <3>3. CASE u = user[t]
      <4>1. rows[u] = 0
        BY <2>2, <3>2, <3>3
      <4>2. Inserting(u)' \subseteq use.threads
        BY <3>1 DEF Inserting
      <4>3. Cardinality(Inserting(u)') <= Cardinality(use.threads) /\ Cardinality(Inserting(u)') \in Nat
        BY <4>2, UseType, FS_Subset, FS_CardinalityType
      <4> QED
        BY <4>1, <4>3
    <3>4. CASE u # user[t]
      <4>1. Inserting(u)' = Inserting(u)
        BY <1>0, <1>2, <3>1, <3>4 DEF Inserting, RegisterCheck
      <4> QED
        BY <4>1 DEF RowsInv
    <3> QED
      BY <3>3, <3>4
  <2> QED
    BY <2>1, <2>2
<1>3. CASE RegisterInsert(t)
  <2>1. /\ pc[t] = "registerInsert" /\ pc' = [pc EXCEPT ![t] = "registerReply"] /\ UNCHANGED <<user, use>>
        /\ pc \in [Threads -> Labels] /\ rows \in [Users -> Nat]
    BY <1>3 DEF RegisterInsert, Goto, TypeInv, TypeOK
  <2>2. CASE UNCHANGED rows
    BY <1>0, <2>1, <2>2, QuietRowsInv
  <2>3. CASE rows' = [rows EXCEPT ![user[t]] = @ + 1]
    <3> SUFFICES ASSUME NEW u \in Users
                 PROVE  rows'[u] + Cardinality(Inserting(u)') <= Cardinality(use.threads)
      BY <2>1 DEF RowsInv
    <3>1. CASE u = user[t]
      <4>1. Inserting(u)' = Inserting(u) \ {t} /\ t \in Inserting(u)
        BY <1>0, <2>1, <3>1 DEF Inserting
      <4>2. Cardinality(Inserting(u)') = Cardinality(Inserting(u)) - 1
        BY <4>1, InsertingFinite, FS_RemoveElement
      <4>3. rows'[u] = rows[u] + 1
        BY <2>1, <2>3, <3>1
      <4>4. rows[u] + Cardinality(Inserting(u)) <= Cardinality(use.threads)
        BY DEF RowsInv
      <4>5. rows[u] \in Nat /\ Cardinality(Inserting(u)) \in Nat
        BY <2>1, InsertingFinite
      <4> QED
        BY <1>0, <4>2, <4>3, <4>4, <4>5
    <3>2. CASE u # user[t]
      <4>1. Inserting(u)' = Inserting(u) /\ rows'[u] = rows[u]
        BY <1>0, <2>1, <2>3, <3>2 DEF Inserting
      <4> QED
        BY <4>1 DEF RowsInv
    <3> QED
      BY <3>1, <3>2
  <2> QED
    BY <1>3, <2>2, <2>3 DEF RegisterInsert
<1> QED
  BY <1>1, <1>2, <1>3 DEF Register

LEMMA NextRowsInv == TypeInv /\ RowsInv /\ [Next]_vars => RowsInv'
<1> SUFFICES ASSUME TypeInv, RowsInv, [Next]_vars PROVE RowsInv'
  OBVIOUS
<1> USE DEF threadVars, restVars
\* A thread goes to a place outside the registration and may forget its user.
<1>0. ASSUME NEW t \in Threads, NEW l \in Labels \ {"registerInsert"}, Goto(t, l),
             UNCHANGED <<rows, use>>, \A o \in Threads \ {t} : user'[o] = user[o]
      PROVE  RowsInv'
  BY <1>0, QuietRowsInv DEF TypeInv, TypeOK, Goto
<1>a. Labels \ {"registerInsert"} = {"idle", "reply", "registerCheck", "registerReply",
           "loginCheck", "loginRead", "loginInsert", "loginCount", "loginLoad", "loginStore",
           "logoutClear", "logoutOffline", "logoutGame", "startCreate",
           "moveFind", "moveCreate", "moveRefer", "movePlay", "moveErase"}
  BY DEF Labels
<1>b. user \in [Threads -> Users \cup {NoUser}]
  BY DEF TypeInv, TypeOK
<1>1. ASSUME NEW t \in Threads, LoginRefuse(t) \/ LoginStore(t) \/ LogoutThrow(t) \/ Respond(t) PROVE RowsInv'
  BY <1>0, <1>1, <1>a, <1>b DEF LoginRefuse, LoginStore, LogoutThrow, Respond, Reply
<1>2. ASSUME NEW t \in Threads, LoginFind(t) \/ LoginAccept(t) \/ LoginInsert(t) \/ LoginCount(t) \/ LoginLoad(t) PROVE RowsInv'
  BY <1>0, <1>2, <1>a DEF LoginFind, ReadNext, Admit, LoginAccept, LoginInsert, LoginCount, LoginLoad
<1>3. ASSUME NEW t \in Threads, LogoutClear(t) \/ LogoutOffline(t) \/ LogoutGame(t) PROVE RowsInv'
  BY <1>0, <1>3, <1>a DEF LogoutClear, LogoutOffline, LogoutGame
<1>4. ASSUME NEW t \in Threads, Game(t) PROVE RowsInv'
  BY <1>0, <1>4, <1>a DEF Game, StartCreate, MoveFind, MoveCreate, MoveRefer, MovePlay, MoveErase
<1>5. ASSUME NEW t \in Threads, NEW c \in use.clients, NEW s \in SessionIds, Request(t, c, s)
      PROVE  RowsInv'
  <2>1. ASSUME NEW u \in Users, LoginSession(t, c, s, u) PROVE RowsInv'
    BY <1>0, <2>1, <1>a, <1>b DEF LoginSession, Open
  <2>2. ASSUME NEW l \in Labels \ {"registerInsert"}, Authenticate(t, c, s, l) PROVE RowsInv'
    BY <1>0, <2>2, <1>a, <1>b DEF Authenticate, Open
  <2> QED
    BY <1>5, <1>a, <2>1, <2>2 DEF Request, LogoutRequest, StartRequest, MoveRequest
<1>6. CASE (\E s \in SessionIds : Expire(s)) \/ UNCHANGED vars
  BY <1>6, QuietRowsInv DEF Expire, vars
<1>7. use.threads \subseteq Threads
  BY UseType
<1> QED
  BY <1>1, <1>2, <1>3, <1>4, <1>5, <1>6, <1>7, RegisterRowsInv DEF Next, Login, Logout

-----------------------------------------------------------------------------
(* Requests that cross                                                     *)

LEMMA InitMeetInv == Init => MeetInv /\ AloneInv
BY DEF Init, MeetInv, AloneInv, Undisturbed, Serving

\* No thread starts a request.
LEMMA QuietMeetInv ==
  ASSUME MeetInv,
         \A o \in Threads : Serving(o)' => /\ Serving(o) /\ sid'[o] = sid[o] /\ user'[o] = user[o]
                                          /\ crossed'[o] = crossed[o]
  PROVE  MeetInv'
BY DEF MeetInv, Related

LEMMA OpenMeetInv ==
  ASSUME TypeInv, MeetInv, NEW t \in Threads, NEW c, NEW s, NEW u, NEW l, Open(t, c, s, u, l)
  PROVE  MeetInv'
<1>1. /\ pc' = [pc EXCEPT ![t] = l] /\ sid' = [sid EXCEPT ![t] = s] /\ user' = [user EXCEPT ![t] = u]
      /\ \A o \in Threads : crossed'[o] = IF o = t THEN Meets(t, c, s, u) # {}
                                          ELSE crossed[o] \/ o \in Meets(t, c, s, u)
  BY DEF Open, Goto
<1>2. /\ \A o \in Threads \ {t} : pc'[o] = pc[o] /\ sid'[o] = sid[o] /\ user'[o] = user[o]
      /\ sid'[t] = s /\ user'[t] = u
  BY <1>1 DEF TypeInv, TypeOK
<1>3. ASSUME NEW o \in Threads \ {t}, Serving(o)', Related(t, o)' \/ Related(o, t)'
      PROVE  o \in Meets(t, c, s, u)
  BY <1>2, <1>3 DEF Related, Meets, Serving
<1> SUFFICES ASSUME NEW a \in Threads, NEW b \in Threads, a # b, Serving(a)', Serving(b)', Related(a, b)'
             PROVE  crossed'[a]
  BY DEF MeetInv
<1>4. CASE a = t
  BY <1>1, <1>3, <1>4
<1>5. CASE b = t
  BY <1>1, <1>3, <1>5
<1>6. CASE a # t /\ b # t
  <2>1. Serving(a) /\ Serving(b) /\ Related(a, b)
    BY <1>2, <1>6 DEF Serving, Related
  <2> QED
    BY <1>1, <1>6, <2>1 DEF MeetInv
<1> QED
  BY <1>4, <1>5, <1>6

\* Only the beginning of a request needs a closer look.
LEMMA NextMeetInv == TypeInv /\ MeetInv /\ [Next]_vars => MeetInv'
<1> SUFFICES ASSUME TypeInv, MeetInv, [Next]_vars PROVE MeetInv'
  OBVIOUS
<1> USE DEF sessionVars, onlineVars, threadVars, restVars
<1>a. use.threads \subseteq Threads /\ pc \in [Threads -> Labels]
  BY UseType DEF TypeInv, TypeOK
<1>b. /\ user \in [Threads -> Users \cup {NoUser}] /\ sid \in [Threads -> SessionIds \cup {NoSession}]
      /\ crossed \in [Threads -> BOOLEAN]
  BY DEF TypeInv, TypeOK
\* t goes on in its request.
<1>0. ASSUME NEW t \in Threads, NEW l, Goto(t, l), Serving(t), UNCHANGED <<sid, user, crossed>>
      PROVE  MeetInv'
  <2>1. \A o \in Threads : Serving(o)' => Serving(o)
    BY <1>0, <1>a DEF Serving, Goto
  <2> QED
    BY <1>0, <2>1, QuietMeetInv
\* t has no request any more, or registers.
<1>1. ASSUME NEW t \in Threads, NEW l \in {"idle", "registerCheck", "registerInsert", "registerReply"}, Goto(t, l),
             \A o \in Threads \ {t} : sid'[o] = sid[o] /\ user'[o] = user[o] /\ crossed'[o] = crossed[o]
      PROVE  MeetInv'
  <2>1. \A o \in Threads : Serving(o)' => Serving(o) /\ o # t
    BY <1>1, <1>a DEF Serving, Goto
  <2> QED
    BY <1>1, <2>1, QuietMeetInv
<1>2. ASSUME NEW t \in Threads, Reply(t) PROVE MeetInv'
  BY <1>1, <1>2, <1>b DEF Reply
<1>3. ASSUME NEW t \in Threads, Register(t) PROVE MeetInv'
  BY <1>1, <1>3, <1>b DEF Register, RegisterRequest, RegisterCheck, RegisterInsert, RegisterReply
<1>4. ASSUME NEW t \in Threads, Login(t) PROVE MeetInv'
  <2>1. CASE LoginRefuse(t) \/ LoginStore(t)
    BY <1>2, <2>1 DEF LoginRefuse, LoginStore
  <2>2. CASE LoginFind(t) \/ LoginAccept(t) \/ LoginInsert(t)
    BY <1>0, <2>2 DEF LoginFind, ReadNext, Admit, LoginAccept, LoginInsert, Serving
  <2>3. CASE LoginCount(t) \/ LoginLoad(t)
    BY <1>0, <2>3 DEF LoginCount, LoginLoad, Serving
  <2> QED
    BY <1>4, <2>1, <2>2, <2>3 DEF Login
<1>5. ASSUME NEW t \in Threads, Logout(t) PROVE MeetInv'
  BY <1>0, <1>2, <1>5 DEF Logout, LogoutClear, LogoutThrow, LogoutOffline, LogoutGame, Serving
<1>6. ASSUME NEW t \in Threads, Game(t) PROVE MeetInv'
  BY <1>0, <1>6 DEF Game, StartCreate, MoveFind, MoveCreate, MoveRefer, MovePlay, MoveErase, Serving
<1>7. ASSUME NEW t \in Threads, NEW c \in use.clients, NEW s \in SessionIds, Request(t, c, s) PROVE MeetInv'
  BY <1>7, OpenMeetInv DEF Request, LoginSession, LogoutRequest, StartRequest, MoveRequest, Authenticate
<1>8. CASE (\E s \in SessionIds : Expire(s)) \/ UNCHANGED vars
  BY <1>8, QuietMeetInv DEF Expire, vars, Serving
<1> QED
  BY <1>2, <1>3, <1>4, <1>5, <1>6, <1>7, <1>8, <1>a DEF Next, Respond

\* A step of t leaves alone what the others have found, unless they have crossed.
LEMMA AloneKept ==
  ASSUME TypeInv, AloneInv, NEW t \in Threads, "alone" \notin undefined',
         \A o \in Threads \ {t} :
           /\ pc'[o] = pc[o] /\ user'[o] = user[o] /\ sid'[o] = sid[o]
           /\ crossed[o] => crossed'[o]
           /\ ~crossed'[o] => /\ dangling'[o] = dangling[o]
                              /\ pc[o] = "moveRefer" /\ user[o] \in games => user[o] \in games'
                              /\ pc[o] = "logoutClear" /\ sid[o] \in sessions => sid[o] \in sessions'
           /\ ~Serving(o) => dangling'[o] = dangling[o],
         crossed'[t] \/ Undisturbed(t)',
         ~Serving(t)' => ~dangling'[t]
  PROVE  AloneInv'
<1>1. ASSUME NEW o \in Threads PROVE crossed'[o] \/ Undisturbed(o)'
  BY DEF AloneInv, Undisturbed
<1>2. ASSUME NEW o \in Threads PROVE ~Serving(o)' => ~dangling'[o]
  BY DEF AloneInv, Serving
<1> QED
  BY <1>1, <1>2 DEF AloneInv

\* The game that t erases or replaces is used by related requests only.
LEMMA EraseAlone ==
  ASSUME TypeInv, MeetInv, NEW t \in Threads, Serving(t), user[t] \in Users,
         EraseGame(t, user[t]) \/ UNCHANGED dangling
  PROVE  /\ dangling'[t] = dangling[t]
         /\ \A o \in Threads \ {t} : ~crossed[o] \/ ~Serving(o) => dangling'[o] = dangling[o]
         /\ \A o \in Threads \ {t} : ~crossed[o] /\ Serving(o) => user[o] # user[t] /\ sid[o] # sid[t]
<1>1. user[t] # NoUser
  BY GomokuAssumption
<1>2. \A o \in Threads \ {t} : ~crossed[o] /\ Serving(o) => user[o] # user[t] /\ sid[o] # sid[t]
  BY <1>1 DEF MeetInv, Related
<1>3. \A o \in Threads : dangling[o] \in BOOLEAN /\ (pc[o] = "movePlay" => Serving(o))
  BY DEF TypeInv, TypeOK, Serving
<1> QED
  BY <1>2, <1>3 DEF EraseGame

\* A step of t inside its request that takes no game and no session away from
\* anybody unrelated.
LEMMA StepAlone ==
  ASSUME TypeInv, MeetInv, AloneInv, NEW t \in Threads, NEW l, Goto(t, l),
         Serving(t), Serving(t)', user[t] \in Users,
         EraseGame(t, user[t]) \/ UNCHANGED dangling,
         games \ {user[t]} \subseteq games', sessions \ {sid[t]} \subseteq sessions',
         UNCHANGED <<user, sid, crossed>>,
         l = "moveRefer" => user[t] \in games', l # "logoutClear",
         undefined' = undefined
           \/ (undefined' = undefined \cup {Kind(t)} /\ crossed[t])
  PROVE  AloneInv'
<1>1. pc' = [pc EXCEPT ![t] = l] /\ pc \in [Threads -> Labels]
  BY DEF Goto, TypeInv, TypeOK
<1>2. "alone" \notin undefined'
  BY DEF AloneInv, Kind
<1>3. crossed'[t] \/ Undisturbed(t)'
  BY <1>1, EraseAlone DEF AloneInv, Undisturbed
<1>4. \A o \in Threads \ {t} : pc[o] \in {"moveRefer", "logoutClear"} => Serving(o)
  BY DEF Serving
<1>5. \A o \in Threads \ {t} :
           /\ pc'[o] = pc[o] /\ user'[o] = user[o] /\ sid'[o] = sid[o]
           /\ crossed[o] => crossed'[o]
           /\ ~crossed'[o] => /\ dangling'[o] = dangling[o]
                              /\ pc[o] = "moveRefer" /\ user[o] \in games => user[o] \in games'
                              /\ pc[o] = "logoutClear" /\ sid[o] \in sessions => sid[o] \in sessions'
           /\ ~Serving(o) => dangling'[o] = dangling[o]
  BY <1>1, <1>4, EraseAlone
<1> QED
  BY <1>2, <1>3, <1>5, AloneKept

\* t takes a request: a session that it finds expired is used by requests that it
\* crosses.
LEMMA OpenAlone ==
  ASSUME TypeInv, AloneInv, NEW t \in Threads, NEW c, NEW s, NEW u, NEW l, l # "moveRefer",
         Open(t, c, s, u, l), UNCHANGED <<games, dangling, undefined>>
  PROVE  AloneInv'
<1>1. /\ pc' = [pc EXCEPT ![t] = l] /\ sid' = [sid EXCEPT ![t] = s] /\ user' = [user EXCEPT ![t] = u]
      /\ \A o \in Threads : crossed'[o] = IF o = t THEN Meets(t, c, s, u) # {}
                                          ELSE crossed[o] \/ o \in Meets(t, c, s, u)
      /\ sessions' = Stored(c, s) /\ pc[t] = "idle"
  BY DEF Open, Goto
<1>2. /\ \A o \in Threads \ {t} : pc'[o] = pc[o] /\ sid'[o] = sid[o] /\ user'[o] = user[o]
      /\ sid'[t] = s /\ pc'[t] = l
  BY <1>1 DEF TypeInv, TypeOK
<1>3. ~dangling'[t]
  BY <1>1 DEF AloneInv, Serving
<1>4. Undisturbed(t)'
  BY <1>1, <1>2, <1>3 DEF Undisturbed, Stored
<1>5. ASSUME NEW o \in Threads \ {t}, ~crossed'[o], pc[o] = "logoutClear", sid[o] \in sessions
      PROVE  sid[o] \in sessions'
  <2>1. sid[o] # cookie[c]
    BY <1>1, <1>5 DEF Meets, Serving
  <2> QED
    BY <1>1, <1>5, <2>1 DEF Stored
<1>6. "alone" \notin undefined'
  BY DEF AloneInv
<1> QED
  BY <1>1, <1>2, <1>3, <1>4, <1>5, <1>6, AloneKept

LEMMA NextAloneInv == TypeInv /\ MeetInv /\ AloneInv /\ [Next]_vars => AloneInv'
<1> SUFFICES ASSUME TypeInv, MeetInv, AloneInv, [Next]_vars PROVE AloneInv'
  OBVIOUS
<1> USE DEF sessionVars, onlineVars, threadVars, restVars
<1>a. use.threads \subseteq Threads /\ pc \in [Threads -> Labels] /\ undefined \subseteq {"alone", "crossed"}
  BY UseType DEF TypeInv, TypeOK
<1>b. /\ user \in [Threads -> Users \cup {NoUser}] /\ sid \in [Threads -> SessionIds \cup {NoSession}]
      /\ crossed \in [Threads -> BOOLEAN] /\ dangling \in [Threads -> BOOLEAN]
  BY DEF TypeInv, TypeOK
<1>c. \A t \in Threads : Serving(t) /\ pc[t] # "reply" => user[t] \in Users
  BY DEF TypeInv, UserKnown, Serving
\* t ends its request, or registers.
<1>1. ASSUME NEW t \in Threads, NEW l \in {"idle", "registerCheck", "registerInsert", "registerReply"}, Goto(t, l),
             \A o \in Threads \ {t} : /\ sid'[o] = sid[o] /\ user'[o] = user[o] /\ crossed'[o] = crossed[o]
                                      /\ dangling'[o] = dangling[o],
             ~dangling'[t], UNCHANGED <<games, sessions, undefined>>
      PROVE  AloneInv'
  <2>1. /\ \A o \in Threads \ {t} : pc'[o] = pc[o]
        /\ pc'[t] = l /\ ~Serving(t)'
    BY <1>1, <1>a DEF Goto, Serving
  <2>2. Undisturbed(t)'
    BY <1>1, <2>1 DEF Undisturbed
  <2>3. "alone" \notin undefined'
    BY <1>1 DEF AloneInv
  <2> QED
    BY <1>1, <2>1, <2>2, <2>3, AloneKept
<1>2. ASSUME NEW t \in Threads, Reply(t), UNCHANGED <<games, sessions, undefined>> PROVE AloneInv'
  <2>1. /\ \A o \in Threads \ {t} : /\ sid'[o] = sid[o] /\ user'[o] = user[o] /\ crossed'[o] = crossed[o]
                                    /\ dangling'[o] = dangling[o]
        /\ ~dangling'[t] /\ Goto(t, "idle")
    BY <1>2, <1>b DEF Reply
  <2> QED
    BY <1>1, <1>2, <2>1
<1>3. ASSUME NEW t \in Threads, Register(t) PROVE AloneInv'
  <2>1. ~Serving(t)
    BY <1>3 DEF Register, RegisterRequest, RegisterCheck, RegisterInsert, RegisterReply, Serving
  <2>2. ~dangling[t]
    BY <2>1 DEF AloneInv
  <2>3. /\ \A o \in Threads \ {t} : user'[o] = user[o]
        /\ UNCHANGED <<sid, crossed, dangling, games, sessions, undefined>>
    BY <1>3, <1>b DEF Register, RegisterRequest, RegisterCheck, RegisterInsert, RegisterReply
  <2>4. \E l \in {"idle", "registerCheck", "registerInsert", "registerReply"} : Goto(t, l)
    BY <1>3 DEF Register, RegisterRequest, RegisterCheck, RegisterInsert, RegisterReply
  <2> QED
    BY <1>1, <2>2, <2>3, <2>4
\* t goes on with what it knows.
<1>4. ASSUME NEW t \in Threads, NEW l \in Labels, Goto(t, l), Serving(t), pc[t] # "reply",
             l \in {"reply", "loginRead", "loginInsert", "loginCount", "loginLoad", "loginStore",
                    "logoutGame", "moveCreate", "movePlay", "moveErase"},
             UNCHANGED <<user, sid, crossed, dangling, games, sessions, undefined>>
      PROVE  AloneInv'
  <2>1. Serving(t)'
    BY <1>4, <1>a DEF Goto, Serving
  <2> QED
    BY <1>4, <1>c, <2>1, StepAlone
<1>5. ASSUME NEW t \in Threads, Login(t) PROVE AloneInv'
  <2>1. CASE LoginRefuse(t) \/ LoginStore(t)
    BY <1>2, <2>1 DEF LoginRefuse, LoginStore
  <2>2. CASE LoginFind(t) \/ LoginAccept(t)
    BY <1>4, <2>2 DEF LoginFind, ReadNext, Admit, LoginAccept, Serving, Labels
  <2>3. CASE LoginInsert(t) \/ LoginCount(t) \/ LoginLoad(t)
    BY <1>4, <2>3 DEF LoginInsert, LoginCount, LoginLoad, Serving, Labels
  <2> QED
    BY <1>5, <2>1, <2>2, <2>3 DEF Login
<1>6. ASSUME NEW t \in Threads, Logout(t) PROVE AloneInv'
  <2>1. CASE LogoutThrow(t)
    BY <1>2, <2>1 DEF LogoutThrow
  <2>2. CASE LogoutOffline(t)
    BY <1>4, <2>2 DEF LogoutOffline, Serving, Labels
  <2>3. CASE LogoutClear(t)
    <3>1. /\ pc[t] = "logoutClear" /\ Goto(t, "logoutOffline") /\ sessions' = sessions \ {sid[t]}
          /\ undefined' = IF sid[t] \in sessions THEN undefined ELSE undefined \cup {Kind(t)}
          /\ UNCHANGED <<user, sid, crossed, dangling, games>>
      BY <2>3 DEF LogoutClear
    <3>2. Serving(t) /\ Serving(t)' /\ user[t] \in Users
      BY <3>1, <1>a, <1>c DEF Goto, Serving
    <3>3. crossed[t] \/ sid[t] \in sessions
      BY <3>1 DEF AloneInv, Undisturbed
    <3> QED
      BY <3>1, <3>2, <3>3, StepAlone
  <2>4. CASE LogoutGame(t)
    <3>1. /\ pc[t] = "logoutGame" /\ Goto(t, "reply") /\ games \ {user[t]} \subseteq games'
          /\ EraseGame(t, user[t]) \/ UNCHANGED dangling
          /\ UNCHANGED <<user, sid, crossed, sessions, undefined>>
      BY <2>4 DEF LogoutGame
    <3>2. Serving(t) /\ Serving(t)' /\ user[t] \in Users
      BY <3>1, <1>a, <1>c DEF Goto, Serving
    <3> QED
      BY <3>1, <3>2, StepAlone
  <2> QED
    BY <1>6, <2>1, <2>2, <2>3, <2>4 DEF Logout
<1>7. ASSUME NEW t \in Threads, Game(t) PROVE AloneInv'
  <2>1. CASE StartCreate(t) \/ MoveErase(t)
    <3>1. /\ pc[t] \in {"startCreate", "moveErase"} /\ Goto(t, "reply") /\ games \ {user[t]} \subseteq games'
          /\ EraseGame(t, user[t])
          /\ UNCHANGED <<user, sid, crossed, sessions, undefined>>
      BY <2>1 DEF StartCreate, MoveErase
    <3>2. Serving(t) /\ Serving(t)' /\ user[t] \in Users
      BY <3>1, <1>a, <1>c DEF Goto, Serving
    <3> QED
      BY <3>1, <3>2, StepAlone
  <2>2. CASE MoveCreate(t)
    <3>1. /\ pc[t] = "moveCreate" /\ Goto(t, "moveRefer") /\ games' = games \cup {user[t]}
          /\ EraseGame(t, user[t])
          /\ UNCHANGED <<user, sid, crossed, sessions, undefined>>
      BY <2>2 DEF MoveCreate
    <3>2. Serving(t) /\ Serving(t)' /\ user[t] \in Users
      BY <3>1, <1>a, <1>c DEF Goto, Serving
    <3> QED
      BY <3>1, <3>2, StepAlone
  <2>3. CASE MoveFind(t)
    <3>1. PICK l \in {"moveRefer", "moveCreate"} : Goto(t, l) /\ (l = "moveRefer" => user[t] \in games)
      BY <2>3 DEF MoveFind
    <3>2. /\ pc[t] = "moveFind"
          /\ UNCHANGED <<user, sid, crossed, dangling, games, sessions, undefined>>
      BY <2>3 DEF MoveFind
    <3>3. Serving(t) /\ Serving(t)' /\ user[t] \in Users
      BY <3>1, <3>2, <1>a, <1>c DEF Goto, Serving
    <3> QED
      BY <3>1, <3>2, <3>3, StepAlone
  <2>4. CASE MoveRefer(t) \/ MovePlay(t)
    <3>1. PICK l \in {"movePlay", "moveErase", "reply"} : Goto(t, l)
      BY <2>4 DEF MoveRefer, MovePlay
    <3>2. /\ pc[t] \in {"moveRefer", "movePlay"}
          /\ UNCHANGED <<user, sid, crossed, dangling, games, sessions>>
      BY <2>4 DEF MoveRefer, MovePlay
    <3>3. Serving(t) /\ Serving(t)' /\ user[t] \in Users
      BY <3>1, <3>2, <1>a, <1>c DEF Goto, Serving
    <3>4. undefined' = undefined \/ (undefined' = undefined \cup {Kind(t)} /\ crossed[t])
      BY <2>4 DEF MoveRefer, MovePlay, AloneInv, Undisturbed
    <3> QED
      BY <3>1, <3>2, <3>3, <3>4, StepAlone
  <2> QED
    BY <1>7, <2>1, <2>2, <2>3, <2>4 DEF Game
<1>8. ASSUME NEW t \in Threads, NEW c \in use.clients, NEW s \in SessionIds, Request(t, c, s) PROVE AloneInv'
  <2>1. ASSUME NEW u \in Users, LoginSession(t, c, s, u) PROVE AloneInv'
    BY <2>1, OpenAlone DEF LoginSession
  <2>2. ASSUME NEW l \in {"logoutClear", "startCreate", "moveFind"}, Authenticate(t, c, s, l) PROVE AloneInv'
    BY <2>2, OpenAlone DEF Authenticate
  <2> QED
    BY <1>8, <2>1, <2>2 DEF Request, LogoutRequest, StartRequest, MoveRequest
<1>9. CASE (\E s \in SessionIds : Expire(s)) \/ UNCHANGED vars
  BY <1>9 DEF Expire, vars, AloneInv, Undisturbed, Serving
<1>10. ASSUME NEW t \in Threads, Respond(t) PROVE AloneInv'
  BY <1>2, <1>10 DEF Respond
<1> QED
  BY <1>3, <1>5, <1>6, <1>7, <1>8, <1>9, <1>10, <1>a DEF Next

-----------------------------------------------------------------------------
(* Theorems                                                                *)

\* Every variable keeps its type; in particular a thread that runs a handler has
\* read an account's name from the session or the request before it uses it.
THEOREM GomokuTypeInv == Spec => []TypeInv
BY InitTypeInv, NextTypeInv, PTL DEF Spec

\* Whatever the IO threads do for others, a request that overlaps none of its user
\* and none on its session plays in no erased or null game (AiMoveHandler) and
\* destroys no session that is not stored (LogoutHandler).
THEOREM GomokuNoUndefined == Spec => []NoUndefined
<1>1. AloneInv => NoUndefined
  BY DEF AloneInv, NoUndefined
<1>2. Spec => []MeetInv
  BY GomokuTypeInv, InitMeetInv, NextMeetInv, PTL DEF Spec
<1> QED
  BY <1>1, <1>2, GomokuTypeInv, InitMeetInv, NextAloneInv, PTL DEF Spec

\* Every entry of online_users that is not true, which operator[] makes when a
\* logout comes between find() and it, belongs to a login that will set it.
THEOREM GomokuNoGhosts == Spec => []NoGhosts
<1>1. EntriesInv => NoGhosts
  BY DEF EntriesInv, NoGhosts
<1> QED
  BY <1>1, GomokuTypeInv, InitEntriesInv, NextEntriesInv, PTL DEF Spec

\* However many IO threads run updateMaxOnline() (GomokuServer.h) at the same time
\* as logins and logouts, the maximum shown is a number of users that were at one
\* moment online or just let in.
THEOREM GomokuMaxOnlineNotOverstated == Spec => []MaxOnlineNotOverstated
<1>1. CountInv => MaxOnlineNotOverstated
  BY DEF CountInv, MaxOnlineNotOverstated
<1>2. Spec => []EntriesInv
  BY GomokuTypeInv, InitEntriesInv, NextEntriesInv, PTL DEF Spec
<1> QED
  BY <1>1, <1>2, GomokuTypeInv, InitEntriesInv, NextCountInv, PTL DEF Spec

\* LoginHandler reads online_users without its lock: with n IO threads a user logs
\* in at most n times before being taken offline, and with one only once.
THEOREM GomokuLoginsBounded == Spec => []LoginsBounded
<1>1. TypeInv /\ LoginsInv => LoginsBounded
  <2> SUFFICES ASSUME TypeInv, LoginsInv, NEW u \in Users PROVE logins[u] <= Cardinality(use.threads)
    BY DEF LoginsBounded
  <2>1. logins[u] \in Nat /\ Cardinality(Admitted(u)) \in Nat /\ Cardinality(use.threads) \in Nat
    BY AdmittedFinite DEF TypeInv, TypeOK
  <2> QED
    BY <2>1 DEF LoginsInv
<1> QED
  BY <1>1, GomokuTypeInv, InitLoginsInv, NextLoginsInv, PTL DEF Spec

\* RegisterHandler checks and inserts in two statements: with n IO threads a name
\* gets at most n rows, and with one IO thread it is unique.
THEOREM GomokuRowsBounded == Spec => []RowsBounded
<1>1. TypeInv /\ RowsInv => RowsBounded
  <2> SUFFICES ASSUME TypeInv, RowsInv, NEW u \in Users PROVE rows[u] <= Cardinality(use.threads)
    BY DEF RowsBounded
  <2>1. rows[u] \in Nat /\ Cardinality(Inserting(u)) \in Nat /\ Cardinality(use.threads) \in Nat
    BY InsertingFinite, UseType DEF TypeInv, TypeOK
  <2> QED
    BY <2>1 DEF RowsInv
<1> QED
  BY <1>1, GomokuTypeInv, InitRowsInv, NextRowsInv, PTL DEF Spec
=============================================================================
