---------------------------- MODULE GomokuServer ----------------------------
(***************************************************************************)
(* The request handlers of HttpServer/WebAPP/Gomoku with the session store *)
(* of HttpServer/HTTP: registration, login, logout, starting, restarting   *)
(* and playing a game.  IO threads of the server run handlers concurrently. *)
(*                                                                         *)
(* Only the updates of game_map_ and most of those of online_users are     *)
(* locked; reads of both, and the session store, are not.  Each access is  *)
(* one step; what an unordered_map broken by two unlocked accesses does    *)
(* beyond that is not modelled.  Requests that change nothing (wrong       *)
(* password, wrong content type, static pages) are left out.  The board is *)
(* the matter of AiGame, and the users table stands for itself: no schema  *)
(* is in the repository, so that it has no unique index.                   *)
(***************************************************************************)
EXTENDS Naturals, FiniteSets, FiniteSetsExt

CONSTANTS Threads,    \* IO threads that run handlers
          Clients,    \* browsers, each with one cookie jar
          Users,      \* names of accounts
          SessionIds, \* identities of sessions; enough that one is always unused
          Setups      \* the servers that are looked at

NoSession == "none"
NoUser    == "nobody"
NoClient  == "no client"

\* The IO threads, at least one, and browsers there are, the requests they send,
\* whether a logout body may lack what the handler parses and a session may reach
\* its expiry time.
SetupType == [threads : (SUBSET Threads) \ {{}}, clients : SUBSET Clients,
              requests : SUBSET {"register", "login", "logout", "start", "move"},
              badBodies : BOOLEAN, expiry : BOOLEAN]

ASSUME GomokuAssumption ==
  /\ IsFiniteSet(Threads) /\ IsFiniteSet(Users) /\ IsFiniteSet(SessionIds)
  /\ NoUser \notin Users
  /\ Setups \subseteq SetupType

VARIABLES sessions,  \* MemorySessionStorage::sessions_
          data,      \* Session::data_: the user logged in there
          expired,   \* sessions past their expiryTime_
          cookie,    \* the sessionId each browser sends
          listed,    \* the keys of online_users
          online,    \* those of them that are mapped to true
          maxOnline, \* maxOnline_
          games,     \* game_map_: users with a game
          rows,      \* the rows of each name in the users table
          pc,        \* where each thread is
          client,    \* the client a thread serves
          sid,       \* the session it works on
          fresh,     \* was the session created for this request?
          user,      \* the userId it has read
          count,     \* its local of updateMaxOnline()
          dangling,  \* the game it refers to has been erased
          logins,    \* successful logins since the user was last taken offline
          peak,      \* the largest number of users ever online or just let in
          crossed,   \* has another request of the user or the session overlapped?
          undefined, \* undefined behaviour, a dangling or null game or erase(end()),
                     \* was met by a request that had been "alone" or "crossed"
          use        \* the setup of this server, which never changes

sessionVars == <<sessions, data, expired>>
onlineVars  == <<listed, online, maxOnline, logins, peak>>
threadVars  == <<client, sid, fresh, user, count, crossed>>
restVars == <<rows, use>>
vars == <<sessionVars, cookie, onlineVars, games, pc, threadVars, dangling, undefined, restVars>>

Init ==
  /\ sessions = {} /\ expired = {}
  /\ data = [s \in SessionIds |-> NoUser]
  /\ cookie = [c \in Clients |-> NoSession]
  /\ listed = {} /\ online = {} /\ maxOnline = 0 /\ games = {}
  /\ pc = [t \in Threads |-> "idle"]
  /\ client = [t \in Threads |-> NoClient]
  /\ sid = [t \in Threads |-> NoSession]
  /\ fresh = [t \in Threads |-> FALSE]
  /\ user = [t \in Threads |-> NoUser]
  /\ count = [t \in Threads |-> 0]
  /\ dangling = [t \in Threads |-> FALSE]
  /\ logins = [u \in Users |-> 0]
  /\ peak = 0
  /\ crossed = [t \in Threads |-> FALSE]
  /\ undefined = {}
  /\ rows \in [Users -> {0, 1}]
  /\ use \in Setups

Labels == {"idle", "reply", "registerCheck", "registerInsert", "registerReply",
           "loginCheck", "loginRead", "loginInsert", "loginCount", "loginLoad", "loginStore",
           "logoutClear", "logoutOffline", "logoutGame", "startCreate",
           "moveFind", "moveCreate", "moveRefer", "movePlay", "moveErase"}

Goto(t, label) == pc' = [pc EXCEPT ![t] = label]

-----------------------------------------------------------------------------
(* SessionManager::getSession()                                            *)

Live(s) == s \in sessions /\ s \notin expired

\* No cookie and no handler names s; a stored session like that is never found
\* again, nor removed, and its identity may stand for a new one.
Unused(s) == (\A c \in Clients : cookie[c] # s) /\ (\A t \in Threads : sid[t] # s)

\* The session s a request of client c gets: the one its cookie names, or a new
\* one.  An expired session is erased from the store.
Opens(c, s) == IF Live(cookie[c]) THEN s = cookie[c] ELSE s \in SessionIds /\ Unused(s)
Stored(c, s) == (sessions \ (IF cookie[c] \in expired THEN {cookie[c]} ELSE {})) \cup {s}
Data(c, s) == IF Live(cookie[c]) THEN data[s] ELSE NoUser

\* Threads in a handler that works on a session.
Serving(t) == pc[t] \notin {"idle", "registerCheck", "registerInsert", "registerReply"}

\* The other threads with a request of user u, or on a session that this one gets
\* or finds expired.
Meets(t, c, s, u) ==
  {o \in Threads \ {t} : Serving(o) /\ (sid[o] \in {s, cookie[c]} \/ (user[o] = u /\ u # NoUser))}

\* A request that met undefined behaviour, by what it had met before.
Kind(t) == IF crossed[t] THEN "crossed" ELSE "alone"

\* Thread t takes a request of client c, which leaves u in the session's data_,
\* and keeps a pointer to the session.  The browser sees a new cookie with the
\* response; until then this request is the only one that uses it.
Open(t, c, s, u, label) ==
  /\ pc[t] = "idle"
  /\ Opens(c, s)
  /\ sessions' = Stored(c, s)
  /\ expired' = expired \ {cookie[c], s}
  /\ data' = [data EXCEPT ![s] = u]
  /\ client' = [client EXCEPT ![t] = c]
  /\ sid' = [sid EXCEPT ![t] = s]
  /\ fresh' = [fresh EXCEPT ![t] = ~Live(cookie[c])]
  /\ user' = [user EXCEPT ![t] = u]
  /\ crossed' = [o \in Threads |-> IF o = t THEN Meets(t, c, s, u) # {}
                                   ELSE crossed[o] \/ o \in Meets(t, c, s, u)]
  /\ Goto(t, label)

\* The response leaves, with the cookie of a new session; the locals are gone.
Reply(t) ==
  /\ Goto(t, "idle")
  /\ cookie' = [cookie EXCEPT ![client[t]] = IF fresh[t] THEN sid[t] ELSE @]
  /\ fresh' = [fresh EXCEPT ![t] = FALSE]
  /\ sid' = [sid EXCEPT ![t] = NoSession]
  /\ user' = [user EXCEPT ![t] = NoUser]
  /\ client' = [client EXCEPT ![t] = NoClient]
  /\ count' = [count EXCEPT ![t] = 0]
  /\ crossed' = [crossed EXCEPT ![t] = FALSE]
  /\ dangling' = [dangling EXCEPT ![t] = FALSE]

Expire(s) ==
  /\ use.expiry
  /\ Live(s)
  /\ expired' = expired \cup {s}
  /\ UNCHANGED <<sessions, data, cookie, onlineVars, games, pc, threadVars, dangling, undefined, restVars>>

-----------------------------------------------------------------------------
(* RegisterHandler, which does not look at the session                     *)

RegisterRequest(t, u) ==
  /\ pc[t] = "idle"
  /\ "register" \in use.requests
  /\ user' = [user EXCEPT ![t] = u]
  /\ Goto(t, "registerCheck")
  /\ UNCHANGED <<sessionVars, cookie, onlineVars, games, client, sid, fresh, count, crossed, dangling, undefined, restVars>>

\* Mutant of RegisterCheck: isUserExit() looks at nothing.
RegisterCheckNothing(t) ==
  /\ pc[t] = "registerCheck"
  /\ Goto(t, "registerInsert")
  /\ UNCHANGED <<sessionVars, cookie, onlineVars, games, threadVars, dangling, undefined, restVars>>

\* isUserExit(): a name that has a row is refused (409).
RegisterCheck(t) ==
  /\ pc[t] = "registerCheck"
  /\ Goto(t, IF rows[user[t]] > 0 THEN "registerReply" ELSE "registerInsert")
  /\ UNCHANGED <<sessionVars, cookie, onlineVars, games, threadVars, dangling, undefined, restVars>>

\* The INSERT, a statement of its own; the database may fail it, which throws.
RegisterInsert(t) ==
  /\ pc[t] = "registerInsert"
  /\ rows' = [rows EXCEPT ![user[t]] = @ + 1] \/ UNCHANGED rows
  /\ Goto(t, "registerReply")
  /\ UNCHANGED <<sessionVars, cookie, onlineVars, games, threadVars, dangling, undefined, use>>

\* The id is read and sent, or the error.
RegisterReply(t) ==
  /\ pc[t] = "registerReply"
  /\ user' = [user EXCEPT ![t] = NoUser]
  /\ Goto(t, "idle")
  /\ UNCHANGED <<sessionVars, cookie, onlineVars, games, client, sid, fresh, count, crossed, dangling, undefined, restVars>>

-----------------------------------------------------------------------------
(* LoginHandler                                                            *)

\* The credentials are right: the session is marked as logged in first.
LoginSession(t, c, s, u) ==
  /\ "login" \in use.requests
  /\ rows[u] > 0
  /\ Open(t, c, s, u, "loginCheck")
  /\ UNCHANGED <<cookie, onlineVars, games, count, dangling, undefined, restVars>>

\* Who has been let in and is about to be put online.
LetIn == {user[t] : t \in {o \in Threads : pc[o] = "loginInsert"}}

\* The user is let in.
Admit(t) ==
  /\ Goto(t, "loginInsert")
  /\ peak' = Max({peak, Cardinality(online \cup LetIn \cup {user[t]})})
  /\ UNCHANGED <<sessionVars, cookie, online, maxOnline, logins, games, threadVars, dangling, undefined, restVars>>

\* The entry is read next.
ReadNext(t) ==
  /\ Goto(t, "loginRead")
  /\ UNCHANGED <<sessionVars, cookie, onlineVars, games, threadVars, dangling, undefined, restVars>>

\* Mutant of LoginFind: the result of find() is not looked at.
LoginFindAdmits(t) ==
  /\ pc[t] = "loginCheck"
  /\ Admit(t) /\ UNCHANGED listed

\* online_users.find() without the lock: who has no entry is let in.
LoginFind(t) ==
  /\ pc[t] = "loginCheck"
  /\ \/ user[t] \notin listed /\ Admit(t) /\ UNCHANGED listed
     \/ user[t] \in listed /\ ReadNext(t)

\* operator[] without the lock: an online user is refused (403).
LoginRefuse(t) ==
  /\ pc[t] = "loginRead"
  /\ user[t] \in online
  /\ Reply(t)
  /\ UNCHANGED <<sessionVars, onlineVars, games, undefined, restVars>>

\* Mutant of LoginAccept: an entry that operator[] has just made is refused too.
LoginAcceptRefuses(t) ==
  /\ pc[t] = "loginRead"
  /\ user[t] \notin online
  /\ listed' = listed \cup {user[t]}
  /\ Reply(t)
  /\ UNCHANGED <<sessionVars, online, maxOnline, logins, peak, games, undefined, restVars>>

\* The user went offline since find(): operator[] makes an entry, false.
LoginAccept(t) ==
  /\ pc[t] = "loginRead"
  /\ user[t] \notin online
  /\ listed' = listed \cup {user[t]}
  /\ Admit(t)

LoginInsert(t) ==
  /\ pc[t] = "loginInsert"
  /\ listed' = listed \cup {user[t]}
  /\ online' = online \cup {user[t]}
  /\ logins' = [logins EXCEPT ![user[t]] = @ + 1]
  /\ Goto(t, "loginCount")
  /\ UNCHANGED <<sessionVars, cookie, maxOnline, peak, games, threadVars, dangling, undefined, restVars>>

\* Mutant of LoginCount: the new user is counted twice.
LoginCountTwice(t) ==
  /\ pc[t] = "loginCount"
  /\ count' = [count EXCEPT ![t] = Cardinality(listed) + 1]
  /\ Goto(t, "loginLoad")
  /\ UNCHANGED <<sessionVars, cookie, onlineVars, games, client, sid, fresh, user, crossed, dangling, undefined, restVars>>

\* updateMaxOnline(online_users.size()): the size, the load, the store.
LoginCount(t) ==
  /\ pc[t] = "loginCount"
  /\ count' = [count EXCEPT ![t] = Cardinality(listed)]
  /\ Goto(t, "loginLoad")
  /\ UNCHANGED <<sessionVars, cookie, onlineVars, games, client, sid, fresh, user, crossed, dangling, undefined, restVars>>

LoginLoad(t) ==
  /\ pc[t] = "loginLoad"
  /\ count' = [count EXCEPT ![t] = Max({maxOnline, @})]
  /\ Goto(t, "loginStore")
  /\ UNCHANGED <<sessionVars, cookie, onlineVars, games, client, sid, fresh, user, crossed, dangling, undefined, restVars>>

LoginStore(t) ==
  /\ pc[t] = "loginStore"
  /\ maxOnline' = count[t]
  /\ Reply(t)
  /\ UNCHANGED <<sessionVars, listed, online, logins, peak, games, undefined, restVars>>

-----------------------------------------------------------------------------
(* Handlers that read the user from the session                            *)

\* getSession() and getValue("userId"); nobody is logged in there: an error.
Authenticate(t, c, s, label) ==
  /\ Open(t, c, s, Data(c, s), IF Data(c, s) = NoUser THEN "reply" ELSE label)
  /\ UNCHANGED <<cookie, onlineVars, games, count, dangling, undefined, restVars>>

Respond(t) ==
  /\ pc[t] = "reply"
  /\ Reply(t)
  /\ UNCHANGED <<sessionVars, onlineVars, games, undefined, restVars>>

\* The game of u is erased or replaced: references other threads hold to it dangle.
EraseGame(t, u) ==
  dangling' = [o \in Threads |-> dangling[o] \/ (o # t /\ pc[o] = "movePlay" /\ user[o] = u)]

LogoutRequest(t, c, s) == "logout" \in use.requests /\ Authenticate(t, c, s, "logoutClear")

\* clear(), then destroySession(), which erases end() if the session is gone.
LogoutClear(t) ==
  /\ pc[t] = "logoutClear"
  /\ data' = [data EXCEPT ![sid[t]] = NoUser]
  /\ sessions' = sessions \ {sid[t]}
  /\ expired' = expired \ {sid[t]}
  /\ undefined' = IF sid[t] \in sessions THEN undefined ELSE undefined \cup {Kind(t)}
  /\ Goto(t, "logoutOffline")
  /\ UNCHANGED <<cookie, onlineVars, games, threadVars, dangling, restVars>>

\* The body does not parse: the exception leaves the rest undone.
LogoutThrow(t) ==
  /\ pc[t] = "logoutOffline"
  /\ use.badBodies
  /\ Reply(t)
  /\ UNCHANGED <<sessionVars, onlineVars, games, undefined, restVars>>

LogoutOffline(t) ==
  /\ pc[t] = "logoutOffline"
  /\ listed' = listed \ {user[t]}
  /\ online' = online \ {user[t]}
  /\ logins' = [logins EXCEPT ![user[t]] = 0]
  /\ Goto(t, "logoutGame")
  /\ UNCHANGED <<sessionVars, cookie, maxOnline, peak, games, threadVars, dangling, undefined, restVars>>

\* The game goes too, if the client says it played against the AI.
LogoutGame(t) ==
  /\ pc[t] = "logoutGame"
  /\ \E ai \in BOOLEAN :
       /\ games' = IF ai THEN games \ {user[t]} ELSE games
       /\ IF ai THEN EraseGame(t, user[t]) ELSE UNCHANGED dangling
  /\ Goto(t, "reply")
  /\ UNCHANGED <<sessionVars, cookie, onlineVars, threadVars, undefined, restVars>>

\* AiGameStartHandler and restartChessGameVsAi(): erase and create, locked.
StartRequest(t, c, s) == "start" \in use.requests /\ Authenticate(t, c, s, "startCreate")

StartCreate(t) ==
  /\ pc[t] = "startCreate"
  /\ games' = games \cup {user[t]}
  /\ EraseGame(t, user[t])
  /\ Goto(t, "reply")
  /\ UNCHANGED <<sessionVars, cookie, onlineVars, threadVars, undefined, restVars>>

-----------------------------------------------------------------------------
(* AiMoveHandler                                                           *)

MoveRequest(t, c, s) == "move" \in use.requests /\ Authenticate(t, c, s, "moveFind")

\* Mutant of MoveFind: no game is created for a user without one.
MoveFindOnly(t) ==
  /\ pc[t] = "moveFind"
  /\ Goto(t, "moveRefer")
  /\ UNCHANGED <<sessionVars, cookie, onlineVars, games, threadVars, dangling, undefined, restVars>>

\* find() without the lock.
MoveFind(t) ==
  /\ pc[t] = "moveFind"
  /\ Goto(t, IF user[t] \in games THEN "moveRefer" ELSE "moveCreate")
  /\ UNCHANGED <<sessionVars, cookie, onlineVars, games, threadVars, dangling, undefined, restVars>>

\* The game of another thread that was faster is replaced, locked, and destroyed.
MoveCreate(t) ==
  /\ pc[t] = "moveCreate"
  /\ games' = games \cup {user[t]}
  /\ EraseGame(t, user[t])
  /\ Goto(t, "moveRefer")
  /\ UNCHANGED <<sessionVars, cookie, onlineVars, threadVars, undefined, restVars>>

\* A reference into the map, without the lock; operator[] makes a null game if
\* there is none any more, and humanMove() is called on it.
MoveRefer(t) ==
  /\ pc[t] = "moveRefer"
  /\ undefined' = IF user[t] \in games THEN undefined ELSE undefined \cup {Kind(t)}
  /\ Goto(t, "movePlay")
  /\ UNCHANGED <<sessionVars, cookie, onlineVars, games, threadVars, dangling, restVars>>

\* The human's and the AI's stone through the reference; the game may end.
MovePlay(t) ==
  /\ pc[t] = "movePlay"
  /\ undefined' = IF dangling[t] THEN undefined \cup {Kind(t)} ELSE undefined
  /\ \E over \in BOOLEAN : Goto(t, IF over THEN "moveErase" ELSE "reply")
  /\ UNCHANGED <<sessionVars, cookie, onlineVars, games, threadVars, dangling, restVars>>

MoveErase(t) ==
  /\ pc[t] = "moveErase"
  /\ games' = games \ {user[t]}
  /\ EraseGame(t, user[t])
  /\ Goto(t, "reply")
  /\ UNCHANGED <<sessionVars, cookie, onlineVars, threadVars, undefined, restVars>>

-----------------------------------------------------------------------------
Register(t) == \/ \E u \in Users : RegisterRequest(t, u)
               \/ RegisterCheck(t) \/ RegisterInsert(t) \/ RegisterReply(t)
Login(t) == \/ LoginFind(t) \/ LoginRefuse(t) \/ LoginAccept(t) \/ LoginInsert(t)
            \/ LoginCount(t) \/ LoginLoad(t) \/ LoginStore(t)
Logout(t) == LogoutClear(t) \/ LogoutThrow(t) \/ LogoutOffline(t) \/ LogoutGame(t)
Game(t) == StartCreate(t) \/ MoveFind(t) \/ MoveCreate(t) \/ MoveRefer(t) \/ MovePlay(t) \/ MoveErase(t)
Request(t, c, s) == \/ \E u \in Users : LoginSession(t, c, s, u)
                    \/ LogoutRequest(t, c, s) \/ StartRequest(t, c, s) \/ MoveRequest(t, c, s)

Next ==
  \/ \E t \in use.threads : Register(t) \/ Login(t) \/ Logout(t) \/ Game(t) \/ Respond(t)
                        \/ \E c \in use.clients, s \in SessionIds : Request(t, c, s)
  \/ \E s \in SessionIds : Expire(s)

Spec == Init /\ [][Next]_vars
-----------------------------------------------------------------------------
\* Types of all variables.
TypeOK ==
  /\ sessions \subseteq SessionIds /\ expired \subseteq sessions
  /\ data \in [SessionIds -> Users \cup {NoUser}]
  /\ cookie \in [Clients -> SessionIds \cup {NoSession}]
  /\ listed \subseteq Users /\ online \subseteq listed /\ games \subseteq Users
  /\ maxOnline \in 0..Cardinality(Users) /\ peak \in 0..Cardinality(Users)
  /\ pc \in [Threads -> Labels]
  /\ client \in [Threads -> Clients \cup {NoClient}]
  /\ sid \in [Threads -> SessionIds \cup {NoSession}]
  /\ user \in [Threads -> Users \cup {NoUser}]
  /\ count \in [Threads -> 0..Cardinality(Users)]
  /\ fresh \in [Threads -> BOOLEAN] /\ dangling \in [Threads -> BOOLEAN]
  /\ crossed \in [Threads -> BOOLEAN]
  /\ logins \in [Users -> Nat]
  /\ rows \in [Users -> Nat] /\ use \in Setups
  /\ undefined \subseteq {"alone", "crossed"}

\* A request that overlaps no other request of its user or on its session uses no
\* erased or null game and erases no session that is not stored, whatever the
\* other IO threads do for other users (AiMoveHandler.cpp:31-36, LogoutHandler.cpp:22).
\* Requests that do overlap may (a double click on a move is enough).
NoUndefined == "alone" \notin undefined

\* "更新历史最高在线人数" (LoginHandler.cpp:46, "update the historical maximum of
\* users online"): the maximum shown is a number of users that were at one moment
\* online or just let in, whatever logins and logouts overlap.  The latter count:
\* operator[] may have made their entry (LoginHandler.cpp:39).
MaxOnlineNotOverstated == maxOnline <= peak

\* getCurrentOnline() (GomokuServer.h:113) counts entries: one that is not true
\* belongs to a login that has let its user in, and is not left behind.
NoGhosts == listed \subseteq online \cup LetIn

\* "不允许重复登录" (LoginHandler.cpp:65, "no duplicate login"): only logins that
\* overlap succeed together, so that no user logs in more often than there are IO
\* threads before being taken offline.
LoginsBounded == \A u \in Users : logins[u] <= Cardinality(use.threads)

\* "用户名已存在，注册失败" (RegisterHandler.cpp:13, "the name exists, registration
\* fails"): a name gets a second row only from registrations that overlap the one
\* that made the first, so that it never has more rows than there are IO threads.
RowsBounded == \A u \in Users : rows[u] <= Cardinality(use.threads)

\* "账号已在其他地方登录" (LoginHandler.cpp:68, "the account is logged in
\* elsewhere"): who is refused because of online_users is logged in somewhere,
\* or a thread is just logging the user in or out.
OnlineIsSomewhere ==
  \A u \in online : \/ \E s \in sessions \ expired : data[s] = u
                    \/ \E t \in Threads : user[t] = u
=============================================================================
