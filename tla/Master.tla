------------------------------- MODULE Master -------------------------------
(***************************************************************************)
(* The master server (src/Source/Master): the registry of match and battle *)
(* servers, the list of rooms that wait for players and the map of clients *)
(* that were sent to one.  A connection's packets are handled one at a     *)
(* time, but the WorkerCnt worker threads of CLanServer run the handlers   *)
(* of different connections side by side, and the handlers take the lock   *)
(* of one list after another, keeping raw pointers in between.  One action *)
(* is one lock region (or one interlocked operation) together with the     *)
(* private work before it; task[c] is what the thread serving connection c *)
(* still has to do.                                                        *)
(*                                                                         *)
(* Rooms and sessions live in pools that hand freed objects out again, so  *)
(* they are modelled as objects: a handler that kept a pointer may find    *)
(* another room or another client behind it.  Which free object a pool     *)
(* returns, and which of several equal rooms or sessions a list walk meets *)
(* first, is left open.                                                    *)
(***************************************************************************)
EXTENDS Integers, FiniteSets

CONSTANTS
    Conn,        \* connections: the clientIDs of the lan server
    MatchConn,   \* those a match server opens; a battle server the others
    Key,         \* clientKey of the clients of the match servers
    Account,     \* accountNo
    AccountOf,   \* the account a client logged in with
    RoomNo,      \* room numbers a battle server announces
    MaxUser,     \* the largest maxUser of a room
    Room,        \* objects of _roomPool
    Session,     \* objects of _sessionPool
    WorkerCnt,   \* worker threads of the lan server
    MaxBattleNo, \* bound on the battle server numbers handed out
    NoConn, NoKey, NoRoom, NoSession

ASSUME MasterAssumption ==
    /\ MatchConn \subseteq Conn
    /\ AccountOf \in [Key -> Account]
    /\ RoomNo \subseteq Nat \ {0}
    /\ MaxUser \in Nat
    /\ WorkerCnt \in Nat \ {0}
    /\ MaxBattleNo \in Nat
    /\ NoConn \notin Conn
    /\ NoKey \notin Key
    /\ NoRoom \notin Room
    /\ NoSession \notin Session

VARIABLES
    serverList,     \* connections with an st_SERVER in _serverList
    server,         \* their st_SERVER
    battleInfoList, \* server numbers in _battleInfoList
    curBattleID,
    loginServer,    \* _battleLoginServer, _matchLoginServer
    connectServer,  \* _battleConnectServer, _matchConnectServer
    roomList,       \* objects in _roomList
    room,           \* what each object of _roomPool holds
    roomLock,       \* _waitRoomLock, when it is held from one step to the next
    sessionMap,     \* _sessionMap
    session,        \* what each object of _sessionPool holds
    freeSession,    \* objects _sessionPool may hand out
    task,           \* the handler running for each connection
    crash,          \* why the process went down, or "none"
    ticket,         \* environment: who may yet enter and leave which room
    goneKey         \* environment: clients whose failure was reported

serverVars  == <<serverList, server, battleInfoList, curBattleID,
                 loginServer, connectServer>>
roomVars    == <<roomList, room, roomLock>>
sessionVars == <<sessionMap, session, freeSession>>
envVars     == <<ticket, goneKey>>
vars        == <<serverVars, roomVars, sessionVars, task, crash, envVars>>

-----------------------------------------------------------------------------
ServerType == {"BATTLE", "MATCH"}
ServerNo   == 0 .. MaxBattleNo
Steps      == {"idle", "alloc", "reserve", "battle", "assign",  \* room request
               "flag", "incr", "free",                          \* log out
               "clear",                                         \* room closed
               "lv_rooms", "lv_info", "lv_free"}                \* battle leaves

ServerRec  == [serverType : ServerType \cup {"NONE"}, serverNo : ServerNo,
               bLogin : BOOLEAN]
RoomRec    == [serverNo : ServerNo, roomNo : RoomNo \cup {0},
               available : Int, maxUser : Nat]
SessionRec == [bLogOut : BOOLEAN, clientKey : Key \cup {NoKey},
               serverNo : ServerNo, roomNo : RoomNo \cup {0}]
TaskRec    == [step : Steps, key : Key \cup {NoKey}, roomNo : RoomNo \cup {0},
               session : Session \cup {NoSession}, room : Room \cup {NoRoom},
               battle : ServerNo]

NewServer  == [serverType |-> "NONE", serverNo |-> 0, bLogin |-> FALSE]
NewSession(k) == [bLogOut |-> FALSE, clientKey |-> k, serverNo |-> 0, roomNo |-> 0]
EmptyRoom  == [serverNo |-> 0, roomNo |-> 0, available |-> 0, maxUser |-> 0]
Idle       == [step |-> "idle", key |-> NoKey, roomNo |-> 0,
               session |-> NoSession, room |-> NoRoom, battle |-> 0]

StartState ==
    /\ serverList = {}
    /\ server = [c \in Conn |-> NewServer]
    /\ battleInfoList = {}
    /\ curBattleID = 0
    /\ loginServer = [t \in ServerType |-> 0]
    /\ connectServer = [t \in ServerType |-> 0]
    /\ roomList = {}
    /\ room = [o \in Room |-> EmptyRoom]
    /\ roomLock = NoConn
    /\ sessionMap = [k \in Key |-> NoSession]
    /\ session = [p \in Session |-> NewSession(NoKey)]
    /\ freeSession = Session
    /\ task = [c \in Conn |-> Idle]
    /\ crash = "none"

Init == StartState /\ ticket = {} /\ goneKey = {}

-----------------------------------------------------------------------------
(* The thread pool: a handler starts on an idle connection while a worker  *)
(* is left, goes on at its step, and ends by becoming idle.                *)

Busy == {c \in Conn : task[c].step # "idle"}

CanStart(c) ==
    /\ crash = "none"
    /\ c \in serverList
    /\ task[c] = Idle
    /\ Cardinality(Busy) < WorkerCnt

At(c, step)  == crash = "none" /\ task[c].step = step
Begin(c, t)  == task' = [task EXCEPT ![c] = t]
Goto(c, s)   == task' = [task EXCEPT ![c].step = s]
Return(c)    == task' = [task EXCEPT ![c] = Idle]

FromMatch(c)  == server[c].serverType = "MATCH"
FromBattle(c) == server[c].serverType = "BATTLE" /\ server[c].bLogin

RoomsOf(s, r)  == {o \in roomList : room[o].serverNo = s /\ room[o].roomNo = r}
KeysIn(s, r)   == {k \in Key : /\ sessionMap[k] # NoSession
                               /\ session[sessionMap[k]].serverNo = s
                               /\ session[sessionMap[k]].roomNo = r}

-----------------------------------------------------------------------------
(* Connections.                                                            *)

OnClientJoin(c) ==
    /\ crash = "none"
    /\ c \notin serverList
    /\ serverList' = serverList \cup {c}
    /\ server' = [server EXCEPT ![c] = NewServer]
    /\ UNCHANGED <<battleInfoList, curBattleID, loginServer, connectServer,
                   roomVars, sessionVars, task, crash, envVars>>

(* A match server logs in once per connection.  With a wrong token it is   *)
(* counted as connected, stays connected and is not answered.              *)
Request_Match_Login(c, tokenOk) ==
    /\ CanStart(c)
    /\ c \in MatchConn
    /\ server[c].serverType = "NONE"
    /\ server' = [server EXCEPT ![c] = [serverType |-> "MATCH", serverNo |-> 0,
                                        bLogin |-> tokenOk]]
    /\ connectServer' = [connectServer EXCEPT !["MATCH"] = @ + 1]
    /\ loginServer' = [loginServer EXCEPT !["MATCH"] = IF tokenOk THEN @ + 1 ELSE @]
    /\ UNCHANGED <<serverList, battleInfoList, curBattleID, roomVars,
                   sessionVars, task, crash, envVars>>

(* A battle server gets the next server number and an entry in the battle  *)
(* list; ...                                                               *)
Request_Battle_Login(c) ==
    /\ CanStart(c)
    /\ c \in Conn \ MatchConn
    /\ server[c].serverType = "NONE"
    /\ curBattleID < MaxBattleNo
    /\ curBattleID' = curBattleID + 1
    /\ server' = [server EXCEPT ![c] = [serverType |-> "BATTLE",
                                        serverNo |-> curBattleID + 1,
                                        bLogin |-> TRUE]]
    /\ battleInfoList' = battleInfoList \cup {curBattleID + 1}
    /\ loginServer' = [loginServer EXCEPT !["BATTLE"] = @ + 1]
    /\ connectServer' = [connectServer EXCEPT !["BATTLE"] = @ + 1]
    /\ UNCHANGED <<serverList, roomVars, sessionVars, task, crash, envVars>>

(* ... with a wrong token it is only counted, and disconnected, which      *)
(* OnClientLeave models.                                                   *)
Request_Battle_Login_BadToken(c) ==
    /\ CanStart(c)
    /\ c \in Conn \ MatchConn
    /\ server[c].serverType = "NONE"
    /\ server' = [server EXCEPT ![c] = [serverType |-> "BATTLE", serverNo |-> 0,
                                        bLogin |-> FALSE]]
    /\ connectServer' = [connectServer EXCEPT !["BATTLE"] = @ + 1]
    /\ UNCHANGED <<serverList, battleInfoList, curBattleID, loginServer,
                   roomVars, sessionVars, task, crash, envVars>>

(* Fault: the login counter goes down for every server that leaves.        *)
DecrementLogin_Always(c) ==
    loginServer' = IF server[c].serverType \in ServerType
                   THEN [loginServer EXCEPT ![server[c].serverType] = @ - 1]
                   ELSE loginServer

DecrementLogin(c) ==
    loginServer' = IF server[c].bLogin
                   THEN [loginServer EXCEPT ![server[c].serverType] = @ - 1]
                   ELSE loginServer

DecrementConnect(c) ==
    connectServer' = IF server[c].serverType \in ServerType
                     THEN [connectServer EXCEPT ![server[c].serverType] = @ - 1]
                     ELSE connectServer

(* A server without a battle entry goes: the counters and its st_SERVER.   *)
OnClientLeave(c) ==
    /\ CanStart(c)
    /\ ~FromBattle(c)
    /\ DecrementLogin(c)
    /\ DecrementConnect(c)
    /\ serverList' = serverList \ {c}
    /\ server' = [server EXCEPT ![c] = NewServer]
    /\ UNCHANGED <<battleInfoList, curBattleID, roomVars, sessionVars, task,
                   crash, envVars>>

(* Fault: the rooms of a battle server that leaves stay listed.            *)
OnBattleLeave_KeepRooms(c) ==
    /\ CanStart(c)
    /\ FromBattle(c)
    /\ DecrementLogin(c)
    /\ Goto(c, "lv_info")
    /\ UNCHANGED <<serverList, server, battleInfoList, curBattleID,
                   connectServer, roomVars, sessionVars, crash, envVars>>

(* A battle server goes: first Free_BattleInfo walks the room list with    *)
(* the room lock held throughout, ...                                      *)
OnBattleLeave(c) ==
    /\ CanStart(c)
    /\ FromBattle(c)
    /\ DecrementLogin(c)
    /\ Goto(c, "lv_rooms")
    /\ UNCHANGED <<serverList, server, battleInfoList, curBattleID,
                   connectServer, roomVars, sessionVars, crash, envVars>>

(* Fault: the objects go back to the pool, the entries stay in the map.    *)
Clear_WaitRoom_KeepEntries(s, r) ==
    /\ freeSession' = freeSession \cup {sessionMap[k] : k \in KeysIn(s, r)}
    /\ UNCHANGED <<sessionMap, session>>

(* Clear_WaitRoom: every client sent to that room leaves the map and its   *)
(* object goes back to the pool.                                           *)
Clear_WaitRoom(s, r) ==
    /\ sessionMap' = [k \in Key |-> IF k \in KeysIn(s, r) THEN NoSession
                                    ELSE sessionMap[k]]
    /\ freeSession' = freeSession \cup {sessionMap[k] : k \in KeysIn(s, r)}
    /\ UNCHANGED session

(* ... taking out each room of that server with its clients, ...           *)
Free_BattleInfo_Room(c) ==
    /\ At(c, "lv_rooms")
    /\ roomLock \in {NoConn, c}
    /\ \E o \in roomList :
         /\ room[o].serverNo = server[c].serverNo
         /\ roomList' = roomList \ {o}
         /\ Clear_WaitRoom(room[o].serverNo, room[o].roomNo)
    /\ roomLock' = c
    /\ UNCHANGED <<serverVars, room, task, crash, envVars>>

(* ... but at a room of another server line 357 advances iter, which was   *)
(* never assigned, in place of roomIter: the increment goes through the    *)
(* null node of a default constructed list iterator and the process dies.  *)
Free_BattleInfo_BadIter(c) ==
    /\ At(c, "lv_rooms")
    /\ roomLock \in {NoConn, c}
    /\ \E o \in roomList : room[o].serverNo # server[c].serverNo
    /\ crash' = "bad_iterator"
    /\ UNCHANGED <<serverVars, roomVars, sessionVars, task, envVars>>

Free_BattleInfo_RoomsDone(c) ==
    /\ At(c, "lv_rooms")
    /\ roomLock \in {NoConn, c}
    /\ roomList = {}
    /\ roomLock' = NoConn
    /\ Goto(c, "lv_info")
    /\ UNCHANGED <<serverVars, roomList, room, sessionVars, crash, envVars>>

(* ... then erases the battle entry, ...                                   *)
Free_BattleInfo_Erase(c) ==
    /\ At(c, "lv_info")
    /\ battleInfoList' = battleInfoList \ {server[c].serverNo}
    /\ Goto(c, "lv_free")
    /\ UNCHANGED <<serverList, server, curBattleID, loginServer, connectServer,
                   roomVars, sessionVars, crash, envVars>>

(* ... and last the connection is no longer counted nor listed.            *)
OnBattleLeave_Free_Server(c) ==
    /\ At(c, "lv_free")
    /\ DecrementConnect(c)
    /\ serverList' = serverList \ {c}
    /\ server' = [server EXCEPT ![c] = NewServer]
    /\ Return(c)
    /\ UNCHANGED <<battleInfoList, curBattleID, loginServer, roomVars,
                   sessionVars, crash, envVars>>

-----------------------------------------------------------------------------
(* A match server asks for a room for a client.  Bound: the pool has an    *)
(* object for every handler that is about to allocate one.                 *)

Allocating == {c \in Conn : task[c].step = "alloc"}

Request_Match_RoomInfo(c, k) ==
    /\ CanStart(c)
    /\ FromMatch(c)
    /\ k \notin goneKey
    /\ Cardinality(Allocating) < Cardinality(freeSession) \/ sessionMap[k] # NoSession
    /\ Begin(c, [Idle EXCEPT !.step = IF sessionMap[k] = NoSession THEN "alloc"
                                      ELSE "reserve",
                             !.key = k, !.session = sessionMap[k]])
    /\ UNCHANGED <<serverVars, roomVars, sessionVars, crash, envVars>>

(* Alloc_Session: map::insert leaves an entry that is there already.       *)
Alloc_Session(c) ==
    /\ At(c, "alloc")
    /\ \E p \in freeSession :
         /\ session' = [session EXCEPT ![p] = NewSession(task[c].key)]
         /\ freeSession' = freeSession \ {p}
         /\ sessionMap' = [sessionMap EXCEPT ![task[c].key] =
                             IF @ = NoSession THEN p ELSE @]
         /\ Begin(c, [task[c] EXCEPT !.step = "reserve", !.session = p])
    /\ UNCHANGED <<serverVars, roomVars, crash, envVars>>

OpenRooms == {o \in roomList : room[o].available > 0}

(* Find_HighPriorityWaitRoom fills the fullest room that has a place left. *)
Find_HighPriorityWaitRoom(c) ==
    /\ At(c, "reserve")
    /\ roomLock = NoConn
    /\ \E o \in OpenRooms :
         /\ \A q \in OpenRooms : room[o].available <= room[q].available
         /\ room' = [room EXCEPT ![o].available = @ - 1]
         /\ Begin(c, [task[c] EXCEPT !.step = "battle", !.room = o])
    /\ UNCHANGED <<serverVars, roomList, roomLock, sessionVars, crash, envVars>>

(* No room at all: the reply has status 0.                                 *)
Find_HighPriorityWaitRoom_Empty(c) ==
    /\ At(c, "reserve")
    /\ roomLock = NoConn
    /\ roomList = {}
    /\ Return(c)
    /\ UNCHANGED <<serverVars, roomVars, sessionVars, crash, envVars>>

(* Rooms, but every one of them full: cCrashDump::Crash.                   *)
Find_HighPriorityWaitRoom_Crash(c) ==
    /\ At(c, "reserve")
    /\ roomLock = NoConn
    /\ roomList # {}
    /\ OpenRooms = {}
    /\ crash' = "rooms_full"
    /\ UNCHANGED <<serverVars, roomVars, sessionVars, task, envVars>>

(* The battle entry is looked up by the number the room object holds now,  *)
(* and the pointer kept when _battleInfoLock is left; when there is none   *)
(* the reply has status 0 and the place is not given back.                 *)
Response_Match_RoomInfo_Battle(c) ==
    LET s == room[task[c].room].serverNo
    IN  /\ At(c, "battle")
        /\ \/ /\ s \in battleInfoList
              /\ Begin(c, [task[c] EXCEPT !.step = "assign", !.battle = s])
           \/ s \notin battleInfoList /\ Return(c)
        /\ UNCHANGED <<serverVars, roomVars, sessionVars, crash, envVars>>

(* The battle servers the kept pointer may lead a client to: its own while *)
(* the entry is listed.  Once Free_BattleInfo deleted it the memory may    *)
(* still hold it, hold a later entry, or hold nothing a client can use (0).*)
BattleRead(s) == IF s \in battleInfoList THEN {s} ELSE {0, s} \cup battleInfoList

(* The session is pointed to the room and the client told where to go, both*)
(* through the pointers the handler kept.                                  *)
Response_Match_RoomInfo_Assign(c) ==
    LET p == task[c].session
        o == task[c].room
    IN  /\ At(c, "assign")
        /\ session' = [session EXCEPT ![p].roomNo = room[o].roomNo,
                                      ![p].serverNo = room[o].serverNo]
        /\ \E s \in BattleRead(task[c].battle) :
              ticket' = IF s = 0 THEN ticket
                        ELSE ticket \cup {[account |-> AccountOf[session[p].clientKey],
                                           serverNo |-> s,
                                           roomNo |-> room[o].roomNo]}
        /\ Return(c)
        /\ UNCHANGED <<serverVars, roomVars, sessionMap, freeSession, crash,
                       goneKey>>

-----------------------------------------------------------------------------
(* A client gives its place back: the match server lost it before it got to*)
(* the room, or the battle server saw it leave a room that still waits.    *)

Request_Match_UserEnterFail(c, k) ==
    /\ CanStart(c)
    /\ FromMatch(c)
    /\ k \notin goneKey
    /\ goneKey' = goneKey \cup {k}
    /\ IF sessionMap[k] = NoSession
       THEN UNCHANGED task
       ELSE Begin(c, [Idle EXCEPT !.step = "flag", !.key = k,
                                  !.session = sessionMap[k]])
    /\ UNCHANGED <<serverVars, roomVars, sessionVars, crash, ticket>>

(* Find_SessionByAccountNo compares the account and the room number only.  *)
SessionsOf(a, r) ==
    {k \in Key : /\ sessionMap[k] # NoSession
                 /\ AccountOf[session[sessionMap[k]].clientKey] = a
                 /\ session[sessionMap[k]].roomNo = r}

(* A player that was sent to room r of this battle server has left it.     *)
Request_Battle_UserLogout(c, a, r) ==
    LET entry == [account |-> a, serverNo |-> server[c].serverNo, roomNo |-> r]
    IN  /\ CanStart(c)
        /\ FromBattle(c)
        /\ entry \in ticket
        /\ ticket' = ticket \ {entry}
        /\ \/ \E k \in SessionsOf(a, r) :
                Begin(c, [Idle EXCEPT !.step = "flag", !.roomNo = r,
                                      !.session = sessionMap[k]])
           \/ SessionsOf(a, r) = {} /\ UNCHANGED task
        /\ UNCHANGED <<serverVars, roomVars, sessionVars, crash, goneKey>>

(* InterlockedExchange8(bLogOut): of two log outs that reach one session   *)
(* object only the first goes on.                                          *)
LogOut_Flag(c) ==
    LET p == task[c].session
    IN  /\ At(c, "flag")
        /\ session' = [session EXCEPT ![p].bLogOut = TRUE]
        /\ IF session[p].bLogOut THEN Return(c) ELSE Goto(c, "incr")
        /\ UNCHANGED <<serverVars, roomVars, sessionMap, freeSession, crash,
                       envVars>>

(* The arguments are read off the kept session: the server always, the     *)
(* room only for a match server (key set), else it is the packet's.        *)
LogOutRooms(t) ==
    RoomsOf(session[t.session].serverNo,
            IF t.key = NoKey THEN t.roomNo ELSE session[t.session].roomNo)

Increment_WaitRoom(c) ==
    /\ At(c, "incr")
    /\ roomLock = NoConn
    /\ \/ \E o \in LogOutRooms(task[c]) :
            room' = [room EXCEPT ![o].available = @ + 1]
       \/ LogOutRooms(task[c]) = {} /\ UNCHANGED room
    /\ Goto(c, "free")
    /\ UNCHANGED <<serverVars, roomList, roomLock, sessionVars, crash, envVars>>

(* Free_Session looks the key up again and frees the object it finds there.*)
Free_Session(c) ==
    LET k == IF task[c].key = NoKey THEN session[task[c].session].clientKey
             ELSE task[c].key
    IN  /\ At(c, "free")
        /\ IF k \in Key /\ sessionMap[k] # NoSession
           THEN /\ sessionMap' = [sessionMap EXCEPT ![k] = NoSession]
                /\ freeSession' = freeSession \cup {sessionMap[k]}
           ELSE UNCHANGED <<sessionMap, freeSession>>
        /\ Return(c)
        /\ UNCHANGED <<serverVars, roomVars, session, crash, envVars>>

-----------------------------------------------------------------------------
(* A battle server announces a room with n places, or withdraws one.       *)

Request_Battle_RoomCreated(c, r, n) ==
    LET s == server[c].serverNo
    IN  /\ CanStart(c)
        /\ FromBattle(c)
        /\ roomLock = NoConn
        /\ RoomsOf(s, r) = {}
        /\ \E o \in Room \ roomList :
             /\ room' = [room EXCEPT ![o] = [serverNo |-> s, roomNo |-> r,
                                             available |-> n, maxUser |-> n]]
             /\ roomList' = roomList \cup {o}
        /\ UNCHANGED <<serverVars, roomLock, sessionVars, task, crash, envVars>>

Request_Battle_RoomClosed(c, r) ==
    /\ CanStart(c)
    /\ FromBattle(c)
    /\ roomLock = NoConn
    /\ \/ \E o \in RoomsOf(server[c].serverNo, r) : roomList' = roomList \ {o}
       \/ RoomsOf(server[c].serverNo, r) = {} /\ UNCHANGED roomList
    /\ Begin(c, [Idle EXCEPT !.step = "clear", !.roomNo = r])
    /\ UNCHANGED <<serverVars, room, roomLock, sessionVars, crash, envVars>>

(* Fault: closing a room forgets the clients sent to it.                   *)
Free_WaitRoom_KeepClients(c) ==
    /\ At(c, "clear")
    /\ Return(c)
    /\ UNCHANGED <<serverVars, roomVars, sessionVars, crash, envVars>>

(* The clients of the room go only after the room lock was released.       *)
Free_WaitRoom_Clear(c) ==
    /\ At(c, "clear")
    /\ Clear_WaitRoom(server[c].serverNo, task[c].roomNo)
    /\ Return(c)
    /\ UNCHANGED <<serverVars, roomVars, crash, envVars>>

-----------------------------------------------------------------------------
(* A process that went down is started again with nothing: every list is   *)
(* in memory.  What the clients were told stays told.                      *)
Restart ==
    /\ crash # "none"
    /\ serverList' = {}
    /\ server' = [c \in Conn |-> NewServer]
    /\ battleInfoList' = {}
    /\ curBattleID' = 0
    /\ loginServer' = [t \in ServerType |-> 0]
    /\ connectServer' = [t \in ServerType |-> 0]
    /\ roomList' = {}
    /\ room' = [o \in Room |-> EmptyRoom]
    /\ roomLock' = NoConn
    /\ sessionMap' = [k \in Key |-> NoSession]
    /\ session' = [p \in Session |-> NewSession(NoKey)]
    /\ freeSession' = Session
    /\ task' = [c \in Conn |-> Idle]
    /\ crash' = "none"
    /\ UNCHANGED envVars

Leaving(c) ==
    \/ Free_BattleInfo_Room(c)
    \/ Free_BattleInfo_BadIter(c)
    \/ Free_BattleInfo_RoomsDone(c)
    \/ Free_BattleInfo_Erase(c)
    \/ OnBattleLeave_Free_Server(c)

RoomRequest(c) ==
    \/ Alloc_Session(c)
    \/ Find_HighPriorityWaitRoom(c)
    \/ Find_HighPriorityWaitRoom_Empty(c)
    \/ Find_HighPriorityWaitRoom_Crash(c)
    \/ Response_Match_RoomInfo_Battle(c)
    \/ Response_Match_RoomInfo_Assign(c)

LogOut(c) == LogOut_Flag(c) \/ Increment_WaitRoom(c) \/ Free_Session(c)

(* The steps of a running handler.                                         *)
Handler(c) == Leaving(c) \/ RoomRequest(c) \/ LogOut(c) \/ Free_WaitRoom_Clear(c)

(* The steps that start one.                                               *)
Start(c) ==
    \/ OnClientJoin(c)
    \/ \E ok \in BOOLEAN : Request_Match_Login(c, ok)
    \/ Request_Battle_Login(c)
    \/ Request_Battle_Login_BadToken(c)
    \/ OnClientLeave(c)
    \/ OnBattleLeave(c)
    \/ \E k \in Key : Request_Match_RoomInfo(c, k) \/ Request_Match_UserEnterFail(c, k)
    \/ \E a \in Account, r \in RoomNo : Request_Battle_UserLogout(c, a, r)
    \/ \E r \in RoomNo, n \in 0 .. MaxUser : Request_Battle_RoomCreated(c, r, n)
    \/ \E r \in RoomNo : Request_Battle_RoomClosed(c, r)

Next == Restart \/ \E c \in Conn : Start(c) \/ Handler(c)

Spec == Init /\ [][Next]_vars

(* A worker that took a packet runs its handler to the end.                *)
FairSpec == Spec /\ \A c \in Conn : WF_vars(Handler(c))

-----------------------------------------------------------------------------
(* Properties.                                                             *)

(* Every variable keeps the type of the field it stands for.               *)
TypeOK ==
    /\ serverList \subseteq Conn
    /\ server \in [Conn -> ServerRec]
    /\ battleInfoList \subseteq ServerNo
    /\ curBattleID \in ServerNo
    /\ loginServer \in [ServerType -> Int]
    /\ connectServer \in [ServerType -> Int]
    /\ roomList \subseteq Room
    /\ room \in [Room -> RoomRec]
    /\ roomLock \in Conn \cup {NoConn}
    /\ sessionMap \in [Key -> Session \cup {NoSession}]
    /\ session \in [Session -> SessionRec]
    /\ freeSession \subseteq Session
    /\ task \in [Conn -> TaskRec]
    /\ crash \in {"none", "bad_iterator", "rooms_full"}
    /\ ticket \subseteq [account : Account, serverNo : ServerNo, roomNo : RoomNo \cup {0}]
    /\ goneKey \subseteq Key

(* The pool never takes back an object the session map still refers to,    *)
(* and the map finds under a clientKey the session of that very client,    *)
(* whatever pointers the handlers of other connections hold: Alloc_Session,*)
(* Free_Session and Clear_WaitRoom agree on who frees an object.           *)
SessionMapOwnsItsObjects ==
    \A k \in Key : sessionMap[k] # NoSession =>
        /\ sessionMap[k] \notin freeSession
        /\ session[sessionMap[k]].clientKey = k

(* A room a client can be sent to belongs to a battle server whose entry   *)
(* (address and token) is still there, ...                                 *)
ListedRoomHasBattle ==
    \A o \in roomList : room[o].serverNo \in battleInfoList

(* ... and no entry outlives its connection.                               *)
BattleEntryHasServer ==
    \A s \in battleInfoList :
        \E c \in serverList : FromBattle(c) /\ server[c].serverNo = s

(* So a client is only ever sent to a battle server that is connected:     *)
(* Free_BattleInfo, RoomCreated and RoomClosed never leave a room behind   *)
(* its server, wherever the other handlers are.                            *)
ListedRoomHasServer == ListedRoomHasBattle /\ BattleEntryHasServer

(* A place is only taken from a room that has one.                         *)
AvailableNonNegative == \A o \in roomList : room[o].available >= 0

(* The clients a listed room is waiting for.                               *)
Awaited(o) == {k \in KeysIn(room[o].serverNo, room[o].roomNo) :
                  ~session[sessionMap[k]].bLogOut}

(* With one worker: the places offered and the clients awaited never exceed*)
(* the size the battle server announced, so no place is given out twice.   *)
SlotsNotOverbooked ==
    \A o \in roomList :
        room[o].available + Cardinality(Awaited(o)) <= room[o].maxUser

(* With one worker: between packets no session refers to a room that was   *)
(* closed or whose battle server left.                                     *)
SessionHasListedRoom ==
    Busy = {} /\ crash = "none" =>
        \A k \in Key :
            sessionMap[k] # NoSession /\ session[sessionMap[k]].roomNo # 0 =>
                RoomsOf(session[sessionMap[k]].serverNo,
                        session[sessionMap[k]].roomNo) # {}

(* The counters shown to the monitor are the servers there are: each Leave *)
(* takes back exactly what the Login of that connection added.             *)
IsLeaving(c)  == task[c].step \in {"lv_rooms", "lv_info", "lv_free"}
CountersExact ==
    \A t \in ServerType :
        /\ connectServer[t] =
             Cardinality({c \in serverList : server[c].serverType = t})
        /\ loginServer[t] =
             Cardinality({c \in serverList : /\ server[c].serverType = t
                                             /\ server[c].bLogin
                                             /\ ~IsLeaving(c)})

(* What the handler of c follows at its step was set by an earlier one: the*)
(* session, which was initialised for a client, the room and the battle    *)
(* entry.  That the entry is still listed is not said, and not true:       *)
(* Free_BattleInfo may delete it before line 850 reads it.                 *)
PointersSet ==
    \A c \in Conn :
        LET t == task[c]
        IN  /\ t.step = "alloc" => t.key \in Key
            /\ t.step \in {"reserve", "battle", "assign", "flag", "incr", "free"}
                 => t.session \in Session
            /\ t.session \in Session => session[t.session].clientKey \in Key
            /\ t.step \in {"battle", "assign"} => t.room \in Room
            /\ t.step = "assign" => t.battle # 0

(* At every lock region the counters are those of the servers there are    *)
(* (OnClientLeave), no room gives out a place it does not have             *)
(* (Find_HighPriorityWaitRoom), and no handler follows a pointer that was  *)
(* never set.                                                              *)
CountsSound == TypeOK /\ PointersSet /\ CountersExact /\ AvailableNonNegative

(* Claimed by the assertion at line 565 (cCrashDump::Crash): when rooms are*)
(* listed, a room request finds one with a place left.                     *)
RoomRequestFindsPlace == crash # "rooms_full"

(* Claimed by CBattleSnake_Master_LanServer.h:69-70: available is the part *)
(* of maxUser that is free, so it never exceeds it.                        *)
AvailableWithinMaxUser == \A o \in roomList : room[o].available <= room[o].maxUser

(* Claimed by the comment at line 150-152: before a battle server leaves   *)
(* the list its rooms and the players in them are cleaned up.              *)
BattleLeaveCleansRooms ==
    \A c \in Conn : At(c, "lv_rooms") ~> At(c, "lv_info")
=============================================================================
