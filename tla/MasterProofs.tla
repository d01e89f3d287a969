---------------------------- MODULE MasterProofs ----------------------------
(***************************************************************************)
(* Theorems about Master for every number of connections, clients, rooms   *)
(* and worker threads.  IInv is inductive: what each handler may rely on   *)
(* at each of its steps, and how the entries of one list answer to those   *)
(* of another.                                                             *)
(***************************************************************************)
EXTENDS MCMaster, FiniteSetTheorems, TLAPS

(* What the handler of c holds on to at each step.                         *)
TaskOK(c) ==
    LET t == task[c]
    IN  /\ t.step = "alloc" => t.key \in Key
        /\ t.step \in {"reserve", "battle", "assign", "flag", "incr", "free"}
             => t.session \in Session
        /\ t.step \in {"battle", "assign"} => t.room \in Room
        /\ t.session \in Session => session[t.session].clientKey \in Key
        /\ t.step = "assign" => t.battle # 0

(* What a connection that is listed as a logged in battle server owns.     *)
ServerOK(c) ==
    /\ FromBattle(c) => /\ c \in serverList
                        /\ server[c].serverNo <= curBattleID
                        /\ task[c].step # "lv_free" => server[c].serverNo \in battleInfoList
    /\ IsLeaving(c) => FromBattle(c)
    /\ task[c].step \in {"lv_info", "lv_free"} =>
         \A o \in roomList : room[o].serverNo # server[c].serverNo
    /\ task[c].step = "lv_free" => server[c].serverNo \notin battleInfoList

ServerNoUnique ==
    \A c, d \in Conn :
        FromBattle(c) /\ FromBattle(d) /\ server[c].serverNo = server[d].serverNo
            => c = d

BattleNosIssued == \A s \in battleInfoList : s <= curBattleID

PointerInv ==
    /\ TypeOK
    /\ \A c \in Conn : TaskOK(c)
    /\ 0 \notin battleInfoList
    /\ SessionMapOwnsItsObjects

BattleInv ==
    /\ \A c \in Conn : ServerOK(c)
    /\ ServerNoUnique
    /\ BattleNosIssued
    /\ ListedRoomHasBattle
    /\ BattleEntryHasServer

IInv == PointerInv /\ BattleInv /\ AvailableNonNegative

-----------------------------------------------------------------------------
(* The start of the master satisfies the invariant.                        *)
LEMMA InitIInv == Init => IInv
<1>1. SUFFICES ASSUME Init PROVE IInv
  OBVIOUS
<1> USE MasterAssumption, <1>1 DEF Init, StartState
<1>2. TypeOK
  BY DEF TypeOK, ServerRec, RoomRec, SessionRec, TaskRec, ServerNo, NewServer,
         EmptyRoom, NewSession, Idle, Steps, ServerType
<1>3. \A c \in Conn : TaskOK(c)
  BY DEF TaskOK, Idle
<1>4. \A c \in Conn : ServerOK(c)
  BY DEF ServerOK, FromBattle, IsLeaving, NewServer, Idle
<1>5. ServerNoUnique /\ BattleNosIssued
  BY DEF ServerNoUnique, BattleNosIssued, FromBattle, NewServer
<1>6. SessionMapOwnsItsObjects /\ ListedRoomHasBattle /\ BattleEntryHasServer
        /\ AvailableNonNegative
  BY DEF SessionMapOwnsItsObjects, ListedRoomHasBattle, BattleEntryHasServer,
         AvailableNonNegative
<1>7. QED
  BY <1>2, <1>3, <1>4, <1>5, <1>6 DEF IInv, PointerInv, BattleInv

-----------------------------------------------------------------------------
(* How a handler's own record changes, for the steps below to cite.        *)

(* A worker that starts a handler has a task.                              *)
LEMMA BeginTask ==
    ASSUME task \in [Conn -> TaskRec], NEW c \in Conn, NEW t \in TaskRec, Begin(c, t)
    PROVE  /\ task' \in [Conn -> TaskRec]
           /\ task'[c] = t
           /\ \A d \in Conn \ {c} : task'[d] = task[d]
  BY DEF Begin

(* A worker that goes on to its next lock region has a task.               *)
LEMMA GotoTask ==
    ASSUME task \in [Conn -> TaskRec], NEW c \in Conn, NEW s \in Steps, Goto(c, s)
    PROVE  /\ task' \in [Conn -> TaskRec]
           /\ task'[c].step = s
           /\ task'[c].key = task[c].key
           /\ task'[c].roomNo = task[c].roomNo
           /\ task'[c].session = task[c].session
           /\ task'[c].room = task[c].room
           /\ \A d \in Conn \ {c} : task'[d] = task[d]
  BY DEF Goto, TaskRec

(* A worker that found the battle entry of its room keeps it.              *)
LEMMA AssignTask ==
    ASSUME task \in [Conn -> TaskRec], NEW c \in Conn, NEW s \in ServerNo,
           Begin(c, [task[c] EXCEPT !.step = "assign", !.battle = s])
    PROVE  /\ task' \in [Conn -> TaskRec]
           /\ task'[c].step = "assign"
           /\ task'[c].key = task[c].key
           /\ task'[c].session = task[c].session
           /\ task'[c].room = task[c].room
           /\ task'[c].battle = s
           /\ \A d \in Conn \ {c} : task'[d] = task[d]
  BY DEF Begin, TaskRec, Steps

(* What the lookup of the battle entry does to the task of its worker.     *)
LEMMA BattleTask ==
    ASSUME TypeOK, NEW c \in Conn, Response_Match_RoomInfo_Battle(c)
    PROVE  \/ Return(c)
           \/ \E s \in battleInfoList :
                 Begin(c, [task[c] EXCEPT !.step = "assign", !.battle = s])
  BY DEF Response_Match_RoomInfo_Battle

(* No battle server has the number 0, and a task may hold it.              *)
LEMMA NoBattle == 0 \in ServerNo
  BY MasterAssumption DEF ServerNo

(* The idle task is a task.                                                *)
LEMMA IdleType == Idle \in TaskRec
  BY NoBattle DEF Idle, TaskRec, Steps

(* A worker whose handler ended is idle.                                   *)
LEMMA ReturnTask ==
    ASSUME task \in [Conn -> TaskRec], NEW c \in Conn, Return(c)
    PROVE  /\ task' \in [Conn -> TaskRec]
           /\ task'[c] = Idle
           /\ \A d \in Conn \ {c} : task'[d] = task[d]
  BY IdleType DEF Return

(* A task that takes a session along is a task.                            *)
LEMMA KeepSession ==
    \A t \in TaskRec, p \in Session : [t EXCEPT !.step = "reserve", !.session = p] \in TaskRec
  BY DEF TaskRec, Steps

(* A task that takes a room along is a task.                               *)
LEMMA KeepRoom ==
    \A t \in TaskRec, o \in Room : [t EXCEPT !.step = "battle", !.room = o] \in TaskRec
  BY DEF TaskRec, Steps

(* The login counters stay integers.                                       *)
LEMMA CounterType ==
    ASSUME NEW f \in [ServerType -> Int], NEW t
    PROVE  /\ [f EXCEPT ![t] = @ + 1] \in [ServerType -> Int]
           /\ [f EXCEPT ![t] = @ - 1] \in [ServerType -> Int]
<1>1. CASE t \in ServerType
  BY <1>1
<1>2. CASE t \notin ServerType
  BY <1>2
<1>3. QED
  BY <1>1, <1>2

-----------------------------------------------------------------------------
(* Type correctness, step by step.                                         *)

(* The first region of every handler keeps the types.                      *)
LEMMA TypeStart ==
    ASSUME TypeOK, NEW c \in Conn, Start(c)
    PROVE  TypeOK'
<1> USE MasterAssumption
<1>0. /\ server \in [Conn -> ServerRec] /\ task \in [Conn -> TaskRec]
      /\ loginServer \in [ServerType -> Int] /\ connectServer \in [ServerType -> Int]
      /\ room \in [Room -> RoomRec] /\ sessionMap \in [Key -> Session \cup {NoSession}]
  BY DEF TypeOK
<1>s. NewServer \in ServerRec
  BY DEF NewServer, ServerRec, ServerNo
<1> USE DEF serverVars, roomVars, sessionVars, envVars
<1>1. CASE OnClientJoin(c)
  BY <1>0, <1>1, <1>s DEF OnClientJoin, TypeOK
<1>2. ASSUME NEW ok \in BOOLEAN, Request_Match_Login(c, ok)
      PROVE  TypeOK'
  BY <1>0, <1>2, CounterType DEF ServerRec, ServerNo, ServerType, Request_Match_Login, TypeOK
<1>3. CASE Request_Battle_Login(c)
  BY <1>3, <1>0, CounterType DEF Request_Battle_Login, TypeOK, ServerNo, ServerRec, ServerType
<1>4. CASE Request_Battle_Login_BadToken(c)
  BY <1>0, <1>4, CounterType DEF ServerRec, ServerNo, ServerType, Request_Battle_Login_BadToken,
     TypeOK
<1>5. CASE OnClientLeave(c)
  BY <1>0, <1>5, <1>s, CounterType DEF OnClientLeave, DecrementLogin, DecrementConnect, TypeOK
<1>6. CASE OnBattleLeave(c)
  BY <1>0, <1>6, CounterType, GotoTask DEF OnBattleLeave, DecrementLogin, Steps, TypeOK
<1>7. ASSUME NEW k \in Key, Request_Match_RoomInfo(c, k)
      PROVE  TypeOK'
  <2> DEFINE t == [Idle EXCEPT !.step = IF sessionMap[k] = NoSession THEN "alloc"
                                        ELSE "reserve",
                               !.key = k, !.session = sessionMap[k]]
  <2>1. t \in TaskRec
    BY <1>0, NoBattle DEF Idle, TaskRec, Steps
  <2>2. task' \in [Conn -> TaskRec]
    BY <1>0, <1>7, <2>1, BeginTask DEF Request_Match_RoomInfo
  <2>3. QED
    BY <1>7, <2>2 DEF Request_Match_RoomInfo, TypeOK
<1>8. ASSUME NEW k \in Key, Request_Match_UserEnterFail(c, k)
      PROVE  TypeOK'
  <2> DEFINE t == [Idle EXCEPT !.step = "flag", !.key = k, !.session = sessionMap[k]]
  <2>1. t \in TaskRec
    BY <1>0, NoBattle DEF Idle, TaskRec, Steps
  <2>2. task' \in [Conn -> TaskRec]
    BY <1>0, <1>8, <2>1, BeginTask DEF Request_Match_UserEnterFail
  <2>3. QED
    BY <1>8, <2>2 DEF Request_Match_UserEnterFail, TypeOK
<1>9. ASSUME NEW a \in Account, NEW r \in RoomNo, Request_Battle_UserLogout(c, a, r)
      PROVE  TypeOK'
  <2>1. task' \in [Conn -> TaskRec]
    BY <1>0, BeginTask, NoBattle, <1>9 DEF SessionsOf, Idle, TaskRec, Steps, Request_Battle_UserLogout
  <2>2. QED
    BY <1>9, <2>1 DEF Request_Battle_UserLogout, TypeOK
<1>10. ASSUME NEW r \in RoomNo, NEW n \in 0 .. MaxUser, Request_Battle_RoomCreated(c, r, n)
       PROVE  TypeOK'
  BY <1>10, <1>0 DEF Request_Battle_RoomCreated, RoomRec, ServerRec, TypeOK
<1>11. ASSUME NEW r \in RoomNo, Request_Battle_RoomClosed(c, r)
       PROVE  TypeOK'
  BY <1>0, <1>11, BeginTask, NoBattle DEF Idle, TaskRec, Steps, Request_Battle_RoomClosed, TypeOK
<1>12. QED
  BY <1>1, <1>2, <1>3, <1>4, <1>5, <1>6, <1>7, <1>8, <1>9, <1>10, <1>11 DEF Start

(* Clear_WaitRoom keeps the types.                                         *)
LEMMA ClearType ==
    ASSUME TypeOK, NEW s, NEW r, Clear_WaitRoom(s, r)
    PROVE  /\ sessionMap' \in [Key -> Session \cup {NoSession}]
           /\ freeSession' \subseteq Session
           /\ session' \in [Session -> SessionRec]
  BY DEF TypeOK, KeysIn, Clear_WaitRoom

(* The kept pointers are valid where a handler follows them.               *)
LEMMA TypeHandler ==
    ASSUME TypeOK, NEW c \in Conn, TaskOK(c), Handler(c)
    PROVE  TypeOK'
<1> USE MasterAssumption DEF serverVars, roomVars, sessionVars, envVars
<1>0. /\ server \in [Conn -> ServerRec] /\ task \in [Conn -> TaskRec]
      /\ loginServer \in [ServerType -> Int] /\ connectServer \in [ServerType -> Int]
      /\ room \in [Room -> RoomRec] /\ sessionMap \in [Key -> Session \cup {NoSession}]
      /\ session \in [Session -> SessionRec]
  BY DEF TypeOK
<1>s. NewServer \in ServerRec
  BY DEF NewServer, ServerRec, ServerNo
<1>1. CASE Free_BattleInfo_Room(c)
  BY <1>1, ClearType DEF Free_BattleInfo_Room, TypeOK
<1>2. CASE Free_BattleInfo_BadIter(c)
  BY <1>2 DEF Free_BattleInfo_BadIter, TypeOK
<1>3. CASE Free_BattleInfo_RoomsDone(c)
  BY <1>0, <1>3, GotoTask DEF Free_BattleInfo_RoomsDone, Steps, TypeOK
<1>4. CASE Free_BattleInfo_Erase(c)
  BY <1>0, <1>4, GotoTask DEF Free_BattleInfo_Erase, Steps, TypeOK
<1>5. CASE OnBattleLeave_Free_Server(c)
  BY <1>0, <1>5, ReturnTask, <1>s, CounterType DEF OnBattleLeave_Free_Server, DecrementConnect,
     TypeOK
<1>6. CASE Alloc_Session(c)
  <2>1. task[c].key \in Key
    BY <1>6 DEF TaskOK, Alloc_Session, At
  <2>2. PICK p \in freeSession :
          /\ freeSession' = freeSession \ {p}
          /\ session' = [session EXCEPT ![p] = NewSession(task[c].key)]
          /\ sessionMap' = [sessionMap EXCEPT ![task[c].key] =
                              IF @ = NoSession THEN p ELSE @]
          /\ Begin(c, [task[c] EXCEPT !.step = "reserve", !.session = p])
    BY <1>6 DEF Alloc_Session
  <2>3. p \in Session
    BY DEF TypeOK
  <2>4. [task[c] EXCEPT !.step = "reserve", !.session = p] \in TaskRec
    BY <1>0, <2>3, KeepSession
  <2>5. task' \in [Conn -> TaskRec]
    BY <1>0, <2>2, <2>4, BeginTask
  <2>6. NewSession(task[c].key) \in SessionRec
    BY <2>1 DEF NewSession, SessionRec, ServerNo
  <2>7. session' \in [Session -> SessionRec] /\ freeSession' \subseteq Session
    BY <1>0, <2>2, <2>6 DEF TypeOK
  <2>8. sessionMap' \in [Key -> Session \cup {NoSession}]
    BY <1>0, <2>2, <2>3
  <2>9. QED
    BY <1>6, <2>5, <2>7, <2>8 DEF Alloc_Session, TypeOK
<1>7. CASE Find_HighPriorityWaitRoom(c)
  <2>1. PICK o \in OpenRooms :
          /\ room' = [room EXCEPT ![o].available = @ - 1]
          /\ Begin(c, [task[c] EXCEPT !.step = "battle", !.room = o])
    BY <1>7 DEF Find_HighPriorityWaitRoom
  <2>2. o \in Room
    BY DEF OpenRooms, TypeOK
  <2>3. [task[c] EXCEPT !.step = "battle", !.room = o] \in TaskRec
    BY <1>0, <2>2, KeepRoom
  <2>4. task' \in [Conn -> TaskRec]
    BY <1>0, <2>1, <2>3, BeginTask
  <2>5. room' \in [Room -> RoomRec]
    BY <1>0, <2>1, <2>2 DEF RoomRec
  <2>6. QED
    BY <1>7, <2>4, <2>5 DEF Find_HighPriorityWaitRoom, TypeOK
<1>8. CASE Find_HighPriorityWaitRoom_Empty(c)
  BY <1>0, <1>8, ReturnTask DEF Find_HighPriorityWaitRoom_Empty, TypeOK
<1>9. CASE Find_HighPriorityWaitRoom_Crash(c)
  BY <1>9 DEF Find_HighPriorityWaitRoom_Crash, TypeOK
<1>10. CASE Response_Match_RoomInfo_Battle(c)
  <2>1. task' \in [Conn -> TaskRec]
    BY <1>0, <1>10, BattleTask, ReturnTask, AssignTask DEF TypeOK
  <2>2. QED
    BY <1>10, <2>1 DEF Response_Match_RoomInfo_Battle, TypeOK
<1>11. CASE Response_Match_RoomInfo_Assign(c)
  <2> DEFINE p == task[c].session
             o == task[c].room
  <2>1. task' \in [Conn -> TaskRec]
    BY <1>0, <1>11, ReturnTask DEF Response_Match_RoomInfo_Assign
  <2>2. p \in Session /\ o \in Room /\ session[p].clientKey \in Key
    BY <1>11 DEF TaskOK, Response_Match_RoomInfo_Assign, At
  <2>3. room[o].roomNo \in RoomNo \cup {0} /\ room[o].serverNo \in ServerNo
    BY <1>0, <2>2 DEF RoomRec
  <2>4. session' \in [Session -> SessionRec]
    BY <1>0, <1>11, <2>2, <2>3 DEF Response_Match_RoomInfo_Assign, SessionRec
  <2>5. AccountOf[session[p].clientKey] \in Account
    BY <2>2
  <2>6. ticket' \subseteq [account : Account, serverNo : ServerNo,
                           roomNo : RoomNo \cup {0}]
    <3>1. PICK s \in BattleRead(task[c].battle) :
            ticket' = IF s = 0 THEN ticket
                      ELSE ticket \cup {[account |-> AccountOf[session[p].clientKey],
                                         serverNo |-> s, roomNo |-> room[o].roomNo]}
      BY <1>11 DEF Response_Match_RoomInfo_Assign
    <3>2. s \in ServerNo
      BY <1>0, MasterAssumption DEF BattleRead, TypeOK, TaskRec, ServerNo
    <3>3. QED
      BY <2>3, <2>5, <3>1, <3>2 DEF TypeOK
  <2>7. QED
    BY <1>11, <2>1, <2>4, <2>6 DEF Response_Match_RoomInfo_Assign, TypeOK
<1>12. CASE LogOut_Flag(c)
  <2>1. task' \in [Conn -> TaskRec]
    BY <1>0, <1>12, ReturnTask, GotoTask DEF LogOut_Flag, Steps
  <2>2. session' \in [Session -> SessionRec]
    BY <1>0, <1>12 DEF LogOut_Flag, SessionRec
  <2>3. QED
    BY <1>12, <2>1, <2>2 DEF LogOut_Flag, TypeOK
<1>13. CASE Increment_WaitRoom(c)
  <2>1. task' \in [Conn -> TaskRec]
    BY <1>0, <1>13, GotoTask DEF Increment_WaitRoom, Steps
  <2>2. room' \in [Room -> RoomRec]
    <3>1. \A o : [room EXCEPT ![o].available = @ + 1] \in [Room -> RoomRec]
      <4>1. TAKE o
      <4>2. CASE o \in Room
        BY <1>0, <4>2 DEF RoomRec
      <4>3. CASE o \notin Room
        BY <1>0, <4>3
      <4>4. QED
        BY <4>2, <4>3
    <3>2. QED
      BY <1>0, <1>13, <3>1 DEF Increment_WaitRoom
  <2>3. QED
    BY <1>13, <2>1, <2>2 DEF Increment_WaitRoom, TypeOK
<1>14. CASE Free_Session(c)
  BY <1>0, <1>14, ReturnTask DEF Free_Session, TypeOK
<1>15. CASE Free_WaitRoom_Clear(c)
  BY <1>0, <1>15, ReturnTask, ClearType DEF Free_WaitRoom_Clear, TypeOK
<1>16. QED
  BY <1>1, <1>2, <1>3, <1>4, <1>5, <1>6, <1>7, <1>8, <1>9, <1>10, <1>11, <1>12,
     <1>13, <1>14, <1>15 DEF Handler, Leaving, RoomRequest, LogOut

(* A restart of the process keeps the types.                               *)
LEMMA TypeRestart == TypeOK /\ Restart => TypeOK'
<1>1. SUFFICES ASSUME TypeOK, Restart PROVE TypeOK'
  OBVIOUS
<1> USE MasterAssumption, <1>1 DEF Restart
<1>2. NewServer \in ServerRec /\ EmptyRoom \in RoomRec /\ NewSession(NoKey) \in SessionRec
  BY DEF NewServer, ServerRec, ServerNo, EmptyRoom, RoomRec, NewSession, SessionRec
<1>3. QED
  BY <1>2, IdleType DEF TypeOK, envVars, ServerNo

-----------------------------------------------------------------------------
(* The pointers a handler keeps and the objects the session map owns.      *)

(* The session a key maps to is the key's own.                             *)
LEMMA MappedSession ==
    ASSUME TypeOK, SessionMapOwnsItsObjects, NEW k \in Key, sessionMap[k] # NoSession
    PROVE  sessionMap[k] \in Session /\ session[sessionMap[k]].clientKey = k
  BY DEF TypeOK, SessionMapOwnsItsObjects

(* The first region of every handler keeps the pointers sound.             *)
LEMMA PointerStart ==
    ASSUME PointerInv, NEW c \in Conn, Start(c)
    PROVE  PointerInv'
<1> USE DEF PointerInv
<1>1. TypeOK'
  BY TypeStart
<1>2. task \in [Conn -> TaskRec]
  BY DEF TypeOK
<1>3. UNCHANGED sessionVars
  BY DEF Start, OnClientJoin, Request_Match_Login, Request_Battle_Login,
         Request_Battle_Login_BadToken, OnClientLeave, OnBattleLeave,
         Request_Match_RoomInfo, Request_Match_UserEnterFail, Request_Battle_UserLogout,
         Request_Battle_RoomCreated, Request_Battle_RoomClosed
<1>4. SessionMapOwnsItsObjects'
  BY <1>3 DEF SessionMapOwnsItsObjects, sessionVars
<1>b. 0 \notin battleInfoList'
  <2>1. CASE Request_Battle_Login(c)
    BY <2>1 DEF Request_Battle_Login, TypeOK, ServerNo
  <2>2. CASE ~Request_Battle_Login(c)
    BY <2>2 DEF Start, OnClientJoin, Request_Match_Login,
         Request_Battle_Login_BadToken, OnClientLeave, OnBattleLeave,
         Request_Match_RoomInfo, Request_Match_UserEnterFail, Request_Battle_UserLogout,
         Request_Battle_RoomCreated, Request_Battle_RoomClosed, serverVars
  <2>3. QED
    BY <2>1, <2>2
<1> USE <1>b
<1>5. ASSUME NEW t \in TaskRec, Begin(c, t),
             t.step \in {"clear", "alloc", "reserve", "flag"},
             t.step = "alloc" => t.key \in Key,
             t.step \in {"reserve", "flag"} => t.session \in Session,
             t.session \in Session => session[t.session].clientKey \in Key
      PROVE  \A d \in Conn : TaskOK(d)'
  BY <1>2, <1>3, <1>5, BeginTask DEF TaskOK, sessionVars
<1>6. CASE UNCHANGED task
  BY <1>1, <1>3, <1>4, <1>6 DEF TaskOK, sessionVars
<1>7. CASE OnBattleLeave(c)
  BY <1>7, <1>2, <1>3, GotoTask, MasterAssumption, <1>1, <1>4 DEF OnBattleLeave, CanStart, TaskOK,
     sessionVars, Idle, Steps
<1>8. ASSUME NEW k \in Key, Request_Match_RoomInfo(c, k)
      PROVE  PointerInv'
  <2> DEFINE t == [Idle EXCEPT !.step = IF sessionMap[k] = NoSession THEN "alloc"
                                        ELSE "reserve",
                               !.key = k, !.session = sessionMap[k]]
  <2>1. Begin(c, t)
    BY <1>8 DEF Request_Match_RoomInfo
  <2>2. sessionMap[k] \in Session \cup {NoSession}
    BY DEF TypeOK
  <2>3. t \in TaskRec /\ t.key = k /\ t.session = sessionMap[k]
        /\ t.step = IF sessionMap[k] = NoSession THEN "alloc" ELSE "reserve"
    BY <2>2, NoBattle DEF Idle, TaskRec, Steps
  <2>4. t.session \in Session => session[t.session].clientKey \in Key
    BY <2>3, MappedSession, MasterAssumption
  <2> HIDE DEF t
  <2>5. \A d \in Conn : TaskOK(d)'
    BY <1>5, <2>1, <2>2, <2>3, <2>4
  <2>6. QED
    BY <1>1, <1>4, <2>5
<1>9. ASSUME NEW k \in Key, Request_Match_UserEnterFail(c, k), ~UNCHANGED task
      PROVE  PointerInv'
  <2> DEFINE t == [Idle EXCEPT !.step = "flag", !.key = k, !.session = sessionMap[k]]
  <2>1. sessionMap[k] # NoSession /\ Begin(c, t)
    BY <1>9 DEF Request_Match_UserEnterFail
  <2>2. sessionMap[k] \in Session /\ session[sessionMap[k]].clientKey \in Key
    BY <2>1, MappedSession
  <2>3. t \in TaskRec /\ t.session = sessionMap[k] /\ t.step = "flag"
    BY <2>2, NoBattle DEF Idle, TaskRec, Steps
  <2> HIDE DEF t
  <2>4. \A d \in Conn : TaskOK(d)'
    BY <1>5, <2>1, <2>2, <2>3
  <2>5. QED
    BY <1>1, <1>4, <2>4
<1>10. ASSUME NEW a \in Account, NEW r \in RoomNo, Request_Battle_UserLogout(c, a, r),
              ~UNCHANGED task
       PROVE  PointerInv'
  <2> DEFINE t(k) == [Idle EXCEPT !.step = "flag", !.roomNo = r, !.session = sessionMap[k]]
  <2>1. PICK k \in SessionsOf(a, r) : Begin(c, t(k))
    BY <1>10 DEF Request_Battle_UserLogout
  <2>2. k \in Key /\ sessionMap[k] \in Session /\ session[sessionMap[k]].clientKey \in Key
    BY <2>1, MappedSession DEF SessionsOf
  <2>3. t(k) \in TaskRec /\ t(k).session = sessionMap[k] /\ t(k).step = "flag"
    BY <2>2, NoBattle DEF Idle, TaskRec, Steps
  <2> HIDE DEF t
  <2>4. \A d \in Conn : TaskOK(d)'
    BY <1>5, <2>1, <2>2, <2>3
  <2>5. QED
    BY <1>1, <1>4, <2>4
<1>11. ASSUME NEW r \in RoomNo, Request_Battle_RoomClosed(c, r)
       PROVE  PointerInv'
  <2> DEFINE t == [Idle EXCEPT !.step = "clear", !.roomNo = r]
  <2>1. t \in TaskRec /\ t.step = "clear" /\ t.session = NoSession
    BY NoBattle DEF Idle, TaskRec, Steps
  <2>2. Begin(c, t)
    BY <1>11 DEF Request_Battle_RoomClosed
  <2> HIDE DEF t
  <2>3. \A d \in Conn : TaskOK(d)'
    BY <1>5, <2>1, <2>2, MasterAssumption
  <2>4. QED
    BY <1>1, <1>4, <2>3
<1>12. QED
  BY <1>6, <1>7, <1>8, <1>9, <1>10, <1>11
     DEF Start, OnClientJoin, Request_Match_Login, Request_Battle_Login,
         Request_Battle_Login_BadToken, OnClientLeave, Request_Battle_RoomCreated

(* Clients that leave the map take their objects with them: no two clients *)
(* share one, since each object names its client.                          *)
LEMMA ClearOwns ==
    ASSUME TypeOK, SessionMapOwnsItsObjects, NEW s, NEW r, Clear_WaitRoom(s, r)
    PROVE  SessionMapOwnsItsObjects'
  BY DEF SessionMapOwnsItsObjects, Clear_WaitRoom, KeysIn

(* The later regions keep the pointers sound.                              *)
LEMMA PointerHandler ==
    ASSUME PointerInv, NEW c \in Conn, Handler(c)
    PROVE  PointerInv'
<1> USE DEF PointerInv
<1>0. TypeOK'
  BY TypeHandler
<1>t. task \in [Conn -> TaskRec] /\ session \in [Session -> SessionRec]
  BY DEF TypeOK
<1>i. Idle.step = "idle" /\ Idle.session \notin Session
  BY MasterAssumption DEF Idle
<1>b. 0 \notin battleInfoList'
  BY DEF Handler, Leaving, RoomRequest, LogOut, Free_BattleInfo_Room, Free_BattleInfo_BadIter,
         Free_BattleInfo_RoomsDone, Free_BattleInfo_Erase, OnBattleLeave_Free_Server,
         Alloc_Session, Find_HighPriorityWaitRoom, Find_HighPriorityWaitRoom_Empty,
         Find_HighPriorityWaitRoom_Crash, Response_Match_RoomInfo_Battle,
         Response_Match_RoomInfo_Assign, LogOut_Flag, Increment_WaitRoom, Free_Session,
         Free_WaitRoom_Clear, serverVars
<1> USE <1>b DEF sessionVars
(* A step that keeps every session's client and moves the handler on.      *)
<1>k. ASSUME \A p \in Session : session'[p].clientKey = session[p].clientKey,
             UNCHANGED task \/ Return(c)
               \/ \E s \in {"lv_info", "lv_free", "incr", "free"} :
                    /\ Goto(c, s)
                    /\ s \in {"incr", "free"} => task[c].session \in Session
      PROVE  \A d \in Conn : TaskOK(d)'
  BY <1>k, <1>t, <1>i, ReturnTask, GotoTask DEF TaskOK, Steps
<1>1. CASE Free_BattleInfo_Room(c)
  BY <1>1, <1>0, <1>k, ClearOwns DEF Free_BattleInfo_Room, Clear_WaitRoom
<1>2. CASE Free_BattleInfo_BadIter(c) \/ Find_HighPriorityWaitRoom_Crash(c)
  BY <1>2, <1>0, <1>k DEF Free_BattleInfo_BadIter, Find_HighPriorityWaitRoom_Crash,
     SessionMapOwnsItsObjects
<1>3. CASE Free_BattleInfo_RoomsDone(c) \/ Free_BattleInfo_Erase(c)
             \/ OnBattleLeave_Free_Server(c) \/ Find_HighPriorityWaitRoom_Empty(c)
  BY <1>3, <1>k, <1>0 DEF Free_BattleInfo_RoomsDone, Free_BattleInfo_Erase,
     OnBattleLeave_Free_Server, Find_HighPriorityWaitRoom_Empty, SessionMapOwnsItsObjects
<1>4. CASE Alloc_Session(c)
  <2>1. PICK p \in freeSession :
          /\ freeSession' = freeSession \ {p}
          /\ session' = [session EXCEPT ![p] = NewSession(task[c].key)]
          /\ sessionMap' = [sessionMap EXCEPT ![task[c].key] =
                              IF @ = NoSession THEN p ELSE @]
          /\ Begin(c, [task[c] EXCEPT !.step = "reserve", !.session = p])
    BY <1>4 DEF Alloc_Session
  <2>2. task[c].key \in Key /\ p \in Session /\ NewSession(task[c].key).clientKey = task[c].key
    BY <1>4 DEF Alloc_Session, At, TaskOK, NewSession, TypeOK
  <2>3. session'[p].clientKey = task[c].key
        /\ \A q \in Session \ {p} : session'[q] = session[q]
    BY <1>t, <2>1, <2>2
  <2>4. SessionMapOwnsItsObjects'
    BY <2>1, <2>2, <2>3 DEF SessionMapOwnsItsObjects, TypeOK
  <2>5. \A d \in Conn : TaskOK(d)'
    <3>1. [task[c] EXCEPT !.step = "reserve", !.session = p] \in TaskRec
      <4>1. task[c] \in TaskRec /\ p \in Session
        BY <1>t, <2>2
      <4> QED
        BY <4>1, KeepSession
    <3>2. \A t \in TaskRec : /\ [t EXCEPT !.step = "reserve", !.session = p].step = "reserve"
                             /\ [t EXCEPT !.step = "reserve", !.session = p].session = p
      BY DEF TaskRec
    <3>3. task'[c].step = "reserve" /\ task'[c].session = p
          /\ \A d \in Conn \ {c} : task'[d] = task[d]
      <4>1. PICK t : t = [task[c] EXCEPT !.step = "reserve", !.session = p] /\ Begin(c, t)
        BY <2>1
      <4>2. t \in TaskRec /\ t.step = "reserve" /\ t.session = p
        BY <1>t, <3>1, <3>2, <4>1
      <4> QED
        BY <1>t, <4>1, <4>2, BeginTask
    <3>4. QED
      BY <1>t, <2>2, <2>3, <3>3 DEF TaskOK
  <2>6. QED
    BY <1>0, <2>4, <2>5
<1>5. CASE Find_HighPriorityWaitRoom(c)
  <2>1. PICK o \in OpenRooms : Begin(c, [task[c] EXCEPT !.step = "battle", !.room = o])
    BY <1>5 DEF Find_HighPriorityWaitRoom
  <2>2. o \in Room /\ task[c].session \in Session /\ UNCHANGED sessionVars
    BY <1>5 DEF OpenRooms, TypeOK, TaskOK, Find_HighPriorityWaitRoom, At
  <2> DEFINE next(t) == [t EXCEPT !.step = "battle", !.room = o]
  <2>3. \A t \in TaskRec : /\ next(t) \in TaskRec /\ next(t).step = "battle"
                           /\ next(t).session = t.session /\ next(t).room = o
    BY <2>2, KeepRoom DEF TaskRec
  <2>4. Begin(c, next(task[c])) /\ task[c] \in TaskRec
    BY <1>t, <2>1
  <2> HIDE DEF next
  <2>5. task'[c].step = "battle" /\ task'[c].session = task[c].session /\ task'[c].room = o
        /\ \A d \in Conn \ {c} : task'[d] = task[d]
    BY <1>t, <2>3, <2>4, BeginTask
  <2>6. \A d \in Conn : TaskOK(d)'
    BY <2>2, <2>5 DEF TaskOK
  <2>7. QED
    BY <1>0, <2>2, <2>6 DEF SessionMapOwnsItsObjects
<1>6. CASE Response_Match_RoomInfo_Battle(c)
  <2>1. task[c].session \in Session /\ task[c].room \in Room /\ UNCHANGED sessionVars
    BY <1>6 DEF Response_Match_RoomInfo_Battle, At, TaskOK
  <2>2. CASE Return(c)
    BY <1>0, <1>k, <2>1, <2>2 DEF SessionMapOwnsItsObjects
  <2>3. ASSUME NEW s \in battleInfoList,
               Begin(c, [task[c] EXCEPT !.step = "assign", !.battle = s])
        PROVE  PointerInv'
    <3>1. s \in ServerNo /\ s # 0
      BY DEF TypeOK
    <3>2. \A d \in Conn : TaskOK(d)'
      BY <1>t, <2>1, <2>3, <3>1, AssignTask DEF TaskOK
    <3>3. QED
      BY <1>0, <2>1, <3>2 DEF SessionMapOwnsItsObjects
  <2>4. QED
    BY <1>6, <2>2, <2>3, BattleTask
<1>7. CASE Response_Match_RoomInfo_Assign(c) \/ LogOut_Flag(c)
  <2>1. task[c].session \in Session /\ UNCHANGED <<sessionMap, freeSession>>
        /\ (Return(c) \/ Goto(c, "incr"))
    BY <1>7 DEF Response_Match_RoomInfo_Assign, LogOut_Flag, At, TaskOK
  <2>2. \A p \in Session : session'[p].clientKey = session[p].clientKey
    BY <1>t, <1>7 DEF Response_Match_RoomInfo_Assign, SessionRec, LogOut_Flag
  <2>3. \A d \in Conn : TaskOK(d)'
    BY <1>k, <2>1, <2>2
  <2>4. \A k \in Key : sessionMap[k] \in Session \cup {NoSession}
    BY DEF TypeOK
  <2>5. QED
    BY <1>0, <2>1, <2>2, <2>3, <2>4 DEF SessionMapOwnsItsObjects
<1>8. CASE Increment_WaitRoom(c)
  BY <1>8, <1>k, <1>0 DEF Increment_WaitRoom, At, TaskOK, SessionMapOwnsItsObjects
<1>9. CASE Free_Session(c)
  BY <1>9, <1>k, <1>0 DEF Free_Session, SessionMapOwnsItsObjects, TypeOK
<1>10. CASE Free_WaitRoom_Clear(c)
  BY <1>10, <1>k, <1>0, ClearOwns DEF Free_WaitRoom_Clear, Clear_WaitRoom
<1>11. QED
  BY <1>1, <1>2, <1>3, <1>4, <1>5, <1>6, <1>7, <1>8, <1>9, <1>10
     DEF Handler, Leaving, RoomRequest, LogOut

(* A restart leaves no pointer.                                            *)
LEMMA PointerRestart ==
    ASSUME PointerInv, Restart
    PROVE  PointerInv'
  BY TypeRestart, MasterAssumption DEF PointerInv, Restart, TaskOK, Idle, SessionMapOwnsItsObjects

(* Every step keeps the pointers sound.                                    *)
LEMMA PointerStep == PointerInv /\ [Next]_vars => PointerInv'
<1>1. ASSUME PointerInv, Next PROVE PointerInv'
  BY <1>1, PointerStart, PointerHandler, PointerRestart DEF Next
<1>2. ASSUME PointerInv, UNCHANGED vars PROVE PointerInv'
  BY <1>2 DEF vars, serverVars, roomVars, sessionVars, envVars, PointerInv, TypeOK,
              TaskOK, SessionMapOwnsItsObjects
<1>3. QED
  BY <1>1, <1>2

(* The pointers are always sound.                                          *)
LEMMA PointerAlways == Spec => []PointerInv
<1>1. Init => PointerInv
  BY InitIInv DEF IInv
<1>2. QED
  BY <1>1, PointerStep, PTL DEF Spec

(* Every field keeps its type for any number of clients and servers, and   *)
(* the session, room and battle pointer a handler follows at each of its   *)
(* steps was set by an earlier one and, the session, for a client.  Not    *)
(* that what it points to is still listed: Response_Match_RoomInfo reads a *)
(* battle entry that Free_BattleInfo may have deleted.                     *)
THEOREM TypeCorrect == Spec => [](TypeOK /\ PointersSet)
<1>1. PointerInv => TypeOK /\ PointersSet
  BY DEF PointerInv, PointersSet, TaskOK
<1>2. QED
  BY <1>1, PointerAlways, PTL

(* Free_Session, Clear_WaitRoom and Alloc_Session agree on who owns a      *)
(* session object, however the worker threads interleave: the pool never   *)
(* hands out one the map still reaches, and each client finds its own.     *)
THEOREM SessionsOwned == Spec => []SessionMapOwnsItsObjects
<1>1. PointerInv => SessionMapOwnsItsObjects
  BY DEF PointerInv
<1>2. QED
  BY <1>1, PointerAlways, PTL

-----------------------------------------------------------------------------
(* The battle servers, their entries and their rooms.  A battle server that*)
(* leaves gives up its rooms, then its entry, then its connection, and no  *)
(* other connection has its number.                                        *)

(* A step that touches no server record, adds no room and neither starts   *)
(* nor advances a leave.                                                   *)
LEMMA BattleKeep ==
    ASSUME TypeOK, BattleInv,
           UNCHANGED <<serverList, server, battleInfoList, curBattleID>>,
           roomList' \subseteq roomList,
           \A o \in Room : room'[o].serverNo = room[o].serverNo,
           \A d \in Conn :
               \/ task'[d].step = task[d].step
               \/ /\ task[d].step \notin {"lv_rooms", "lv_info", "lv_free"}
                  /\ task'[d].step \notin {"lv_rooms", "lv_info", "lv_free"}
    PROVE  BattleInv'
  BY DEF TypeOK, BattleInv, ServerOK, FromBattle, IsLeaving, ServerNoUnique, BattleNosIssued,
     ListedRoomHasBattle, BattleEntryHasServer

(* A step that changes the record of one connection that owns no entry     *)
(* before it and is no logged in battle server after it.                   *)
LEMMA BattleReplace ==
    ASSUME TypeOK, BattleInv, NEW c \in Conn,
           ~FromBattle(c) \/ task[c].step = "lv_free",
           ~FromBattle(c)', ~IsLeaving(c)',
           \A d \in Conn \ {c} : /\ server'[d] = server[d]
                                 /\ task'[d] = task[d]
                                 /\ d \in serverList' <=> d \in serverList,
           UNCHANGED <<battleInfoList, curBattleID, roomList, room>>
    PROVE  BattleInv'
  BY DEF ServerOK, IsLeaving, BattleInv, FromBattle, BattleEntryHasServer, TypeOK, ServerNoUnique,
     BattleNosIssued, ListedRoomHasBattle

(* A task that is not a step of a leave.                                   *)
Away(t) == t.step \notin {"lv_rooms", "lv_info", "lv_free"}

(* The first region of a request starts no leave.                          *)
LEMMA StartAway ==
    ASSUME NEW c \in Conn,
           \/ \E k \in Key : Request_Match_RoomInfo(c, k) \/ Request_Match_UserEnterFail(c, k)
           \/ \E a \in Account, r \in RoomNo : Request_Battle_UserLogout(c, a, r)
           \/ \E r \in RoomNo, n \in 0 .. MaxUser : Request_Battle_RoomCreated(c, r, n)
           \/ \E r \in RoomNo : Request_Battle_RoomClosed(c, r)
    PROVE  UNCHANGED task \/ \E t : Begin(c, t) /\ Away(t)
<1>1. \A k, p, s : s \in {"alloc", "reserve", "flag"} =>
         Away([Idle EXCEPT !.step = s, !.key = k, !.session = p])
  BY DEF Idle, Away
<1>2. \A r, p : /\ Away([Idle EXCEPT !.step = "flag", !.roomNo = r, !.session = p])
                /\ Away([Idle EXCEPT !.step = "clear", !.roomNo = r])
  BY DEF Idle, Away
<1>3. ASSUME NEW k \in Key, Request_Match_RoomInfo(c, k)
      PROVE  \E t : Begin(c, t) /\ Away(t)
  <2> DEFINE s == IF sessionMap[k] = NoSession THEN "alloc" ELSE "reserve"
  <2>1. Begin(c, [Idle EXCEPT !.step = s, !.key = k, !.session = sessionMap[k]])
    BY <1>3 DEF Request_Match_RoomInfo
  <2>2. s \in {"alloc", "reserve", "flag"}
    OBVIOUS
  <2> HIDE DEF s
  <2>3. QED
    BY <1>1, <2>1, <2>2
<1>4. ASSUME NEW k \in Key, Request_Match_UserEnterFail(c, k)
      PROVE  UNCHANGED task \/ \E t : Begin(c, t) /\ Away(t)
  BY <1>1, <1>4 DEF Request_Match_UserEnterFail
<1>5. ASSUME NEW a \in Account, NEW r \in RoomNo, Request_Battle_UserLogout(c, a, r)
      PROVE  UNCHANGED task \/ \E t : Begin(c, t) /\ Away(t)
  BY <1>2, <1>5 DEF Request_Battle_UserLogout
<1>6. ASSUME NEW r \in RoomNo, NEW n \in 0 .. MaxUser, Request_Battle_RoomCreated(c, r, n)
      PROVE  UNCHANGED task
  BY <1>6 DEF Request_Battle_RoomCreated
<1>7. ASSUME NEW r \in RoomNo, Request_Battle_RoomClosed(c, r)
      PROVE  \E t : Begin(c, t) /\ Away(t)
  BY <1>2, <1>7 DEF Request_Battle_RoomClosed
<1>8. QED
  BY <1>3, <1>4, <1>5, <1>6, <1>7

(* The first region of every handler keeps rooms and battle entries        *)
(* together.                                                               *)
LEMMA BattleStart ==
    ASSUME TypeOK, BattleInv, NEW c \in Conn, Start(c)
    PROVE  BattleInv'
<1> USE DEF serverVars, roomVars, sessionVars, envVars
<1>t. task \in [Conn -> TaskRec] /\ server \in [Conn -> ServerRec]
      /\ room \in [Room -> RoomRec]
  BY DEF TypeOK
<1>i. Idle.step = "idle"
  BY DEF Idle
<1>1. CASE OnClientJoin(c)
  BY <1>1, <1>t, BattleReplace DEF OnClientJoin, BattleInv, ServerOK, FromBattle, NewServer,
     IsLeaving
<1>2. CASE \/ \E ok \in BOOLEAN : Request_Match_Login(c, ok)
           \/ Request_Battle_Login_BadToken(c) \/ OnClientLeave(c)
  <2>1. ~FromBattle(c) /\ task[c] = Idle
        /\ UNCHANGED <<battleInfoList, curBattleID, roomList, room, task>>
        /\ (serverList' = serverList \/ serverList' = serverList \ {c})
    BY <1>2 DEF Request_Match_Login, Request_Battle_Login_BadToken, OnClientLeave,
                FromBattle, CanStart
  <2>2. PICK rec : server' = [server EXCEPT ![c] = rec]
                   /\ ~(rec.serverType = "BATTLE" /\ rec.bLogin)
    <3>1. ASSUME NEW ok \in BOOLEAN, Request_Match_Login(c, ok)
          PROVE  \E rec : server' = [server EXCEPT ![c] = rec] /\ rec.serverType = "MATCH"
      <4> DEFINE rec == [serverType |-> "MATCH", serverNo |-> 0, bLogin |-> ok]
      <4>1. server' = [server EXCEPT ![c] = rec]
        BY <3>1 DEF Request_Match_Login
      <4>2. rec.serverType = "MATCH"
        OBVIOUS
      <4> HIDE DEF rec
      <4>3. QED
        BY <4>1, <4>2
    <3>2. CASE Request_Battle_Login_BadToken(c)
      <4>1. [serverType |-> "BATTLE", serverNo |-> 0, bLogin |-> FALSE].bLogin = FALSE
        OBVIOUS
      <4>2. QED
        BY <3>2, <4>1 DEF Request_Battle_Login_BadToken
    <3>3. CASE OnClientLeave(c)
      <4>1. NewServer.serverType = "NONE"
        BY DEF NewServer
      <4>2. QED
        BY <3>3, <4>1 DEF OnClientLeave
    <3>4. QED
      BY <1>2, <3>1, <3>2, <3>3
  <2>3. server'[c] = rec /\ \A d \in Conn \ {c} : server'[d] = server[d]
    BY <1>t, <2>2
  <2>4. ~FromBattle(c)' /\ ~IsLeaving(c)'
    BY <1>i, <2>1, <2>2, <2>3 DEF FromBattle, IsLeaving
  <2>5. QED
    BY <2>1, <2>3, <2>4, BattleReplace
<1>3. CASE Request_Battle_Login(c)
  <2> DEFINE n == curBattleID + 1
  <2>1. /\ server[c].serverType = "NONE" /\ c \in serverList /\ task[c].step = "idle"
        /\ curBattleID' = n /\ battleInfoList' = battleInfoList \cup {n}
        /\ server' = [server EXCEPT ![c] = [serverType |-> "BATTLE", serverNo |-> n,
                                            bLogin |-> TRUE]]
        /\ UNCHANGED <<serverList, roomList, room, task>>
    BY <1>3, <1>i DEF Request_Battle_Login, CanStart
  <2>2. /\ server'[c].serverType = "BATTLE" /\ server'[c].bLogin
        /\ server'[c].serverNo = n
        /\ \A d \in Conn \ {c} : server'[d] = server[d]
    BY <1>t, <2>1
  <2>3. curBattleID \in Nat /\ n \in Nat /\ curBattleID < n
        /\ (\A d \in Conn : server[d].serverNo \in Nat)
        /\ \A s \in battleInfoList : s \in Nat /\ s # n /\ s <= curBattleID
    BY <1>t, MasterAssumption DEF TypeOK, ServerNo, ServerRec, BattleInv, BattleNosIssued
  <2>4. \A d \in Conn : FromBattle(d) => server[d].serverNo # n
    BY <2>3 DEF BattleInv, ServerOK
  <2> HIDE DEF n
  <2>5. \A d \in Conn \ {c} : ServerOK(d)'
    <3>1. TAKE d \in Conn \ {c}
    <3>2. ServerOK(d)
      BY DEF BattleInv
    <3>3. FromBattle(d)' <=> FromBattle(d)
      BY <2>2 DEF FromBattle
    <3>4. IsLeaving(d) => server[d].serverNo # n
      BY <2>4, <3>2 DEF ServerOK
    <3>5. task[d].step = "lv_free" => IsLeaving(d)
      BY DEF IsLeaving
    <3>6. server[d].serverNo <= curBattleID => server[d].serverNo <= n
      BY <2>3
    <3>7. QED
      BY <2>1, <2>2, <3>2, <3>3, <3>4, <3>5, <3>6 DEF ServerOK, IsLeaving
  <2>6. ServerOK(c)'
    BY <2>1, <2>2, <2>3 DEF ServerOK, IsLeaving, FromBattle
  <2>7. ServerNoUnique'
    BY <2>2, <2>4 DEF BattleInv, ServerNoUnique, FromBattle
  <2>8. BattleNosIssued' /\ ListedRoomHasBattle'
    BY <2>1, <2>3 DEF BattleInv, BattleNosIssued, ListedRoomHasBattle
  <2>9. BattleEntryHasServer'
    BY <2>1, <2>2 DEF BattleEntryHasServer, FromBattle, BattleInv, TypeOK
  <2>10. QED
    BY <2>5, <2>6, <2>7, <2>8, <2>9 DEF BattleInv
<1>4. CASE OnBattleLeave(c)
  <2>1. UNCHANGED <<serverList, server, battleInfoList, curBattleID, roomList, room>>
        /\ FromBattle(c) /\ task[c].step = "idle" /\ Goto(c, "lv_rooms")
    BY <1>4, <1>i DEF OnBattleLeave, CanStart
  <2>2. task'[c].step = "lv_rooms" /\ \A d \in Conn \ {c} : task'[d] = task[d]
    BY <1>t, <2>1, GotoTask DEF Steps
  <2>3. \A d \in Conn : ServerOK(d)'
    BY <2>1, <2>2 DEF BattleInv, ServerOK, FromBattle, IsLeaving
  <2>4. QED
    BY <2>1, <2>3 DEF BattleInv, ServerNoUnique, BattleNosIssued, ListedRoomHasBattle,
                      BattleEntryHasServer, FromBattle
<1>5. ASSUME NEW r \in RoomNo, NEW m \in 0 .. MaxUser, Request_Battle_RoomCreated(c, r, m)
      PROVE  BattleInv'
  <2>1. /\ UNCHANGED <<serverList, server, battleInfoList, curBattleID, task>>
        /\ FromBattle(c) /\ task[c].step = "idle"
    BY <1>5, <1>i DEF Request_Battle_RoomCreated, CanStart
  <2>2. PICK o \in Room : /\ roomList' = roomList \cup {o}
                          /\ room'[o].serverNo = server[c].serverNo
                          /\ \A q \in Room \ {o} : room'[q] = room[q]
    BY <1>5, <1>t DEF Request_Battle_RoomCreated
  <2>3. server[c].serverNo \in battleInfoList
    BY <2>1 DEF BattleInv, ServerOK
  <2>4. ListedRoomHasBattle'
    BY <2>1, <2>2, <2>3 DEF BattleInv, ListedRoomHasBattle, TypeOK
  <2>5. \A d \in Conn : task[d].step \in {"lv_info", "lv_free"} =>
             d # c /\ FromBattle(d) /\ server[d].serverNo # server[c].serverNo
    BY <2>1 DEF BattleInv, ServerOK, IsLeaving, ServerNoUnique
  <2>6. \A d \in Conn : ServerOK(d)'
    BY <2>1, <2>2, <2>5 DEF BattleInv, ServerOK, FromBattle, IsLeaving, TypeOK
  <2>7. QED
    BY <2>1, <2>4, <2>6 DEF BattleInv, ServerNoUnique, BattleNosIssued,
                            BattleEntryHasServer, FromBattle
<1>6. CASE \/ \E k \in Key : Request_Match_RoomInfo(c, k) \/ Request_Match_UserEnterFail(c, k)
           \/ \E a \in Account, r \in RoomNo : Request_Battle_UserLogout(c, a, r)
           \/ \E r \in RoomNo : Request_Battle_RoomClosed(c, r)
  BY <1>6, <1>i, StartAway, <1>t, BattleKeep DEF Request_Match_RoomInfo,
     Request_Match_UserEnterFail, Request_Battle_UserLogout, Request_Battle_RoomClosed, CanStart,
     Begin, Away
<1>7. QED
  BY <1>1, <1>2, <1>3, <1>4, <1>5, <1>6 DEF Start

(* The later regions keep rooms and battle entries together.               *)
LEMMA BattleHandler ==
    ASSUME TypeOK, BattleInv, NEW c \in Conn, Handler(c)
    PROVE  BattleInv'
<1> USE DEF serverVars, roomVars, sessionVars, envVars
<1>t. task \in [Conn -> TaskRec] /\ server \in [Conn -> ServerRec]
      /\ room \in [Room -> RoomRec]
  BY DEF TypeOK
<1>i. Idle.step = "idle"
  BY DEF Idle
<1>1. CASE Free_BattleInfo_Room(c) \/ Free_BattleInfo_BadIter(c)
             \/ Find_HighPriorityWaitRoom_Crash(c)
  BY <1>1, BattleKeep DEF Free_BattleInfo_Room, Free_BattleInfo_BadIter,
     Find_HighPriorityWaitRoom_Crash
<1>2. CASE Free_BattleInfo_RoomsDone(c)
  <2>1. UNCHANGED <<serverList, server, battleInfoList, curBattleID, roomList, room>>
        /\ roomList = {} /\ Goto(c, "lv_info") /\ task[c].step = "lv_rooms"
    BY <1>2 DEF Free_BattleInfo_RoomsDone, At
  <2>2. task'[c].step = "lv_info" /\ \A d \in Conn \ {c} : task'[d] = task[d]
    BY <1>t, <2>1, GotoTask DEF Steps
  <2>3. \A d \in Conn : ServerOK(d)'
    BY <2>1, <2>2 DEF BattleInv, ServerOK, FromBattle, IsLeaving
  <2>4. QED
    BY <2>1, <2>3 DEF BattleInv, ServerNoUnique, BattleNosIssued, ListedRoomHasBattle,
                      BattleEntryHasServer, FromBattle
<1>3. CASE Free_BattleInfo_Erase(c)
  <2>1. /\ UNCHANGED <<serverList, server, curBattleID, roomList, room>>
        /\ battleInfoList' = battleInfoList \ {server[c].serverNo}
        /\ Goto(c, "lv_free") /\ task[c].step = "lv_info"
    BY <1>3 DEF Free_BattleInfo_Erase, At
  <2>2. task'[c].step = "lv_free" /\ \A d \in Conn \ {c} : task'[d] = task[d]
    BY <1>t, <2>1, GotoTask DEF Steps
  <2>3. FromBattle(c) /\ \A o \in roomList : room[o].serverNo # server[c].serverNo
    BY <2>1 DEF BattleInv, ServerOK, IsLeaving
  <2>4. \A d \in Conn \ {c} : FromBattle(d) => server[d].serverNo # server[c].serverNo
    BY <2>3 DEF BattleInv, ServerNoUnique
  <2>5. \A d \in Conn \ {c} : ServerOK(d)'
    BY <2>1, <2>2, <2>4 DEF BattleInv, ServerOK, FromBattle, IsLeaving
  <2>6. ServerOK(c)'
    BY <2>1, <2>2, <2>3 DEF BattleInv, ServerOK, FromBattle, IsLeaving
  <2>7. ListedRoomHasBattle'
    BY <2>1, <2>3 DEF BattleInv, ListedRoomHasBattle
  <2>8. QED
    BY <2>1, <2>5, <2>6, <2>7 DEF BattleInv, ServerNoUnique, BattleNosIssued,
                                  BattleEntryHasServer, FromBattle
<1>4. CASE OnBattleLeave_Free_Server(c)
  BY <1>4, <1>t, ReturnTask, <1>i, BattleReplace DEF OnBattleLeave_Free_Server, At, FromBattle,
     NewServer, IsLeaving
<1>5. CASE Find_HighPriorityWaitRoom(c)
  BY <1>5, <1>t, BattleKeep DEF Find_HighPriorityWaitRoom, At, RoomRec, TaskRec, Begin
<1>b. CASE Response_Match_RoomInfo_Battle(c)
  <2>1. \A s \in battleInfoList : s \in ServerNo
    BY DEF TypeOK
  <2>2. QED
    BY <1>b, <1>t, <1>i, <2>1, BattleTask, ReturnTask, AssignTask, BattleKeep
       DEF Response_Match_RoomInfo_Battle, At
<1>6. CASE \/ Find_HighPriorityWaitRoom_Empty(c)
           \/ Response_Match_RoomInfo_Assign(c) \/ LogOut_Flag(c) \/ Free_Session(c)
           \/ Free_WaitRoom_Clear(c)
  BY <1>6, <1>t, <1>i, ReturnTask, GotoTask, BattleKeep DEF Find_HighPriorityWaitRoom_Empty,
     Response_Match_RoomInfo_Assign, LogOut_Flag, Free_Session,
     Free_WaitRoom_Clear, At, Steps
<1>7. CASE Increment_WaitRoom(c)
  BY <1>7, <1>t, GotoTask, BattleKeep DEF Increment_WaitRoom, At, Steps, RoomRec
<1>8. CASE Alloc_Session(c)
  BY <1>8, <1>t, BattleKeep DEF Alloc_Session, At, TaskRec, Begin
<1>9. QED
  BY <1>1, <1>2, <1>3, <1>4, <1>5, <1>6, <1>7, <1>8, <1>b
     DEF Handler, Leaving, RoomRequest, LogOut

(* Every step keeps rooms and battle entries together.                     *)
LEMMA BattleStep == PointerInv /\ BattleInv /\ [Next]_vars => BattleInv'
<1>1. PointerInv => TypeOK
  BY DEF PointerInv
<1>2. ASSUME BattleInv, Restart PROVE BattleInv'
  <2>1. roomList' = {} /\ battleInfoList' = {} /\ \A c \in Conn : server'[c] = NewServer
    BY <1>2 DEF Restart
  <2>2. \A c \in Conn : task'[c].step = "idle"
    BY <1>2 DEF Restart, Idle
  <2>3. \A c \in Conn : ~FromBattle(c)'
    BY <2>1 DEF FromBattle, NewServer
  <2>4. QED
    BY <2>1, <2>2, <2>3 DEF BattleInv, ServerOK, IsLeaving, ServerNoUnique, BattleNosIssued,
                            ListedRoomHasBattle, BattleEntryHasServer
<1>3. ASSUME TypeOK, BattleInv, Next PROVE BattleInv'
  BY <1>2, <1>3, BattleStart, BattleHandler DEF Next
<1>4. ASSUME BattleInv, UNCHANGED vars PROVE BattleInv'
  BY <1>4 DEF vars, serverVars, roomVars, sessionVars, envVars, BattleInv, ServerOK,
              FromBattle, IsLeaving, ServerNoUnique, BattleNosIssued, ListedRoomHasBattle,
              BattleEntryHasServer
<1>5. QED
  BY <1>1, <1>3, <1>4

(* Rooms and battle entries always agree.                                  *)
LEMMA BattleAlways == Spec => []BattleInv
<1>1. Init => BattleInv
  BY InitIInv DEF IInv
<1>2. QED
  BY <1>1, BattleStep, PointerAlways, PTL DEF Spec

(* A client is never sent to a room whose battle server is gone: each room *)
(* in the list belongs to an entry of the battle list, and each entry to a *)
(* connected battle server, between any two lock regions of any number of  *)
(* worker threads.                                                         *)
THEOREM RoomsHaveServer == Spec => []ListedRoomHasServer
<1>1. BattleInv => ListedRoomHasServer
  BY DEF BattleInv, ListedRoomHasServer
<1>2. QED
  BY <1>1, BattleAlways, PTL

-----------------------------------------------------------------------------
(* The places of the rooms.                                                *)

(* Every step leaves each room a number of places that is not negative.    *)
LEMMA AvailableStep == PointerInv /\ AvailableNonNegative /\ [Next]_vars => AvailableNonNegative'
<1> SUFFICES ASSUME TypeOK, AvailableNonNegative, [Next]_vars
             PROVE  AvailableNonNegative'
  BY DEF PointerInv
<1> USE DEF serverVars, roomVars, sessionVars, envVars
<1>t. room \in [Room -> RoomRec] /\ roomList \subseteq Room
  BY DEF TypeOK
<1>1. CASE roomList' \subseteq roomList /\ UNCHANGED room
  BY <1>1 DEF AvailableNonNegative
<1>2. ASSUME NEW c \in Conn, Find_HighPriorityWaitRoom(c)
      PROVE  AvailableNonNegative'
  BY <1>2, <1>t DEF Find_HighPriorityWaitRoom, OpenRooms, RoomRec, AvailableNonNegative
<1>3. ASSUME NEW c \in Conn, Increment_WaitRoom(c), ~UNCHANGED room
      PROVE  AvailableNonNegative'
  BY <1>3, <1>t DEF Increment_WaitRoom, LogOutRooms, RoomsOf, RoomRec, AvailableNonNegative
<1>4. ASSUME NEW c \in Conn, NEW r \in RoomNo, NEW n \in 0 .. MaxUser,
             Request_Battle_RoomCreated(c, r, n)
      PROVE  AvailableNonNegative'
  BY <1>4, <1>t, MasterAssumption DEF Request_Battle_RoomCreated, AvailableNonNegative
<1>5. CASE Restart
  BY <1>5 DEF Restart, AvailableNonNegative
<1>6. ASSUME NEW c \in Conn, Start(c)
      PROVE  AvailableNonNegative'
  <2>1. \/ roomList' \subseteq roomList /\ UNCHANGED room
        \/ \E r \in RoomNo, n \in 0 .. MaxUser : Request_Battle_RoomCreated(c, r, n)
    BY <1>6 DEF Start, OnClientJoin, Request_Match_Login, Request_Battle_Login,
         Request_Battle_Login_BadToken, OnClientLeave, OnBattleLeave,
         Request_Match_RoomInfo, Request_Match_UserEnterFail, Request_Battle_UserLogout,
         Request_Battle_RoomClosed
  <2>2. QED
    BY <1>1, <1>4, <2>1
<1>7. ASSUME NEW c \in Conn, Handler(c)
      PROVE  AvailableNonNegative'
  <2>1. \/ roomList' \subseteq roomList /\ UNCHANGED room
        \/ Find_HighPriorityWaitRoom(c)
        \/ Increment_WaitRoom(c) /\ ~UNCHANGED room
    BY <1>7 DEF Handler, Leaving, RoomRequest, LogOut, Free_BattleInfo_Room,
         Free_BattleInfo_BadIter, Free_BattleInfo_RoomsDone, Free_BattleInfo_Erase,
         OnBattleLeave_Free_Server, Alloc_Session, Find_HighPriorityWaitRoom_Empty,
         Find_HighPriorityWaitRoom_Crash, Response_Match_RoomInfo_Battle,
         Response_Match_RoomInfo_Assign, LogOut_Flag, Increment_WaitRoom, Free_Session,
         Free_WaitRoom_Clear
  <2>2. QED
    BY <1>1, <1>2, <1>3, <2>1
<1>8. CASE UNCHANGED vars
  BY <1>1, <1>8 DEF vars
<1>9. QED
  BY <1>5, <1>6, <1>7, <1>8 DEF Next

(* A room never gives out a place it does not have, whichever handlers     *)
(* take and give back places side by side: the walk of the room list and   *)
(* the decrement are one region of the room lock.                          *)
THEOREM PlacesNonNegative == Spec => []AvailableNonNegative
<1>1. Init => AvailableNonNegative
  BY InitIInv DEF IInv
<1>2. QED
  BY <1>1, AvailableStep, PointerAlways, PTL DEF Spec

-----------------------------------------------------------------------------
(* The counters of the monitor.                                            *)

Connected(c, t) == c \in serverList /\ server[c].serverType = t
LoggedIn(c, t)  == Connected(c, t) /\ server[c].bLogin /\ ~IsLeaving(c)
One(b)          == IF b THEN 1 ELSE 0

CountInv == IsFiniteSet(serverList) /\ CountersExact

(* Two sets that differ at most in c differ in size by c.                  *)
LEMMA CountOne ==
    ASSUME NEW S, NEW T, NEW c, IsFiniteSet(S), S \ {c} = T \ {c}
    PROVE  /\ IsFiniteSet(T)
           /\ Cardinality(T) = Cardinality(S) + One(c \in T) - One(c \in S)
<1> DEFINE R == S \ {c}
<1>1. /\ IsFiniteSet(R)
      /\ Cardinality(R) = IF c \in S THEN Cardinality(S) - 1 ELSE Cardinality(S)
  BY FS_RemoveElement
<1>2. Cardinality(R) \in Int /\ Cardinality(S) \in Int
  BY <1>1, FS_CardinalityType
<1>3. c \notin R
  OBVIOUS
<1>4. IsFiniteSet(R \cup {c}) /\ Cardinality(R \cup {c}) = Cardinality(R) + 1
  <2> HIDE DEF R
  <2>1. QED
    BY <1>1, <1>3, FS_AddElement
<1>5. CASE c \in T
  <2>1. T = R \cup {c}
    BY <1>5
  <2> HIDE DEF R
  <2>2. QED
    BY <1>1, <1>2, <1>4, <1>5, <2>1 DEF One
<1>6. CASE c \notin T
  <2>1. T = R
    BY <1>6
  <2> HIDE DEF R
  <2>2. QED
    BY <1>1, <1>2, <1>6, <2>1 DEF One
<1>7. QED
  BY <1>5, <1>6

(* The counters stay exact when they change by the one connection that     *)
(* changed.                                                                *)
LEMMA CountConnection ==
    ASSUME CountInv, TypeOK, TypeOK', NEW c \in Conn,
           serverList' \ {c} = serverList \ {c},
           \A d \in Conn \ {c} : server'[d] = server[d] /\ (IsLeaving(d)' <=> IsLeaving(d)),
           \A t \in ServerType :
              /\ connectServer'[t] = connectServer[t] + One(Connected(c, t)')
                                                     - One(Connected(c, t))
              /\ loginServer'[t] = loginServer[t] + One(LoggedIn(c, t)')
                                                 - One(LoggedIn(c, t))
    PROVE  CountInv'
<1>1. serverList \subseteq Conn /\ serverList' \subseteq Conn
  BY DEF TypeOK
<1>2. IsFiniteSet(serverList) /\ IsFiniteSet(serverList')
  BY CountOne DEF CountInv
<1>3. ASSUME NEW t \in ServerType
      PROVE  /\ connectServer'[t] = Cardinality({d \in serverList' : server'[d].serverType = t})
             /\ loginServer'[t] = Cardinality({d \in serverList' :
                                     /\ server'[d].serverType = t
                                     /\ server'[d].bLogin
                                     /\ ~IsLeaving(d)'})
  <2> DEFINE A  == {d \in serverList : server[d].serverType = t}
             AA == {d \in serverList' : server'[d].serverType = t}
             B  == {d \in serverList : /\ server[d].serverType = t
                                       /\ server[d].bLogin
                                       /\ ~IsLeaving(d)}
             BB == {d \in serverList' : /\ server'[d].serverType = t
                                        /\ server'[d].bLogin
                                        /\ ~IsLeaving(d)'}
  <2>1. connectServer[t] = Cardinality(A) /\ loginServer[t] = Cardinality(B)
    BY DEF CountInv, CountersExact
  <2>2. IsFiniteSet(A) /\ IsFiniteSet(B)
    BY <1>2, FS_Subset
  <2>3. A \ {c} = AA \ {c}
    BY <1>1
  <2>4. B \ {c} = BB \ {c}
    BY <1>1
  <2>5. (c \in A <=> Connected(c, t)) /\ (c \in AA <=> Connected(c, t)')
    BY DEF Connected
  <2>6. (c \in B <=> LoggedIn(c, t)) /\ (c \in BB <=> LoggedIn(c, t)')
    BY DEF LoggedIn, Connected
  <2> HIDE DEF A, AA, B, BB
  <2>7. Cardinality(AA) = Cardinality(A) + One(c \in AA) - One(c \in A)
    BY <2>2, <2>3, CountOne
  <2>8. Cardinality(BB) = Cardinality(B) + One(c \in BB) - One(c \in B)
    BY <2>2, <2>4, CountOne
  <2>9. connectServer'[t] = Cardinality(AA) /\ loginServer'[t] = Cardinality(BB)
    BY <2>1, <2>5, <2>6, <2>7, <2>8 DEF One
  <2>10. QED
    BY <2>9 DEF AA, BB
<1>4. QED
  BY <1>2, <1>3 DEF CountInv, CountersExact

(* The counters stay exact where no server comes, goes or starts to leave. *)
LEMMA CountKeep ==
    ASSUME CountInv, TypeOK,
           UNCHANGED <<serverList, server, loginServer, connectServer>>,
           \A d \in Conn : IsLeaving(d)' <=> IsLeaving(d)
    PROVE  CountInv'
  BY DEF TypeOK, CountInv, CountersExact

(* The first region of every handler keeps the counters exact: a login     *)
(* adds what the leave of that connection takes back.                      *)
LEMMA CountStart ==
    ASSUME TypeOK, TypeOK', CountInv, NEW c \in Conn, Start(c)
    PROVE  CountInv'
<1> USE DEF serverVars, roomVars, sessionVars, envVars
<1>t. /\ task \in [Conn -> TaskRec] /\ server \in [Conn -> ServerRec]
      /\ loginServer \in [ServerType -> Int] /\ connectServer \in [ServerType -> Int]
      /\ sessionMap \in [Key -> Session \cup {NoSession}]
  BY DEF TypeOK
<1>i. Idle.step = "idle"
  BY DEF Idle
<1>s. \A d \in Conn : server[d].bLogin \in BOOLEAN
  BY <1>t DEF ServerRec
<1>1. CASE OnClientJoin(c)
  BY <1>1, <1>t, CountConnection DEF OnClientJoin, NewServer, Connected, LoggedIn, ServerType,
     IsLeaving, One
<1>2. ASSUME NEW ty \in ServerType, NEW no, NEW ok \in BOOLEAN, CanStart(c),
             server[c].serverType = "NONE",
             server' = [server EXCEPT ![c] = [serverType |-> ty, serverNo |-> no,
                                              bLogin |-> ok]],
             connectServer' = [connectServer EXCEPT ![ty] = @ + 1],
             loginServer' = [loginServer EXCEPT ![ty] = IF ok THEN @ + 1 ELSE @],
             UNCHANGED <<serverList, task>>
      PROVE  CountInv'
  BY <1>2, <1>i, <1>t, CountConnection DEF CanStart, Connected, LoggedIn, IsLeaving, ServerType,
     One
<1>3. ASSUME NEW ok \in BOOLEAN, Request_Match_Login(c, ok)
      PROVE  CountInv'
  BY <1>2, <1>3 DEF Request_Match_Login, ServerType
<1>4. CASE Request_Battle_Login(c)
  BY <1>2, <1>4 DEF Request_Battle_Login, ServerType
<1>5. CASE Request_Battle_Login_BadToken(c)
  BY <1>t, <1>5, <1>2 DEF Request_Battle_Login_BadToken, ServerType
<1>6. CASE OnClientLeave(c)
  BY <1>6, <1>i, <1>t, CountConnection DEF OnClientLeave, CanStart, IsLeaving, Connected, LoggedIn,
     DecrementConnect, One, DecrementLogin
<1>7. CASE OnBattleLeave(c)
  BY <1>7, <1>i, <1>t, GotoTask, CountConnection DEF OnBattleLeave, CanStart, Steps, IsLeaving,
     Connected, LoggedIn, FromBattle, DecrementLogin, One
<1>8. CASE \/ \E k \in Key : Request_Match_RoomInfo(c, k) \/ Request_Match_UserEnterFail(c, k)
           \/ \E a \in Account, r \in RoomNo : Request_Battle_UserLogout(c, a, r)
           \/ \E r \in RoomNo, n \in 0 .. MaxUser : Request_Battle_RoomCreated(c, r, n)
           \/ \E r \in RoomNo : Request_Battle_RoomClosed(c, r)
  BY <1>8, <1>i, StartAway, <1>t, CountKeep DEF Request_Match_RoomInfo,
     Request_Match_UserEnterFail, Request_Battle_UserLogout, Request_Battle_RoomCreated,
     Request_Battle_RoomClosed, CanStart, Begin, IsLeaving, Away
<1>9. QED
  BY <1>1, <1>3, <1>4, <1>5, <1>6, <1>7, <1>8 DEF Start

(* The later regions keep the counters exact: a battle server that leaves  *)
(* is no longer logged in, and stays connected until its last region.      *)
LEMMA CountHandler ==
    ASSUME TypeOK, TypeOK', BattleInv, CountInv, NEW c \in Conn, Handler(c)
    PROVE  CountInv'
<1> USE DEF serverVars, roomVars, sessionVars, envVars
<1>t. /\ task \in [Conn -> TaskRec] /\ server \in [Conn -> ServerRec]
      /\ loginServer \in [ServerType -> Int] /\ connectServer \in [ServerType -> Int]
  BY DEF TypeOK
<1>1. CASE Free_BattleInfo_Room(c) \/ Free_BattleInfo_BadIter(c)
             \/ Find_HighPriorityWaitRoom_Crash(c)
  BY <1>1, CountKeep DEF Free_BattleInfo_Room, Free_BattleInfo_BadIter,
     Find_HighPriorityWaitRoom_Crash, IsLeaving
<1>2. CASE Free_BattleInfo_RoomsDone(c) \/ Free_BattleInfo_Erase(c)
  BY <1>2, <1>t, GotoTask, CountKeep DEF Free_BattleInfo_RoomsDone, Free_BattleInfo_Erase, At,
     Steps, IsLeaving
<1>3. CASE OnBattleLeave_Free_Server(c)
  BY <1>3, <1>t, ReturnTask, CountConnection DEF OnBattleLeave_Free_Server, At, IsLeaving,
     BattleInv, ServerOK, Connected, LoggedIn, DecrementConnect, One
<1>4. CASE RoomRequest(c) \/ LogOut(c) \/ Free_WaitRoom_Clear(c)
  <2>1. /\ UNCHANGED <<serverList, server, loginServer, connectServer>>
        /\ Away(task[c])
    BY <1>4 DEF RoomRequest, LogOut, Alloc_Session, Find_HighPriorityWaitRoom,
         Find_HighPriorityWaitRoom_Empty, Find_HighPriorityWaitRoom_Crash,
         Response_Match_RoomInfo_Battle, Response_Match_RoomInfo_Assign, LogOut_Flag,
         Increment_WaitRoom, Free_Session, Free_WaitRoom_Clear, At, Away
  <2>2. CASE Alloc_Session(c)
    BY <2>2, <1>t, <2>1, CountKeep DEF Alloc_Session, TaskRec, Begin, IsLeaving, Away
  <2>3. CASE Find_HighPriorityWaitRoom(c)
    BY <2>3, <1>t, <2>1, CountKeep DEF Find_HighPriorityWaitRoom, TaskRec, Begin, IsLeaving, Away
  <2>4. CASE Find_HighPriorityWaitRoom_Crash(c)
    BY <1>1, <2>4
  <2>5. CASE ~Alloc_Session(c) /\ ~Find_HighPriorityWaitRoom(c)
               /\ ~Find_HighPriorityWaitRoom_Crash(c)
    <3>1. \/ Return(c) \/ \E s \in {"incr", "free"} : Goto(c, s)
          \/ \E s \in battleInfoList :
               Begin(c, [task[c] EXCEPT !.step = "assign", !.battle = s])
      BY <1>4, <2>5 DEF RoomRequest, LogOut, Find_HighPriorityWaitRoom_Empty,
           Response_Match_RoomInfo_Battle, Response_Match_RoomInfo_Assign, LogOut_Flag,
           Increment_WaitRoom, Free_Session, Free_WaitRoom_Clear
    <3>2. /\ \A d \in Conn \ {c} : task'[d] = task[d]
          /\ Away(task'[c])
      <4>1. CASE \/ Return(c)
                 \/ \E s \in {"incr", "free"} : Goto(c, s)
        BY <1>t, <4>1, ReturnTask, GotoTask DEF Steps, Idle, Away
      <4>2. ASSUME NEW s \in battleInfoList,
                   Begin(c, [task[c] EXCEPT !.step = "assign", !.battle = s])
            PROVE  /\ \A d \in Conn \ {c} : task'[d] = task[d]
                   /\ Away(task'[c])
        BY <1>t, <4>2, AssignTask DEF Away, TypeOK
      <4>3. QED
        BY <3>1, <4>1, <4>2
    <3>3. QED
      BY <2>1, <3>2, CountKeep DEF IsLeaving, Away
  <2>6. QED
    BY <2>2, <2>3, <2>4, <2>5
<1>5. QED
  BY <1>1, <1>2, <1>3, <1>4 DEF Handler, Leaving

(* Every step keeps the counters exact; a restart starts them again.       *)
LEMMA CountStep ==
    TypeOK /\ TypeOK' /\ BattleInv /\ CountInv /\ [Next]_vars => CountInv'
<1> SUFFICES ASSUME TypeOK, TypeOK', BattleInv, CountInv, [Next]_vars
             PROVE  CountInv'
  OBVIOUS
<1>1. CASE Restart
  BY <1>1, FS_EmptySet DEF Restart, CountInv, CountersExact
<1>2. CASE UNCHANGED vars
  BY <1>2, CountKeep DEF vars, serverVars, roomVars, sessionVars, envVars, IsLeaving
<1>3. QED
  BY <1>1, <1>2, CountStart, CountHandler DEF Next

(* The counters the monitor shows are those of the servers there are, at   *)
(* every lock region of any number of worker threads and of the leaves     *)
(* they are in: a login with a wrong token, a leave that gives up its rooms*)
(* first and a restart included.  No room gives out a place it does not    *)
(* have.                                                                   *)
THEOREM MasterCountsSound == Spec => []CountsSound
<1>1. Init => CountInv
  BY FS_EmptySet DEF Init, StartState, CountInv, CountersExact
<1>2. CountInv /\ TypeOK /\ PointersSet /\ AvailableNonNegative => CountsSound
  BY DEF CountInv, CountsSound
<1>3. QED
  BY <1>1, <1>2, CountStep, TypeCorrect, BattleAlways, PlacesNonNegative, PTL DEF Spec
-----------------------------------------------------------------------------
(* Handlers that follow each other: each of more than one lock region ends *)
(* before the next of that kind begins, as they all do with one worker, so *)
(* what one of them found is still there when it comes to use it.  Those of*)
(* one region only may come between.                                       *)

(* There is a place to give in a room beside those its clients wait for.   *)
Spare(o) == room[o].available + Cardinality(Awaited(o)) < room[o].maxUser

(* The client whose session a log out deals with.                          *)
HeldKey(c) == IF task[c].key = NoKey THEN session[task[c].session].clientKey
              ELSE task[c].key

(* What the handler of c knows of the session and the room it holds on to. *)
HoldsPlace(c) ==
    LET t == task[c]
    IN  /\ t.step = "alloc" => sessionMap[t.key] = NoSession
        /\ t.step \in {"reserve", "battle", "assign"}
             => t.key \in Key /\ sessionMap[t.key] = t.session
        /\ t.step \in {"battle", "assign"} => t.room \in roomList /\ Spare(t.room)
        /\ t.step \in {"flag", "incr", "free"}
             => HeldKey(c) \in Key /\ sessionMap[HeldKey(c)] = t.session
        /\ t.step \in {"flag", "incr"} /\ t.key = NoKey
             => t.roomNo = session[t.session].roomNo
        /\ t.step = "incr" => \A o \in LogOutRooms(t) : Spare(o)
        /\ t.step = "clear" => c \in serverList /\ FromBattle(c)

OneHandler ==
    \A c, d \in Conn : task[c].step # "idle" /\ task[d].step # "idle" => c = d

(* A session that was logged out is about to leave the map.                *)
FlaggedLeave ==
    \A k \in Key : sessionMap[k] # NoSession /\ session[sessionMap[k]].bLogOut =>
        \E c \in Conn : /\ task[c].step \in {"incr", "free"}
                        /\ task[c].session = sessionMap[k]

ListedRoomHasNo == \A o \in roomList : room[o].roomNo # 0
ListedRoomUnique ==
    \A o, q \in roomList :
        room[o].serverNo = room[q].serverNo /\ room[o].roomNo = room[q].roomNo => o = q

(* A session outlives its room only until the clients of the room are      *)
(* cleared.                                                                *)
Clearing(c, s, r) == /\ task[c].step = "clear"
                     /\ server[c].serverNo = s
                     /\ task[c].roomNo = r
SessionRoomed ==
    \A k \in Key : LET p == sessionMap[k] IN
        p # NoSession /\ session[p].roomNo # 0 =>
            \/ RoomsOf(session[p].serverNo, session[p].roomNo) # {}
            \/ \E c \in Conn : Clearing(c, session[p].serverNo, session[p].roomNo)

Mapped == {k \in Key : sessionMap[k] # NoSession}

RoomsInv == ListedRoomHasNo /\ ListedRoomUnique /\ SlotsNotOverbooked
MapInv   == IsFiniteSet(Mapped) /\ FlaggedLeave /\ SessionRoomed

PlacesInv == OneHandler /\ RoomsInv /\ MapInv /\ \A c \in Conn : HoldsPlace(c)

(* With one worker a handler starts when no other is under way, ...        *)
LEMMA StartAlone ==
    ASSUME WorkerCnt = 1, OneHandler, NEW c \in Conn, CanStart(c)
    PROVE  \A d \in Conn : task[d].step = "idle"
<1>1. SUFFICES ASSUME NEW d \in Conn, task[d].step # "idle" PROVE FALSE
  OBVIOUS
<1>2. Busy = {d}
  BY <1>1 DEF Busy, OneHandler
<1>3. Cardinality(Busy) = 1
  BY <1>2, FS_Singleton
<1>4. QED
  BY <1>3 DEF CanStart

(* ... and goes on alone.                                                  *)
LEMMA HandlerAlone ==
    ASSUME OneHandler, NEW c \in Conn, task[c].step # "idle"
    PROVE  \A d \in Conn \ {c} : task[d].step = "idle"
  BY DEF OneHandler

(* A handler that is not under way holds nothing.                          *)
LEMMA IdleHolds ==
    ASSUME NEW c \in Conn, task[c].step = "idle" PROVE HoldsPlace(c)
  BY DEF HoldsPlace

(* The clients awaited in a room are some of those in the map.             *)
LEMMA AwaitedFinite ==
    ASSUME IsFiniteSet(Mapped), NEW o
    PROVE  IsFiniteSet(Awaited(o)) /\ Cardinality(Awaited(o)) \in Nat
  BY FS_Subset, FS_CardinalityType DEF Awaited, KeysIn, Mapped

(* A room that awaits no more clients than before, in no more places, has  *)
(* as many to spare.                                                       *)
LEMMA AwaitsFewer ==
    ASSUME TypeOK, TypeOK', IsFiniteSet(Mapped), NEW o \in Room,
           Awaited(o)' \subseteq Awaited(o),
           room'[o].available <= room[o].available, room'[o].maxUser = room[o].maxUser
    PROVE  /\ Spare(o) => Spare(o)'
           /\ room[o].available + Cardinality(Awaited(o)) <= room[o].maxUser
              => room'[o].available + Cardinality(Awaited(o)') <= room'[o].maxUser
<1>1. /\ IsFiniteSet(Awaited(o)) /\ Cardinality(Awaited(o)) \in Nat
      /\ IsFiniteSet(Awaited(o)') /\ Cardinality(Awaited(o)') \in Nat
      /\ Cardinality(Awaited(o)') <= Cardinality(Awaited(o))
  BY AwaitedFinite, FS_Subset, FS_CardinalityType
<1>2. /\ room[o].available \in Int /\ room[o].maxUser \in Int
      /\ room'[o].available \in Int
  BY DEF TypeOK, RoomRec
<1>3. QED
  BY <1>1, <1>2 DEF Spare

(* Clients that leave the map, and rooms that leave the list, take no place*)
(* from the others.                                                        *)
LEMMA RoomsKeep ==
    ASSUME TypeOK, TypeOK', RoomsInv, MapInv, UNCHANGED <<room, session>>,
           roomList' \subseteq roomList,
           \A k \in Key : sessionMap'[k] \in {sessionMap[k], NoSession}
    PROVE  /\ RoomsInv'
           /\ IsFiniteSet(Mapped')
           /\ \A o \in Room : Spare(o) => Spare(o)'
<1>1. Mapped' \subseteq Mapped
  BY DEF Mapped
<1>2. IsFiniteSet(Mapped) /\ IsFiniteSet(Mapped')
  BY <1>1, FS_Subset DEF MapInv
<1>3. ASSUME NEW o \in Room PROVE Awaited(o)' \subseteq Awaited(o)
  BY DEF Awaited, KeysIn
<1>4. \A o \in Room :
        /\ Spare(o) => Spare(o)'
        /\ room[o].available + Cardinality(Awaited(o)) <= room[o].maxUser
           => room'[o].available + Cardinality(Awaited(o)') <= room'[o].maxUser
  BY <1>2, <1>3, AwaitsFewer DEF TypeOK, RoomRec
<1>5. QED
  BY <1>2, <1>4 DEF RoomsInv, ListedRoomHasNo, ListedRoomUnique, SlotsNotOverbooked, TypeOK

(* The handler of c goes on alone: what the others hold is as it was.      *)
Alone(c) == \A d \in Conn \ {c} : task[d].step = "idle" /\ task'[d] = task[d]

(* The parts of the invariant make the whole.                              *)
LEMMA PlacesParts ==
    ASSUME NEW c \in Conn, Alone(c), RoomsInv', MapInv', HoldsPlace(c)'
    PROVE  PlacesInv'
  BY DEF Alone, OneHandler, HoldsPlace, PlacesInv

(* While nobody clears a room or logs a client out, every session in the   *)
(* map is wanted and has its room.                                         *)
LEMMA MapCalm ==
    ASSUME MapInv, NEW c \in Conn, \A d \in Conn \ {c} : task[d].step = "idle",
           task[c].step \notin {"clear", "incr", "free"}, NEW k \in Key,
           sessionMap[k] # NoSession
    PROVE  /\ ~session[sessionMap[k]].bLogOut
           /\ session[sessionMap[k]].roomNo # 0 =>
                RoomsOf(session[sessionMap[k]].serverNo, session[sessionMap[k]].roomNo) # {}
  BY DEF MapInv, FlaggedLeave, SessionRoomed, Clearing

(* A step that touches neither rooms nor sessions.                         *)
LEMMA PlacesQuiet ==
    ASSUME TypeOK, PlacesInv, NEW c \in Conn, Alone(c),
           UNCHANGED <<room, roomList, sessionMap, session>>,
           task[c].step \notin {"clear", "incr", "free"}, HoldsPlace(c)'
    PROVE  PlacesInv'
<1>1. RoomsInv' /\ Mapped' = Mapped
  BY DEF PlacesInv, RoomsInv, ListedRoomHasNo, ListedRoomUnique, SlotsNotOverbooked,
         Awaited, KeysIn, Mapped
<1>2. ASSUME NEW k \in Key, sessionMap[k] # NoSession
      PROVE  /\ ~session[sessionMap[k]].bLogOut
             /\ session[sessionMap[k]].roomNo # 0 =>
                  RoomsOf(session[sessionMap[k]].serverNo, session[sessionMap[k]].roomNo)' # {}
  BY <1>2, MapCalm DEF PlacesInv, Alone, RoomsOf
<1>3. MapInv'
  BY <1>1, <1>2 DEF PlacesInv, MapInv, FlaggedLeave, SessionRoomed
<1>4. QED
  BY <1>1, <1>3, PlacesParts

(* The same, for a step that does not touch the tasks either.              *)
LEMMA PlacesStill ==
    ASSUME TypeOK, PlacesInv, NEW c \in Conn, Alone(c),
           UNCHANGED <<room, roomList, sessionMap, session, task>>,
           task[c].step \notin {"clear", "incr", "free"}
    PROVE  PlacesInv'
  BY PlacesQuiet DEF PlacesInv, Spare, Awaited, KeysIn, HoldsPlace, HeldKey, LogOutRooms, RoomsOf

-----------------------------------------------------------------------------
(* The first region of a handler.                                          *)

(* A room that is announced is new, so nobody is awaited in it.            *)
LEMMA PlacesCreated ==
    ASSUME TypeOK, TypeOK', PlacesInv, NEW c \in Conn, Alone(c), task[c].step = "idle",
           NEW r \in RoomNo, NEW n \in 0 .. MaxUser, Request_Battle_RoomCreated(c, r, n)
    PROVE  PlacesInv'
<1> USE MasterAssumption DEF roomVars, sessionVars
<1>1. PICK o \in Room \ roomList :
        /\ room' = [room EXCEPT ![o] = [serverNo |-> server[c].serverNo, roomNo |-> r,
                                        available |-> n, maxUser |-> n]]
        /\ roomList' = roomList \cup {o}
  BY DEF Request_Battle_RoomCreated
<1>2. /\ RoomsOf(server[c].serverNo, r) = {}
      /\ UNCHANGED <<sessionMap, session, task>>
  BY DEF Request_Battle_RoomCreated
<1>3. /\ room \in [Room -> RoomRec] /\ roomList \subseteq Room
      /\ r # 0 /\ n \in Int
  BY DEF TypeOK
<1>4. /\ room'[o] = [serverNo |-> server[c].serverNo, roomNo |-> r,
                     available |-> n, maxUser |-> n]
      /\ \A q \in Room \ {o} : room'[q] = room[q]
  BY <1>1, <1>3
<1>5. ASSUME NEW k \in Key, sessionMap[k] # NoSession
      PROVE  /\ ~session[sessionMap[k]].bLogOut
             /\ session[sessionMap[k]].roomNo # 0 =>
                  RoomsOf(session[sessionMap[k]].serverNo, session[sessionMap[k]].roomNo) # {}
  BY <1>5, MapCalm DEF PlacesInv, Alone
<1>6. Awaited(o)' = {}
  BY <1>2, <1>3, <1>4, <1>5 DEF Awaited, KeysIn
<1>7. \A q \in roomList : Awaited(q)' = Awaited(q)
  BY <1>1, <1>2, <1>3, <1>4 DEF Awaited, KeysIn
<1>8. RoomsInv'
  <2>1. ListedRoomHasNo'
    BY <1>1, <1>3, <1>4 DEF PlacesInv, RoomsInv, ListedRoomHasNo
  <2>u. ListedRoomUnique'
    BY <1>1, <1>2, <1>3, <1>4 DEF PlacesInv, RoomsInv, ListedRoomUnique, RoomsOf
  <2>2. room'[o].available + Cardinality(Awaited(o)') <= room'[o].maxUser
    BY <1>3, <1>4, <1>6, FS_EmptySet
  <2>3. \A q \in roomList : room'[q].available + Cardinality(Awaited(q)') <= room'[q].maxUser
    BY <1>1, <1>3, <1>4, <1>7 DEF PlacesInv, RoomsInv, SlotsNotOverbooked
  <2>4. QED
    BY <1>1, <2>1, <2>u, <2>2, <2>3 DEF RoomsInv, SlotsNotOverbooked
<1>9. MapInv'
  BY <1>1, <1>3, <1>4, <1>2, <1>5 DEF RoomsOf, Mapped, FlaggedLeave, SessionRoomed, PlacesInv,
     MapInv
<1>10. HoldsPlace(c)'
  BY <1>2 DEF HoldsPlace
<1>11. QED
  BY <1>8, <1>9, <1>10, PlacesParts

(* A room that is closed leaves clients without one, until its handler     *)
(* comes to clear them.                                                    *)
LEMMA PlacesClosed ==
    ASSUME TypeOK, TypeOK', PlacesInv, NEW c \in Conn, Alone(c), task[c].step = "idle",
           NEW r \in RoomNo, Request_Battle_RoomClosed(c, r)
    PROVE  PlacesInv'
<1> USE DEF roomVars, sessionVars, serverVars
<1>1. /\ roomList' \subseteq roomList
      /\ roomList \ roomList' \subseteq RoomsOf(server[c].serverNo, r)
      /\ UNCHANGED <<room, sessionMap, session, server>>
  BY DEF Request_Battle_RoomClosed
<1>2. task'[c] = [Idle EXCEPT !.step = "clear", !.roomNo = r]
  BY DEF Request_Battle_RoomClosed, Begin, TypeOK
<1>3. task'[c].step = "clear" /\ task'[c].roomNo = r
  BY <1>2 DEF Idle
<1>4. RoomsInv' /\ IsFiniteSet(Mapped')
  BY <1>1, RoomsKeep DEF PlacesInv
<1>5. ASSUME NEW k \in Key, sessionMap[k] # NoSession
      PROVE  /\ ~session[sessionMap[k]].bLogOut
             /\ session[sessionMap[k]].roomNo # 0 =>
                  RoomsOf(session[sessionMap[k]].serverNo, session[sessionMap[k]].roomNo) # {}
  BY <1>5, MapCalm DEF PlacesInv, Alone
<1>6. ASSUME NEW s, NEW no, RoomsOf(s, no) # {}
      PROVE  RoomsOf(s, no)' # {} \/ Clearing(c, s, no)'
  BY <1>1, <1>3, <1>6 DEF RoomsOf, Clearing
<1>7. FlaggedLeave'
  BY <1>1, <1>5 DEF FlaggedLeave
<1>8. SessionRoomed'
  BY <1>1, <1>5, <1>6 DEF SessionRoomed
<1>9. HoldsPlace(c)'
  BY <1>1, <1>3 DEF HoldsPlace, Request_Battle_RoomClosed, CanStart, FromBattle
<1>10. QED
  BY <1>4, <1>7, <1>8, <1>9, PlacesParts DEF MapInv

(* While a handler is under way only one of a single region may start: it  *)
(* leaves no task behind.                                                  *)
LEMMA StartBeside ==
    ASSUME TypeOK, OneHandler', NEW c \in Conn, Start(c), CanStart(c),
           NEW d \in Conn, task[d].step # "idle"
    PROVE  UNCHANGED task
<1> USE DEF sessionVars, roomVars, serverVars
<1>0. task \in [Conn -> TaskRec] /\ task[c] = Idle /\ c # d
  BY DEF TypeOK, CanStart, Idle
<1>1. ASSUME NEW t, Begin(c, t), t.step # "idle"
      PROVE  FALSE
  BY <1>0, <1>1 DEF Begin, OneHandler
<1>2. ASSUME Goto(c, "lv_rooms")
      PROVE  FALSE
  BY <1>0, <1>2, GotoTask DEF Steps, OneHandler
<1>3. ASSUME NEW k \in Key
      PROVE  /\ ~Request_Match_RoomInfo(c, k)
             /\ Request_Match_UserEnterFail(c, k) => UNCHANGED task
  <2> DEFINE t == [Idle EXCEPT !.step = IF sessionMap[k] = NoSession THEN "alloc" ELSE "reserve",
                               !.key = k, !.session = sessionMap[k]]
             u == [Idle EXCEPT !.step = "flag", !.key = k, !.session = sessionMap[k]]
  <2>1. t.step # "idle" /\ u.step # "idle"
    BY DEF Idle
  <2>2. ~Begin(c, t) /\ ~Begin(c, u)
    <3> HIDE DEF t, u
    <3>1. QED
      BY <1>1, <2>1
  <2>3. QED
    BY <2>2 DEF Request_Match_RoomInfo, Request_Match_UserEnterFail
<1>4. ASSUME NEW a \in Account, NEW r \in RoomNo, Request_Battle_UserLogout(c, a, r)
      PROVE  UNCHANGED task
  <2>1. ASSUME NEW p PROVE ~Begin(c, [Idle EXCEPT !.step = "flag", !.roomNo = r, !.session = p])
    <3> DEFINE t == [Idle EXCEPT !.step = "flag", !.roomNo = r, !.session = p]
    <3>1. t.step # "idle"
      BY DEF Idle
    <3>2. QED
      <4> HIDE DEF t
      <4>1. ~Begin(c, t)
        BY <1>1, <3>1
      <4>2. QED
        BY <4>1 DEF t
  <2>2. QED
    BY <1>4, <2>1 DEF Request_Battle_UserLogout
<1>5. ASSUME NEW r \in RoomNo PROVE ~Request_Battle_RoomClosed(c, r)
  <2> DEFINE t == [Idle EXCEPT !.step = "clear", !.roomNo = r]
  <2>1. t.step # "idle"
    BY DEF Idle
  <2>2. ~Begin(c, t)
    <3> HIDE DEF t
    <3>1. QED
      BY <1>1, <2>1
  <2>3. QED
    BY <2>2 DEF Request_Battle_RoomClosed
<1>6. ~OnBattleLeave(c)
  BY <1>2 DEF OnBattleLeave
<1>7. QED
  BY <1>3, <1>4, <1>5, <1>6
     DEF Start, OnClientJoin, Request_Match_Login, Request_Battle_Login,
         Request_Battle_Login_BadToken, OnClientLeave, Request_Battle_RoomCreated

(* A room that is announced while the handler of d is under way is not one *)
(* d knows of: the clients that had a room of that number were cleared by  *)
(* its own server, which announces this one.                               *)
LEMMA PlacesCreatedBeside ==
    ASSUME PointerInv, BattleInv, TypeOK', PlacesInv, NEW c \in Conn, NEW d \in Conn,
           task[c].step = "idle", task[d].step # "idle",
           NEW r \in RoomNo, NEW n \in 0 .. MaxUser, Request_Battle_RoomCreated(c, r, n)
    PROVE  PlacesInv'
<1> USE MasterAssumption DEF roomVars, sessionVars, serverVars
<1> DEFINE s == server[c].serverNo
<1>t. /\ TypeOK /\ room \in [Room -> RoomRec] /\ roomList \subseteq Room
      /\ r # 0 /\ n \in Int
  BY DEF PointerInv, TypeOK
<1>1. PICK o \in Room \ roomList :
        /\ room' = [room EXCEPT ![o] = [serverNo |-> s, roomNo |-> r,
                                        available |-> n, maxUser |-> n]]
        /\ roomList' = roomList \cup {o}
  BY DEF Request_Battle_RoomCreated
<1>2. /\ RoomsOf(s, r) = {} /\ FromBattle(c)
      /\ UNCHANGED <<sessionMap, session, task, server, serverList>>
  BY DEF Request_Battle_RoomCreated
<1>3. /\ room'[o] = [serverNo |-> s, roomNo |-> r, available |-> n, maxUser |-> n]
      /\ \A q \in Room \ {o} : room'[q] = room[q]
  BY <1>1, <1>t
<1>4. \A e \in Conn : ~Clearing(e, s, r)
  BY <1>2 DEF Clearing, PlacesInv, HoldsPlace, BattleInv, ServerNoUnique
<1>5. ASSUME NEW k \in Key, sessionMap[k] # NoSession, session[sessionMap[k]].serverNo = s
      PROVE  session[sessionMap[k]].roomNo # r
  BY <1>t, <1>2, <1>4, <1>5 DEF PlacesInv, MapInv, SessionRoomed
<1>6. Awaited(o)' = {}
  BY <1>2, <1>3, <1>5 DEF Awaited, KeysIn
<1>7. \A q \in roomList : Awaited(q)' = Awaited(q) /\ room'[q] = room[q]
  BY <1>1, <1>2, <1>t, <1>3 DEF Awaited, KeysIn
<1>8. RoomsInv'
  <2>1. ListedRoomHasNo'
    BY <1>1, <1>t, <1>3 DEF PlacesInv, RoomsInv, ListedRoomHasNo
  <2>u. ListedRoomUnique'
    BY <1>1, <1>2, <1>t, <1>3 DEF PlacesInv, RoomsInv, ListedRoomUnique, RoomsOf
  <2>2. room'[o].available + Cardinality(Awaited(o)') <= room'[o].maxUser
    BY <1>t, <1>3, <1>6, FS_EmptySet
  <2>3. \A q \in roomList : room'[q].available + Cardinality(Awaited(q)') <= room'[q].maxUser
    BY <1>7 DEF PlacesInv, RoomsInv, SlotsNotOverbooked
  <2>4. QED
    BY <1>1, <2>1, <2>u, <2>2, <2>3 DEF RoomsInv, SlotsNotOverbooked
<1>9. \A q, no : \/ q = s /\ no = r
                 \/ RoomsOf(q, no)' = RoomsOf(q, no)
  BY <1>1, <1>t, <1>3 DEF RoomsOf
<1>10. MapInv'
  BY <1>2, <1>5, <1>9 DEF Mapped, PlacesInv, MapInv, FlaggedLeave, SessionRoomed, Clearing
<1>11. ASSUME NEW e \in Conn PROVE HoldsPlace(e)'
  <2>1. HoldsPlace(e)
    BY DEF PlacesInv
  <2>2. \A q \in roomList : Spare(q)' = Spare(q)
    BY <1>7 DEF Spare
  <2>3. HeldKey(e)' = HeldKey(e)
    BY <1>2 DEF HeldKey
  <2>4. task[e].step = "incr" => LogOutRooms(task[e])' = LogOutRooms(task[e])
    BY <2>1, <1>5, <1>2, <1>9 DEF HoldsPlace, PointerInv, TaskOK, LogOutRooms
  <2>5. LogOutRooms(task[e]) \subseteq roomList
    BY DEF LogOutRooms, RoomsOf
  <2>6. QED
    BY <1>1, <1>2, <2>1, <2>2, <2>3, <2>4, <2>5 DEF HoldsPlace, FromBattle
<1>12. OneHandler'
  BY <1>2 DEF PlacesInv, OneHandler
<1>13. QED
  BY <1>8, <1>10, <1>11, <1>12 DEF PlacesInv

(* A handler of one region takes nothing from the one that is under way.   *)
LEMMA PlacesBeside ==
    ASSUME PointerInv, BattleInv, TypeOK', PlacesInv, NEW c \in Conn, Start(c), CanStart(c),
           NEW d \in Conn, task[d].step # "idle", UNCHANGED task
    PROVE  PlacesInv'
<1> USE MasterAssumption DEF serverVars, roomVars, sessionVars, envVars
<1>t. TypeOK /\ TypeOK' /\ task[c].step = "idle"
  BY DEF PointerInv, TypeOK, CanStart, Idle
<1>1. CASE /\ UNCHANGED <<room, roomList, sessionMap, session>>
           /\ \A e \in Conn \ {c} : server'[e] = server[e] /\ (e \in serverList => e \in serverList')
  <2>2. \A o : Spare(o)' = Spare(o) /\ Awaited(o)' = Awaited(o)
    BY <1>1 DEF Spare, Awaited, KeysIn
  <2>3. OneHandler' /\ RoomsInv' /\ Mapped' = Mapped /\ FlaggedLeave'
    BY <1>1, <2>2 DEF PlacesInv, OneHandler, RoomsInv, ListedRoomHasNo, ListedRoomUnique,
                      SlotsNotOverbooked, Mapped, MapInv, FlaggedLeave
  <2>4. \A e \in Conn : \A s, r : Clearing(e, s, r) => Clearing(e, s, r)'
    BY <1>t, <1>1 DEF Clearing
  <2>5. SessionRoomed'
    BY <1>1, <2>4 DEF PlacesInv, MapInv, SessionRoomed, RoomsOf
  <2>6. \A e \in Conn : HoldsPlace(e)'
    BY <1>t, <1>1, <2>2 DEF PlacesInv, HoldsPlace, HeldKey, LogOutRooms, RoomsOf, FromBattle
  <2>7. QED
    BY <2>3, <2>5, <2>6 DEF PlacesInv, MapInv
<1>2. ASSUME NEW r \in RoomNo, NEW n \in 0 .. MaxUser, Request_Battle_RoomCreated(c, r, n)
      PROVE  PlacesInv'
  BY <1>t, <1>2, PlacesCreatedBeside
<1>3. \/ UNCHANGED <<room, roomList, sessionMap, session>>
      \/ \E r \in RoomNo, n \in 0 .. MaxUser : Request_Battle_RoomCreated(c, r, n)
      \/ \E r \in RoomNo : Request_Battle_RoomClosed(c, r)
  BY DEF Start, OnClientJoin, Request_Match_Login, Request_Battle_Login,
         Request_Battle_Login_BadToken, OnClientLeave, OnBattleLeave, Request_Match_RoomInfo,
         Request_Match_UserEnterFail, Request_Battle_UserLogout
<1>4. ASSUME NEW r \in RoomNo PROVE ~Request_Battle_RoomClosed(c, r)
  <2> DEFINE t == [Idle EXCEPT !.step = "clear", !.roomNo = r]
  <2>1. t.step # "idle"
    BY DEF Idle
  <2>2. ~Begin(c, t)
    <3> HIDE DEF t
    <3>1. QED
      BY <1>t, <2>1 DEF Begin, TypeOK
  <2>3. QED
    BY <2>2 DEF Request_Battle_RoomClosed
<1>5. \A e \in Conn \ {c} : server'[e] = server[e] /\ (e \in serverList => e \in serverList')
  BY <1>t DEF Start, OnClientJoin, Request_Match_Login, Request_Battle_Login,
         Request_Battle_Login_BadToken, OnClientLeave, OnBattleLeave, Request_Match_RoomInfo,
         Request_Match_UserEnterFail, Request_Battle_UserLogout, Request_Battle_RoomCreated,
         Request_Battle_RoomClosed, TypeOK
<1>6. QED
  BY <1>1, <1>2, <1>3, <1>4, <1>5

(* A handler begins with what it finds in the map.                         *)
LEMMA PlacesStart ==
    ASSUME PointerInv, BattleInv, TypeOK', PlacesInv, OneHandler', NEW c \in Conn, Start(c)
    PROVE  PlacesInv'
<1> USE MasterAssumption DEF serverVars, roomVars, sessionVars, envVars
<1>t. TypeOK /\ TypeOK' /\ task \in [Conn -> TaskRec]
  BY DEF PointerInv, TypeOK
<1>1. CASE OnClientJoin(c)
  <2>1. /\ UNCHANGED <<room, roomList, sessionMap, session, task>>
        /\ \A d \in serverList : server'[d] = server[d]
        /\ serverList \subseteq serverList'
    BY <1>1, <1>t DEF OnClientJoin, TypeOK
  <2>2. \A o : Spare(o)' = Spare(o) /\ Awaited(o)' = Awaited(o)
    BY <2>1 DEF Spare, Awaited, KeysIn
  <2>3. OneHandler' /\ RoomsInv' /\ Mapped' = Mapped /\ FlaggedLeave'
    BY <2>1, <2>2 DEF PlacesInv, OneHandler, RoomsInv, ListedRoomHasNo, ListedRoomUnique,
                      SlotsNotOverbooked, Mapped, MapInv, FlaggedLeave
  <2>4. \A d \in Conn : \A s, r : Clearing(d, s, r) => Clearing(d, s, r)'
    BY <2>1 DEF PlacesInv, HoldsPlace, Clearing
  <2>5. SessionRoomed'
    BY <2>1, <2>4 DEF PlacesInv, MapInv, SessionRoomed, RoomsOf
  <2>6. \A d \in Conn : HoldsPlace(d)'
    BY <2>1, <2>2 DEF PlacesInv, HoldsPlace, HeldKey, LogOutRooms, RoomsOf, FromBattle
  <2>7. QED
    BY <2>3, <2>5, <2>6 DEF PlacesInv, MapInv
<1>2. CASE CanStart(c) /\ \A d \in Conn : task[d].step = "idle"
  <2>0. /\ \A d \in Conn : task[d].step = "idle"
        /\ task[c] = Idle
    BY <1>2 DEF CanStart
  <2>a. UNCHANGED task => Alone(c)
    BY <2>0 DEF Alone
  <2>b. \A t : Begin(c, t) => Alone(c) /\ task'[c] = t
    BY <1>t, <2>0 DEF Alone, Begin
  <2>c. ASSUME NEW k \in Key, sessionMap[k] # NoSession
        PROVE  /\ sessionMap[k] \in Session
               /\ session[sessionMap[k]].clientKey = k
    BY <2>c DEF PointerInv, TypeOK, SessionMapOwnsItsObjects
  <2>1. CASE /\ UNCHANGED <<room, roomList, sessionMap, session, task>>
    BY <1>t, <2>0, <2>1, <2>a, PlacesStill
  <2>2. CASE OnBattleLeave(c)
    BY <1>t, <2>0, <2>2, GotoTask, PlacesQuiet DEF OnBattleLeave, Steps, Alone, HoldsPlace
  <2>3. ASSUME NEW k \in Key, Request_Match_RoomInfo(c, k)
        PROVE  PlacesInv'
    <3> DEFINE t == [Idle EXCEPT !.step = IF sessionMap[k] = NoSession THEN "alloc"
                                          ELSE "reserve",
                                 !.key = k, !.session = sessionMap[k]]
    <3>1. Alone(c) /\ task'[c] = t
      BY <2>3, <2>b DEF Request_Match_RoomInfo
    <3>2. /\ t.step = IF sessionMap[k] = NoSession THEN "alloc" ELSE "reserve"
          /\ t.key = k /\ t.session = sessionMap[k]
      BY DEF Idle
    <3>3. UNCHANGED <<room, roomList, sessionMap, session>>
      BY <2>3 DEF Request_Match_RoomInfo
    <3>4. HoldsPlace(c)'
      BY <3>1, <3>2, <3>3 DEF HoldsPlace
    <3>5. QED
      BY <1>t, <2>0, <3>1, <3>3, <3>4, PlacesQuiet
  <2>4. ASSUME NEW k \in Key, NEW t, sessionMap[k] # NoSession,
               t.step = "flag", t.key \in {k, NoKey}, t.session = sessionMap[k],
               t.key = NoKey => t.roomNo = session[sessionMap[k]].roomNo,
               UNCHANGED <<room, roomList, sessionMap, session>>, Begin(c, t)
        PROVE  PlacesInv'
    BY <2>4, <2>b, <2>c, <1>t, <2>0, PlacesQuiet DEF HeldKey, HoldsPlace
  <2>5. ASSUME NEW k \in Key, Request_Match_UserEnterFail(c, k), sessionMap[k] # NoSession
        PROVE  PlacesInv'
    <3> DEFINE t == [Idle EXCEPT !.step = "flag", !.key = k, !.session = sessionMap[k]]
    <3>1. t.step = "flag" /\ t.key = k /\ t.session = sessionMap[k]
      BY DEF Idle
    <3>2. UNCHANGED <<room, roomList, sessionMap, session>> /\ Begin(c, t)
      BY <2>5 DEF Request_Match_UserEnterFail
    <3>3. t.key # NoKey
      BY <3>1
    <3>4. QED
      <4> HIDE DEF t
      <4>1. QED
        BY <2>4, <2>5, <3>1, <3>2, <3>3
  <2>6. ASSUME NEW a \in Account, NEW r \in RoomNo, Request_Battle_UserLogout(c, a, r),
               NEW k \in SessionsOf(a, r),
               Begin(c, [Idle EXCEPT !.step = "flag", !.roomNo = r,
                                     !.session = sessionMap[k]])
        PROVE  PlacesInv'
    <3> DEFINE t == [Idle EXCEPT !.step = "flag", !.roomNo = r, !.session = sessionMap[k]]
    <3>1. /\ t.step = "flag" /\ t.key = NoKey /\ t.roomNo = r
          /\ t.session = sessionMap[k]
      BY DEF Idle
    <3>2. /\ k \in Key /\ sessionMap[k] # NoSession
          /\ session[sessionMap[k]].roomNo = r
      BY DEF SessionsOf
    <3>3. UNCHANGED <<room, roomList, sessionMap, session>> /\ Begin(c, t)
      BY <2>6 DEF Request_Battle_UserLogout
    <3>4. QED
      <4> HIDE DEF t
      <4>1. QED
        BY <2>4, <3>1, <3>2, <3>3
  <2>7. ASSUME NEW r \in RoomNo, NEW n \in 0 .. MaxUser, Request_Battle_RoomCreated(c, r, n)
        PROVE  PlacesInv'
    BY <1>t, <2>0, <2>7, <2>a, PlacesCreated DEF Request_Battle_RoomCreated
  <2>8. ASSUME NEW r \in RoomNo, Request_Battle_RoomClosed(c, r)
        PROVE  PlacesInv'
    BY <1>t, <2>0, <2>8, <2>b, PlacesClosed DEF Request_Battle_RoomClosed
  <2>9. ASSUME NEW a \in Account, NEW r \in RoomNo, Request_Battle_UserLogout(c, a, r)
        PROVE  PlacesInv'
    BY <2>9, <2>1, <2>6 DEF Request_Battle_UserLogout
  <2>10. ASSUME NEW k \in Key, Request_Match_UserEnterFail(c, k)
         PROVE  PlacesInv'
    BY <2>10, <2>1, <2>5 DEF Request_Match_UserEnterFail
  <2>11. CASE \/ \E ok \in BOOLEAN : Request_Match_Login(c, ok)
              \/ Request_Battle_Login(c)
              \/ Request_Battle_Login_BadToken(c)
              \/ OnClientLeave(c)
    BY <2>1, <2>11 DEF Request_Match_Login, Request_Battle_Login,
                       Request_Battle_Login_BadToken, OnClientLeave
  <2>12. QED
    BY <1>1, <2>2, <2>3, <2>7, <2>8, <2>9, <2>10, <2>11 DEF Start
<1>3. OnClientJoin(c) \/ CanStart(c)
  BY DEF Start, Request_Match_Login, Request_Battle_Login, Request_Battle_Login_BadToken,
         OnClientLeave, OnBattleLeave, Request_Match_RoomInfo, Request_Match_UserEnterFail,
         Request_Battle_UserLogout, Request_Battle_RoomCreated, Request_Battle_RoomClosed
<1>4. ASSUME NEW d \in Conn, task[d].step # "idle", CanStart(c)
      PROVE  PlacesInv'
  BY <1>t, <1>4, StartBeside, PlacesBeside
<1>5. QED
  BY <1>1, <1>2, <1>3, <1>4

-----------------------------------------------------------------------------
(* The regions that follow.                                                *)

(* A room of a server that leaves goes with its clients.                   *)
LEMMA PlacesRoomGoes ==
    ASSUME TypeOK, TypeOK', PlacesInv, NEW c \in Conn, Alone(c), Free_BattleInfo_Room(c)
    PROVE  PlacesInv'
<1> USE DEF serverVars
<1>1. PICK o \in roomList :
        /\ roomList' = roomList \ {o}
        /\ Clear_WaitRoom(room[o].serverNo, room[o].roomNo)
  BY DEF Free_BattleInfo_Room
<1>2. UNCHANGED <<room, session, task>> /\ task[c].step = "lv_rooms"
  BY <1>1 DEF Free_BattleInfo_Room, Clear_WaitRoom, At
<1>3. \A k \in Key : sessionMap'[k] = IF k \in KeysIn(room[o].serverNo, room[o].roomNo)
                                      THEN NoSession ELSE sessionMap[k]
  BY <1>1 DEF Clear_WaitRoom
<1>4. RoomsInv' /\ IsFiniteSet(Mapped')
  BY <1>1, <1>2, <1>3, RoomsKeep DEF PlacesInv
<1>5. ASSUME NEW k \in Key, sessionMap'[k] # NoSession
      PROVE  /\ ~session'[sessionMap'[k]].bLogOut
             /\ session'[sessionMap'[k]].roomNo # 0 =>
                  RoomsOf(session[sessionMap[k]].serverNo, session[sessionMap[k]].roomNo)' # {}
  BY <1>3, <1>5, <1>2, MapCalm, <1>1 DEF PlacesInv, Alone, RoomsOf, KeysIn
<1>6. FlaggedLeave' /\ SessionRoomed'
  BY <1>2, <1>3, <1>5 DEF FlaggedLeave, SessionRoomed
<1>7. HoldsPlace(c)'
  BY <1>2 DEF HoldsPlace
<1>8. QED
  BY <1>4, <1>6, <1>7, PlacesParts DEF MapInv

(* A session that comes into the map is awaited nowhere.                   *)
LEMMA PlacesAlloc ==
    ASSUME PointerInv, TypeOK', PlacesInv, NEW c \in Conn, Alone(c), Alloc_Session(c)
    PROVE  PlacesInv'
<1> USE MasterAssumption DEF roomVars
<1>t. /\ TypeOK /\ task \in [Conn -> TaskRec] /\ roomList \subseteq Room
      /\ sessionMap \in [Key -> Session \cup {NoSession}] /\ freeSession \subseteq Session
      /\ session \in [Session -> SessionRec]
  BY DEF PointerInv, TypeOK
<1> DEFINE key == task[c].key
<1>1. key \in Key /\ sessionMap[key] = NoSession /\ task[c].step = "alloc"
  BY DEF PointerInv, TaskOK, PlacesInv, HoldsPlace, Alloc_Session, At
<1>2. PICK p \in freeSession :
        /\ session' = [session EXCEPT ![p] = NewSession(key)]
        /\ sessionMap' = [sessionMap EXCEPT ![key] = IF @ = NoSession THEN p ELSE @]
        /\ Begin(c, [task[c] EXCEPT !.step = "reserve", !.session = p])
  BY DEF Alloc_Session
<1>3. /\ p \in Session /\ UNCHANGED <<room, roomList>>
      /\ session'[p] = NewSession(key)
      /\ \A q \in Session \ {p} : session'[q] = session[q]
      /\ sessionMap'[key] = p
      /\ \A k \in Key \ {key} : sessionMap'[k] = sessionMap[k]
  BY <1>t, <1>1, <1>2 DEF Alloc_Session
<1>4. \A k \in Key \ {key} : sessionMap[k] # NoSession =>
        sessionMap[k] \in Session \ {p}
  BY <1>t, <1>2 DEF PointerInv, SessionMapOwnsItsObjects
<1>5. ~session'[p].bLogOut /\ session'[p].roomNo = 0
  BY <1>3 DEF NewSession
<1>6. IsFiniteSet(Mapped')
  BY <1>3, FS_AddElement, FS_Subset DEF Mapped, PlacesInv, MapInv
<1>7. \A o \in roomList : Awaited(o)' \subseteq Awaited(o)
  BY <1>3, <1>4, <1>5 DEF Awaited, KeysIn, PlacesInv, RoomsInv, ListedRoomHasNo
<1>8. RoomsInv'
  BY <1>t, <1>3, <1>7, AwaitsFewer DEF PlacesInv, MapInv, RoomsInv, SlotsNotOverbooked, TypeOK,
     RoomRec, ListedRoomHasNo, ListedRoomUnique
<1>9. ASSUME NEW k \in Key \ {key}, sessionMap[k] # NoSession
      PROVE  /\ ~session[sessionMap[k]].bLogOut
             /\ session[sessionMap[k]].roomNo # 0 =>
                  RoomsOf(session[sessionMap[k]].serverNo, session[sessionMap[k]].roomNo) # {}
  BY <1>1, <1>9, MapCalm DEF PlacesInv, Alone
<1>10. FlaggedLeave'
  BY <1>3, <1>4, <1>5, <1>9 DEF FlaggedLeave
<1>11. SessionRoomed'
  BY <1>3, <1>4, <1>5, <1>9 DEF SessionRoomed, RoomsOf
<1>12. HoldsPlace(c)'
  BY <1>t, <1>2, <1>1, <1>3 DEF TaskRec, Begin, HoldsPlace
<1>13. QED
  BY <1>6, <1>8, <1>10, <1>11, <1>12, PlacesParts DEF MapInv

(* A step that changes the number of places of one room, ...               *)
LEMMA RoomsCount ==
    ASSUME TypeOK, PlacesInv, NEW o \in roomList, NEW n \in Int,
           room' = [room EXCEPT ![o].available = n], UNCHANGED <<roomList, sessionMap, session>>,
           n + Cardinality(Awaited(o)) <= room[o].maxUser
    PROVE  /\ RoomsInv' /\ Mapped' = Mapped
           /\ room'[o].available = n /\ room'[o].maxUser = room[o].maxUser
           /\ \A q \in roomList : Awaited(q)' = Awaited(q)
           /\ \A s, r : RoomsOf(s, r)' = RoomsOf(s, r)
<1>1. room \in [Room -> RoomRec] /\ roomList \subseteq Room
  BY DEF TypeOK
<1>2. /\ room'[o].available = n
      /\ \A q \in Room : /\ room'[q].serverNo = room[q].serverNo
                         /\ room'[q].roomNo = room[q].roomNo
                         /\ room'[q].maxUser = room[q].maxUser
      /\ \A q \in Room \ {o} : room'[q] = room[q]
  BY <1>1 DEF RoomRec
<1>3. /\ \A q \in roomList : Awaited(q)' = Awaited(q)
      /\ \A s, r : RoomsOf(s, r)' = RoomsOf(s, r)
      /\ Mapped' = Mapped
  BY <1>1, <1>2 DEF Awaited, KeysIn, RoomsOf, Mapped
<1>4. ListedRoomHasNo' /\ ListedRoomUnique'
  BY <1>1, <1>2 DEF PlacesInv, RoomsInv, ListedRoomHasNo, ListedRoomUnique
<1>5. SlotsNotOverbooked'
  BY <1>1, <1>2, <1>3 DEF PlacesInv, RoomsInv, SlotsNotOverbooked
<1>6. QED
  BY <1>2, <1>3, <1>4, <1>5 DEF RoomsInv

(* ... as the reservation of a place, which is then to spare, ...          *)
LEMMA PlacesReserve ==
    ASSUME PointerInv, TypeOK', PlacesInv, NEW c \in Conn, Alone(c), Find_HighPriorityWaitRoom(c)
    PROVE  PlacesInv'
<1> USE DEF sessionVars
<1>t. /\ TypeOK /\ task \in [Conn -> TaskRec] /\ roomList \subseteq Room
      /\ room \in [Room -> RoomRec]
  BY DEF PointerInv, TypeOK
<1>1. PICK o \in OpenRooms :
        /\ room' = [room EXCEPT ![o].available = @ - 1]
        /\ Begin(c, [task[c] EXCEPT !.step = "battle", !.room = o])
  BY DEF Find_HighPriorityWaitRoom
<1>2. /\ UNCHANGED <<roomList, sessionMap, session>>
      /\ task[c].step = "reserve"
      /\ task[c].key \in Key /\ sessionMap[task[c].key] = task[c].session
  BY DEF Find_HighPriorityWaitRoom, At, PlacesInv, HoldsPlace
<1>3. o \in roomList /\ o \in Room /\ room[o].available \in Int /\ room[o].maxUser \in Int
  BY <1>t DEF OpenRooms, RoomRec
<1>4. /\ Cardinality(Awaited(o)) \in Nat
      /\ room[o].available + Cardinality(Awaited(o)) <= room[o].maxUser
  BY <1>3, AwaitedFinite DEF PlacesInv, MapInv, RoomsInv, SlotsNotOverbooked
<1> DEFINE n == room[o].available - 1
<1>5. /\ n \in Int /\ n + Cardinality(Awaited(o)) < room[o].maxUser
      /\ n + Cardinality(Awaited(o)) <= room[o].maxUser
  BY <1>3, <1>4
<1>6. room' = [room EXCEPT ![o].available = n]
  BY <1>1
<1>7. /\ RoomsInv' /\ Mapped' = Mapped
      /\ room'[o].available = n /\ room'[o].maxUser = room[o].maxUser
      /\ Awaited(o)' = Awaited(o)
      /\ \A s, r : RoomsOf(s, r)' = RoomsOf(s, r)
  <2> HIDE DEF n
  <2>1. QED
    BY <1>t, <1>2, <1>3, <1>5, <1>6, RoomsCount
<1>8. Spare(o)'
  BY <1>5, <1>7 DEF Spare
<1>9. MapInv'
  BY <1>2, MapCalm, <1>7 DEF PlacesInv, Alone, MapInv, FlaggedLeave, SessionRoomed
<1>10. HoldsPlace(c)'
  BY <1>t, <1>1, <1>2, <1>3, <1>8 DEF TaskRec, Begin, HoldsPlace
<1>11. QED
  BY <1>7, <1>9, <1>10, PlacesParts

(* ... and the return of one, which its client made room for.              *)
LEMMA PlacesReturned ==
    ASSUME PointerInv, TypeOK', PlacesInv, NEW c \in Conn, Alone(c), Increment_WaitRoom(c)
    PROVE  PlacesInv'
<1> USE DEF sessionVars
<1>t. /\ TypeOK /\ task \in [Conn -> TaskRec] /\ roomList \subseteq Room
      /\ room \in [Room -> RoomRec]
  BY DEF PointerInv, TypeOK
<1>1. /\ UNCHANGED <<roomList, sessionMap, session>>
      /\ task[c].step = "incr"
      /\ Goto(c, "free")
  BY DEF Increment_WaitRoom, At
<1>2. /\ task'[c].step = "free" /\ task'[c].key = task[c].key
      /\ task'[c].session = task[c].session
  BY <1>t, <1>1, GotoTask DEF Steps
<1>3. RoomsInv' /\ Mapped' = Mapped /\ \A s, r : RoomsOf(s, r)' = RoomsOf(s, r)
  <2>1. CASE UNCHANGED room
    BY <1>1, <2>1 DEF PlacesInv, RoomsInv, ListedRoomHasNo, ListedRoomUnique,
                      SlotsNotOverbooked, Awaited, KeysIn, Mapped, RoomsOf
  <2>2. ASSUME NEW o \in LogOutRooms(task[c]), room' = [room EXCEPT ![o].available = @ + 1]
        PROVE  RoomsInv' /\ Mapped' = Mapped /\ \A s, r : RoomsOf(s, r)' = RoomsOf(s, r)
    <3> DEFINE n == room[o].available + 1
    <3>1. o \in roomList /\ Spare(o)
      BY <1>1 DEF LogOutRooms, RoomsOf, PlacesInv, HoldsPlace
    <3>2. /\ room[o].available \in Int /\ room[o].maxUser \in Int
          /\ Cardinality(Awaited(o)) \in Nat
      BY <1>t, <3>1, AwaitedFinite DEF RoomRec, PlacesInv, MapInv
    <3>3. n \in Int /\ n + Cardinality(Awaited(o)) <= room[o].maxUser
      BY <3>1, <3>2 DEF Spare
    <3>4. room' = [room EXCEPT ![o].available = n]
      BY <2>2
    <3>5. QED
      <4> HIDE DEF n
      <4>1. QED
        BY <1>t, <1>1, <3>1, <3>3, <3>4, RoomsCount
  <2>3. QED
    BY <2>1, <2>2 DEF Increment_WaitRoom
<1>4. FlaggedLeave'
  BY <1>1, <1>2 DEF PlacesInv, MapInv, FlaggedLeave, Alone
<1>5. SessionRoomed'
  BY <1>1, <1>3 DEF Alone, Clearing, PlacesInv, MapInv, SessionRoomed
<1>6. HoldsPlace(c)'
  BY <1>1, <1>2 DEF PlacesInv, HoldsPlace, HeldKey
<1>7. QED
  BY <1>3, <1>4, <1>5, <1>6, PlacesParts DEF PlacesInv, MapInv

(* No two clients of the map share a session.                              *)
LEMMA MapInjective ==
    ASSUME SessionMapOwnsItsObjects, NEW k \in Key, NEW l \in Key,
           sessionMap[k] # NoSession, sessionMap[k] = sessionMap[l]
    PROVE  k = l
  BY DEF SessionMapOwnsItsObjects

(* The client that is sent to a room takes the place reserved for it.      *)
LEMMA PlacesAssign ==
    ASSUME PointerInv, TypeOK', PlacesInv, NEW c \in Conn, Alone(c),
           Response_Match_RoomInfo_Assign(c)
    PROVE  PlacesInv'
<1> USE MasterAssumption DEF roomVars
<1>t. /\ TypeOK /\ task \in [Conn -> TaskRec] /\ roomList \subseteq Room
      /\ sessionMap \in [Key -> Session \cup {NoSession}]
      /\ session \in [Session -> SessionRec] /\ room \in [Room -> RoomRec]
  BY DEF PointerInv, TypeOK
<1>0. PICK p \in Session, o \in roomList, k \in Key :
        task[c].session = p /\ task[c].room = o /\ task[c].key = k
  BY DEF PointerInv, TaskOK, PlacesInv, HoldsPlace, Response_Match_RoomInfo_Assign, At
<1>1. task[c].step = "assign" /\ sessionMap[k] = p /\ Spare(o)
  BY <1>0 DEF PlacesInv, HoldsPlace, Response_Match_RoomInfo_Assign, At
<1>2. /\ UNCHANGED <<room, roomList, sessionMap>> /\ Return(c)
      /\ session' = [session EXCEPT ![p].roomNo = room[o].roomNo,
                                    ![p].serverNo = room[o].serverNo]
  BY <1>0 DEF Response_Match_RoomInfo_Assign
<1>3. /\ session'[p].serverNo = room[o].serverNo /\ session'[p].roomNo = room[o].roomNo
      /\ session'[p].bLogOut = session[p].bLogOut
      /\ \A q \in Session \ {p} : session'[q] = session[q]
  BY <1>t, <1>1, <1>2 DEF SessionRec
<1>4. \A l \in Key \ {k} : sessionMap[l] # NoSession => sessionMap[l] \in Session \ {p}
  BY <1>t, <1>1, MapInjective DEF PointerInv
<1>5. task'[c] = Idle
  BY <1>t, <1>2, ReturnTask
<1>6. Mapped' = Mapped
  BY <1>2 DEF Mapped
<1>7. \A q \in roomList \ {o} : Awaited(q)' \subseteq Awaited(q)
  <2>1. ASSUME NEW q \in roomList \ {o} PROVE k \notin Awaited(q)'
    <3>1. room[q].serverNo # room[o].serverNo \/ room[q].roomNo # room[o].roomNo
      BY DEF PlacesInv, RoomsInv, ListedRoomUnique
    <3>2. QED
      BY <1>1, <1>2, <1>3, <3>1 DEF Awaited, KeysIn
  <2>2. \A q \in Room : Awaited(q)' \subseteq Awaited(q) \cup {k}
    BY <1>2, <1>3, <1>4 DEF Awaited, KeysIn
  <2>3. QED
    BY <1>t, <2>1, <2>2
<1>8. room'[o].available + Cardinality(Awaited(o)') <= room'[o].maxUser
  <2> DEFINE S == Awaited(o)
             T == Awaited(o)'
  <2>1. S \ {k} = T \ {k}
    <3>1. \A l \in Key \ {k} : l \in T <=> l \in S
      BY <1>2, <1>3, <1>4 DEF Awaited, KeysIn
    <3>2. S \subseteq Key /\ T \subseteq Key
      BY DEF Awaited, KeysIn
    <3>3. QED
      <4> HIDE DEF S, T
      <4>1. QED
        BY <3>1, <3>2
  <2>2. IsFiniteSet(S) /\ Cardinality(S) \in Nat
    BY AwaitedFinite DEF PlacesInv, MapInv
  <2>3. /\ IsFiniteSet(T)
        /\ Cardinality(T) = Cardinality(S) + One(k \in T) - One(k \in S)
    <3> HIDE DEF S, T
    <3>1. QED
      BY <2>1, <2>2, CountOne
  <2>4. Cardinality(T) \in Nat /\ Cardinality(T) <= Cardinality(S) + 1
    <3> HIDE DEF S, T
    <3>1. Cardinality(T) \in Nat
      BY <2>3, FS_CardinalityType
    <3>2. QED
      BY <2>2, <2>3, <3>1 DEF One
  <2>5. room[o].available \in Int /\ room[o].maxUser \in Int
    BY <1>t, <1>1 DEF RoomRec
  <2>6. QED
    BY <1>1, <1>2, <2>2, <2>4, <2>5 DEF Spare
<1>9. RoomsInv'
  BY <1>t, <1>2, <1>7, AwaitsFewer, <1>8 DEF PlacesInv, MapInv, RoomsInv, SlotsNotOverbooked,
     TypeOK, RoomRec, ListedRoomHasNo, ListedRoomUnique
<1>10. ASSUME NEW l \in Key, sessionMap[l] # NoSession
       PROVE  /\ ~session[sessionMap[l]].bLogOut
              /\ session[sessionMap[l]].roomNo # 0 =>
                   RoomsOf(session[sessionMap[l]].serverNo, session[sessionMap[l]].roomNo) # {}
  BY <1>1, <1>10, MapCalm DEF PlacesInv, Alone
<1>11. FlaggedLeave'
  <2>1. \A l \in Key : sessionMap[l] # NoSession => ~session'[sessionMap[l]].bLogOut
    BY <1>1, <1>3, <1>4, <1>10
  <2>2. QED
    BY <1>2, <2>1 DEF FlaggedLeave
<1>12. SessionRoomed'
  <2>1. \A s, r : RoomsOf(s, r)' = RoomsOf(s, r)
    BY <1>2 DEF RoomsOf
  <2>2. RoomsOf(room[o].serverNo, room[o].roomNo) # {}
    BY <1>1 DEF RoomsOf
  <2>3. QED
    BY <1>1, <1>2, <1>3, <1>4, <1>10, <2>1, <2>2 DEF SessionRoomed
<1>13. HoldsPlace(c)'
  BY <1>5 DEF HoldsPlace, Idle
<1>14. QED
  BY <1>6, <1>9, <1>11, <1>12, <1>13, PlacesParts DEF PlacesInv, MapInv

(* The client of a session that is logged out is awaited no more.          *)
LEMMA PlacesFlag ==
    ASSUME PointerInv, TypeOK', PlacesInv, NEW c \in Conn, Alone(c), LogOut_Flag(c)
    PROVE  PlacesInv'
<1> USE MasterAssumption DEF roomVars
<1>t. /\ TypeOK /\ task \in [Conn -> TaskRec] /\ roomList \subseteq Room
      /\ sessionMap \in [Key -> Session \cup {NoSession}]
      /\ session \in [Session -> SessionRec] /\ room \in [Room -> RoomRec]
  BY DEF PointerInv, TypeOK
<1>0. PICK p \in Session, k \in Key : task[c].session = p /\ HeldKey(c) = k
  BY DEF PointerInv, TaskOK, PlacesInv, HoldsPlace, LogOut_Flag, At
<1>1. /\ task[c].step = "flag" /\ sessionMap[k] = p
      /\ task[c].key = NoKey => task[c].roomNo = session[p].roomNo
  BY <1>0 DEF PlacesInv, HoldsPlace, LogOut_Flag, At
<1>2. /\ UNCHANGED <<room, roomList, sessionMap>>
      /\ session' = [session EXCEPT ![p].bLogOut = TRUE]
  BY <1>0 DEF LogOut_Flag
<1>3. /\ session'[p].serverNo = session[p].serverNo
      /\ session'[p].roomNo = session[p].roomNo
      /\ session'[p].clientKey = session[p].clientKey
      /\ session'[p].bLogOut
      /\ \A q \in Session \ {p} : session'[q] = session[q]
  BY <1>t, <1>2 DEF SessionRec
<1>4. \A l \in Key \ {k} : sessionMap[l] # NoSession => sessionMap[l] \in Session \ {p}
  BY <1>t, <1>1, MapInjective DEF PointerInv
<1>5. ASSUME NEW l \in Key, sessionMap[l] # NoSession
      PROVE  /\ ~session[sessionMap[l]].bLogOut
             /\ session[sessionMap[l]].roomNo # 0 =>
                  RoomsOf(session[sessionMap[l]].serverNo, session[sessionMap[l]].roomNo) # {}
  BY <1>1, <1>5, MapCalm DEF PlacesInv, Alone
<1>6. Goto(c, "incr")
  BY <1>0, <1>1, <1>5 DEF LogOut_Flag
<1>7. /\ task'[c].step = "incr" /\ task'[c].key = task[c].key
      /\ task'[c].session = p /\ task'[c].roomNo = task[c].roomNo
  BY <1>t, <1>0, <1>6, GotoTask DEF Steps
<1>8. Mapped' = Mapped
  BY <1>2 DEF Mapped
<1>9. \A o \in Room : Awaited(o)' = Awaited(o) \ {k}
  BY <1>1, <1>2, <1>3, <1>4 DEF Awaited, KeysIn
<1>10. RoomsInv'
  BY <1>t, <1>2, <1>9, AwaitsFewer DEF PlacesInv, MapInv, RoomsInv, SlotsNotOverbooked, TypeOK,
     RoomRec, ListedRoomHasNo, ListedRoomUnique
<1>11. FlaggedLeave'
  BY <1>3, <1>4, <1>5, <1>1, <1>2, <1>7 DEF FlaggedLeave
<1>12. SessionRoomed'
  BY <1>2, <1>1, <1>3, <1>4, <1>5 DEF RoomsOf, SessionRoomed
<1>13. ASSUME NEW o \in RoomsOf(session[p].serverNo, session[p].roomNo) PROVE Spare(o)'
  <2>1. o \in roomList /\ o \in Room
    BY <1>t DEF RoomsOf
  <2>2. k \in Awaited(o)
    BY <1>t, <1>1, <1>5 DEF Awaited, KeysIn, RoomsOf
  <2>3. /\ IsFiniteSet(Awaited(o)) /\ Cardinality(Awaited(o)) \in Nat
        /\ room[o].available + Cardinality(Awaited(o)) <= room[o].maxUser
    BY <2>1, AwaitedFinite DEF PlacesInv, MapInv, RoomsInv, SlotsNotOverbooked
  <2>4. Cardinality(Awaited(o) \ {k}) = Cardinality(Awaited(o)) - 1
    BY <2>2, <2>3, FS_RemoveElement
  <2>5. room[o].available \in Int /\ room[o].maxUser \in Int
    BY <1>t, <2>1 DEF RoomRec
  <2>6. Cardinality(Awaited(o)') = Cardinality(Awaited(o)) - 1
    BY <1>9, <2>1, <2>4
  <2>7. room[o].available + Cardinality(Awaited(o)') < room[o].maxUser
    BY <2>3, <2>5, <2>6
  <2>8. QED
    BY <1>2, <2>7 DEF Spare
<1>14. HoldsPlace(c)'
  BY <1>0, <1>3, <1>7, <1>1, <1>2, <1>13 DEF HeldKey, LogOutRooms, RoomsOf, HoldsPlace
<1>15. QED
  BY <1>8, <1>10, <1>11, <1>12, <1>14, PlacesParts DEF PlacesInv, MapInv

(* A log out ends with its client out of the map.                          *)
LEMMA PlacesFree ==
    ASSUME PointerInv, TypeOK', PlacesInv, NEW c \in Conn, Alone(c), Free_Session(c)
    PROVE  PlacesInv'
<1> USE MasterAssumption DEF roomVars
<1>t. TypeOK /\ task \in [Conn -> TaskRec] /\ SessionMapOwnsItsObjects
  BY DEF PointerInv, TypeOK
<1>0. PICK k \in Key : HeldKey(c) = k
  BY DEF PlacesInv, HoldsPlace, Free_Session, At
<1>1. /\ task[c].step = "free" /\ sessionMap[k] = task[c].session
      /\ task[c].session \in Session
  BY <1>0 DEF PointerInv, TaskOK, PlacesInv, HoldsPlace, Free_Session, At
<1>2. /\ UNCHANGED <<room, roomList, session>> /\ Return(c)
      /\ sessionMap' = [sessionMap EXCEPT ![k] = NoSession]
  BY <1>0, <1>1 DEF Free_Session, HeldKey
<1>3. \A l \in Key : sessionMap'[l] = IF l = k THEN NoSession ELSE sessionMap[l]
  BY <1>2 DEF PointerInv, TypeOK
<1>4. RoomsInv' /\ IsFiniteSet(Mapped')
  BY <1>t, <1>2, <1>3, RoomsKeep DEF PlacesInv
<1>5. task'[c] = Idle
  BY <1>t, <1>2, ReturnTask
<1>6. FlaggedLeave'
  BY <1>1, <1>t, MapInjective, <1>2, <1>3 DEF PlacesInv, MapInv, FlaggedLeave, Alone
<1>7. SessionRoomed'
  BY <1>1, <1>2, <1>3 DEF Alone, Clearing, RoomsOf, PlacesInv, MapInv, SessionRoomed
<1>8. HoldsPlace(c)'
  BY <1>5 DEF HoldsPlace, Idle
<1>9. QED
  BY <1>4, <1>6, <1>7, <1>8, PlacesParts DEF MapInv

(* The clients a closed room left are cleared.                             *)
LEMMA PlacesClear ==
    ASSUME PointerInv, TypeOK', PlacesInv, NEW c \in Conn, Alone(c), Free_WaitRoom_Clear(c)
    PROVE  PlacesInv'
<1> USE MasterAssumption DEF roomVars, serverVars
<1>t. TypeOK /\ task \in [Conn -> TaskRec]
  BY DEF PointerInv, TypeOK
<1>1. /\ task[c].step = "clear"
      /\ UNCHANGED <<room, roomList, session, server>> /\ Return(c)
      /\ \A k \in Key : sessionMap'[k] = IF k \in KeysIn(server[c].serverNo, task[c].roomNo)
                                         THEN NoSession ELSE sessionMap[k]
  BY DEF Free_WaitRoom_Clear, At, Clear_WaitRoom
<1>2. RoomsInv' /\ IsFiniteSet(Mapped')
  BY <1>t, <1>1, RoomsKeep DEF PlacesInv
<1>3. task'[c] = Idle
  BY <1>t, <1>1, ReturnTask
<1>4. FlaggedLeave'
  BY <1>1 DEF PlacesInv, MapInv, FlaggedLeave, Alone
<1>5. SessionRoomed'
  BY <1>1 DEF Clearing, Alone, KeysIn, PlacesInv, MapInv, SessionRoomed, RoomsOf
<1>6. HoldsPlace(c)'
  BY <1>3 DEF HoldsPlace, Idle
<1>7. QED
  BY <1>2, <1>4, <1>5, <1>6, PlacesParts DEF MapInv

(* A handler that goes on is under way.                                    *)
LEMMA HandlerAt ==
    ASSUME NEW c \in Conn, Handler(c) PROVE task[c].step # "idle"
  BY DEF Handler, Leaving, RoomRequest, LogOut, Free_BattleInfo_Room,
         Free_BattleInfo_BadIter, Free_BattleInfo_RoomsDone, Free_BattleInfo_Erase,
         OnBattleLeave_Free_Server, Alloc_Session, Find_HighPriorityWaitRoom,
         Find_HighPriorityWaitRoom_Empty, Find_HighPriorityWaitRoom_Crash,
         Response_Match_RoomInfo_Battle, Response_Match_RoomInfo_Assign, LogOut_Flag,
         Increment_WaitRoom, Free_Session, Free_WaitRoom_Clear, At

(* A handler goes on with what it holds.                                   *)
LEMMA PlacesHandler ==
    ASSUME PointerInv, TypeOK', PlacesInv, NEW c \in Conn, Handler(c)
    PROVE  PlacesInv'
<1> USE MasterAssumption DEF serverVars, roomVars, sessionVars, envVars
<1>t. TypeOK /\ task \in [Conn -> TaskRec]
  BY DEF PointerInv, TypeOK
<1>0. task[c].step # "idle"
  BY HandlerAt
<1>1. /\ UNCHANGED task => Alone(c)
      /\ \A t : Begin(c, t) => Alone(c) /\ task'[c] = t
      /\ Return(c) => Alone(c) /\ task'[c] = Idle
      /\ \A s : Goto(c, s) => Alone(c) /\ task'[c] = [task[c] EXCEPT !.step = s]
  BY <1>t, <1>0, HandlerAlone DEF PlacesInv, Alone, Begin, Return, Goto
<1>2. CASE \/ Free_BattleInfo_BadIter(c)
           \/ Find_HighPriorityWaitRoom_Crash(c)
  BY <1>2, <1>t, <1>1, PlacesStill DEF Free_BattleInfo_BadIter, Find_HighPriorityWaitRoom_Crash, At
<1>3. CASE \/ Free_BattleInfo_RoomsDone(c)
           \/ Free_BattleInfo_Erase(c)
           \/ OnBattleLeave_Free_Server(c)
           \/ Find_HighPriorityWaitRoom_Empty(c)
           \/ Response_Match_RoomInfo_Battle(c) /\ Return(c)
  <2>1. /\ UNCHANGED <<room, roomList, sessionMap, session>>
        /\ task[c].step \notin {"clear", "incr", "free"}
        /\ Return(c) \/ Goto(c, "lv_info") \/ Goto(c, "lv_free")
    BY <1>3 DEF Free_BattleInfo_RoomsDone, Free_BattleInfo_Erase, OnBattleLeave_Free_Server,
                Find_HighPriorityWaitRoom_Empty, Response_Match_RoomInfo_Battle, At
  <2>2. task'[c].step \in {"idle", "lv_info", "lv_free"}
    BY <1>t, <1>1, <2>1, GotoTask DEF Idle, Steps
  <2>3. HoldsPlace(c)'
    BY <2>2 DEF HoldsPlace
  <2>4. QED
    BY <1>t, <1>1, <2>1, <2>3, PlacesQuiet
<1>4. ASSUME NEW s \in battleInfoList, Response_Match_RoomInfo_Battle(c),
             Begin(c, [task[c] EXCEPT !.step = "assign", !.battle = s])
      PROVE  PlacesInv'
  <2>1. /\ UNCHANGED <<room, roomList, sessionMap, session>>
        /\ task[c].step = "battle"
    BY <1>4 DEF Response_Match_RoomInfo_Battle, At
  <2>2. /\ task'[c].step = "assign" /\ task'[c].key = task[c].key
        /\ task'[c].session = task[c].session /\ task'[c].room = task[c].room
    BY <1>t, <1>4, AssignTask DEF TypeOK
  <2>3. \A o : Spare(o)' = Spare(o)
    BY <2>1 DEF Spare, Awaited, KeysIn
  <2>4. HoldsPlace(c)'
    BY <2>1, <2>2, <2>3 DEF PlacesInv, HoldsPlace
  <2>5. QED
    BY <1>t, <1>1, <1>4, <2>1, <2>4, PlacesQuiet
<1>5. CASE Free_BattleInfo_Room(c)
  BY <1>t, <1>1, <1>5, PlacesRoomGoes DEF Free_BattleInfo_Room
<1>6. CASE Alloc_Session(c)
  BY <1>1, <1>6, PlacesAlloc DEF Alloc_Session
<1>7. CASE Find_HighPriorityWaitRoom(c)
  BY <1>1, <1>7, PlacesReserve DEF Find_HighPriorityWaitRoom
<1>8. CASE Response_Match_RoomInfo_Assign(c)
  BY <1>1, <1>8, PlacesAssign DEF Response_Match_RoomInfo_Assign
<1>9. CASE LogOut_Flag(c)
  BY <1>1, <1>9, PlacesFlag DEF LogOut_Flag
<1>10. CASE Increment_WaitRoom(c)
  BY <1>1, <1>10, PlacesReturned DEF Increment_WaitRoom
<1>11. CASE Free_Session(c)
  BY <1>1, <1>11, PlacesFree DEF Free_Session
<1>12. CASE Free_WaitRoom_Clear(c)
  BY <1>1, <1>12, PlacesClear DEF Free_WaitRoom_Clear
<1>13. QED
  BY <1>t, <1>2, <1>3, <1>4, <1>5, <1>6, <1>7, <1>8, <1>9, <1>10, <1>11, <1>12, BattleTask
     DEF Handler, Leaving, RoomRequest, LogOut

(* While handlers follow each other, every step keeps what they hold.      *)
LEMMA PlacesStep ==
    PointerInv /\ BattleInv /\ TypeOK' /\ PlacesInv /\ OneHandler' /\ [Next]_vars => PlacesInv'
<1> SUFFICES ASSUME PointerInv, BattleInv, TypeOK', PlacesInv, OneHandler', [Next]_vars
             PROVE  PlacesInv'
  OBVIOUS
<1> USE MasterAssumption
<1>1. CASE Restart
  <2>1. /\ roomList' = {} /\ \A c \in Conn : task'[c].step = "idle"
        /\ \A k \in Key : sessionMap'[k] = NoSession
    BY <1>1 DEF Restart, Idle
  <2>2. RoomsInv' /\ OneHandler' /\ \A c \in Conn : HoldsPlace(c)'
    BY <2>1 DEF RoomsInv, ListedRoomHasNo, ListedRoomUnique, SlotsNotOverbooked, OneHandler,
                HoldsPlace
  <2>3. Mapped' = {} /\ FlaggedLeave' /\ SessionRoomed'
    BY <2>1 DEF Mapped, FlaggedLeave, SessionRoomed
  <2>4. QED
    BY <2>2, <2>3, FS_EmptySet DEF PlacesInv, MapInv
<1>2. CASE UNCHANGED vars
  <2>1. \A o : Spare(o)' = Spare(o) /\ Awaited(o)' = Awaited(o)
    BY <1>2 DEF vars, roomVars, sessionVars, Spare, Awaited, KeysIn
  <2>2. Mapped' = Mapped /\ \A s, r : RoomsOf(s, r)' = RoomsOf(s, r)
    BY <1>2 DEF vars, roomVars, sessionVars, Mapped, RoomsOf
  <2>3. RoomsInv' /\ OneHandler' /\ FlaggedLeave' /\ SessionRoomed'
    BY <1>2, <2>1, <2>2
       DEF vars, serverVars, roomVars, sessionVars, PlacesInv, MapInv, RoomsInv, OneHandler,
           ListedRoomHasNo, ListedRoomUnique, SlotsNotOverbooked, FlaggedLeave,
           SessionRoomed, Clearing
  <2>4. \A c \in Conn : HoldsPlace(c)'
    BY <1>2, <2>1, <2>2
       DEF vars, serverVars, roomVars, sessionVars, PlacesInv, HoldsPlace, HeldKey, LogOutRooms,
           FromBattle
  <2>5. QED
    BY <2>2, <2>3, <2>4 DEF PlacesInv, MapInv
<1>3. QED
  BY <1>1, <1>2, PlacesStart, PlacesHandler DEF Next

(* No handler has begun when the master starts.                            *)
LEMMA PlacesInit == Init => PlacesInv
<1>1. SUFFICES ASSUME Init PROVE PlacesInv
  OBVIOUS
<1>2. /\ roomList = {} /\ \A c \in Conn : task[c].step = "idle"
      /\ \A k \in Key : sessionMap[k] = NoSession
  BY <1>1 DEF Init, StartState, Idle
<1>3. RoomsInv /\ OneHandler /\ \A c \in Conn : HoldsPlace(c)
  BY <1>2 DEF RoomsInv, ListedRoomHasNo, ListedRoomUnique, SlotsNotOverbooked, OneHandler,
              HoldsPlace
<1>4. Mapped = {} /\ FlaggedLeave /\ SessionRoomed
  BY <1>2 DEF Mapped, FlaggedLeave, SessionRoomed
<1>5. QED
  BY <1>3, <1>4, FS_EmptySet DEF PlacesInv, MapInv

(* What the handlers hold is what the property asks of the rooms.          *)
LEMMA PlacesHeld == PlacesInv => SlotsNotOverbooked /\ SessionHasListedRoom
  BY DEF PlacesInv, RoomsInv, MapInv, SessionRoomed, SessionHasListedRoom, Clearing, Busy

(* A step of one connection leaves the tasks of the others alone.          *)
LEMMA OneTaskChanges ==
    ASSUME TypeOK, NEW c \in Conn, Start(c) \/ Handler(c)
    PROVE  \A d \in Conn \ {c} : task'[d] = task[d]
<1> USE DEF Begin, Goto, Return
<1>1. CASE Start(c)
  BY <1>1 DEF Start, OnClientJoin, Request_Match_Login, Request_Battle_Login,
         Request_Battle_Login_BadToken, OnClientLeave, OnBattleLeave, Request_Match_RoomInfo,
         Request_Match_UserEnterFail, Request_Battle_UserLogout, Request_Battle_RoomCreated,
         Request_Battle_RoomClosed, TypeOK
<1>2. CASE Handler(c)
  BY <1>2 DEF Handler, Leaving, RoomRequest, LogOut, Free_BattleInfo_Room,
         Free_BattleInfo_BadIter, Free_BattleInfo_RoomsDone, Free_BattleInfo_Erase,
         OnBattleLeave_Free_Server, Alloc_Session, Find_HighPriorityWaitRoom,
         Find_HighPriorityWaitRoom_Empty, Find_HighPriorityWaitRoom_Crash,
         Response_Match_RoomInfo_Battle, Response_Match_RoomInfo_Assign, LogOut_Flag,
         Increment_WaitRoom, Free_Session, Free_WaitRoom_Clear, TypeOK
<1>3. QED
  BY <1>1, <1>2

(* One task at a time, as the run counts it, is one handler at a time.     *)
LEMMA SerialIsOneHandler ==
    ASSUME TypeOK, OneHandler, [Next]_vars, Cardinality(Busy') <= 1
    PROVE  OneHandler'
<1>1. PICK B : IsFiniteSet(B) /\ Busy' \subseteq B
  <2>1. IsFiniteSet(Busy)
    <3>1. CASE Busy = {}
      BY <3>1, FS_EmptySet
    <3>2. ASSUME NEW b \in Busy PROVE IsFiniteSet(Busy)
      <4>1. Busy = {b}
        BY <3>2 DEF Busy, OneHandler
      <4>2. QED
        BY <4>1, FS_Singleton
    <3>3. QED
      BY <3>1, <3>2
  <2>2. CASE Restart
    BY <2>2, <2>1 DEF Restart, Idle, Busy
  <2>3. ASSUME NEW c \in Conn, Start(c) \/ Handler(c)
        PROVE  \E B : IsFiniteSet(B) /\ Busy' \subseteq B
    <3>1. IsFiniteSet(Busy \cup {c})
      BY <2>1, FS_AddElement
    <3>2. Busy' \subseteq Busy \cup {c}
      BY <2>3, OneTaskChanges DEF Busy
    <3>3. QED
      BY <3>1, <3>2
  <2>4. CASE UNCHANGED vars
    BY <2>1, <2>4 DEF Busy, vars
  <2>5. QED
    BY <2>2, <2>3, <2>4 DEF Next
<1>2. IsFiniteSet(Busy') /\ Cardinality(Busy') \in Nat
  BY <1>1, FS_Subset, FS_CardinalityType
<1>3. ASSUME NEW c \in Busy', NEW d \in Busy', c # d PROVE FALSE
  <2>1. IsFiniteSet({c}) /\ Cardinality({c}) = 1
    BY FS_Singleton
  <2>2. Cardinality({c} \cup {d}) = 2
    BY <1>3, <2>1, FS_AddElement
  <2>3. Cardinality({c} \cup {d}) <= Cardinality(Busy')
    BY <1>3, <1>2, FS_Subset
  <2>4. QED
    BY <1>2, <2>2, <2>3
<1>4. QED
  BY <1>3 DEF OneHandler, Busy

(* With one worker a second handler never begins.                          *)
LEMMA WorkerIsOneHandler ==
    ASSUME WorkerCnt = 1, TypeOK, OneHandler, [Next]_vars PROVE OneHandler'
<1>1. CASE Restart
  BY <1>1 DEF Restart, Idle, OneHandler
<1>2. CASE UNCHANGED vars
  BY <1>2 DEF vars, OneHandler
<1>3. ASSUME NEW c \in Conn, Start(c) \/ Handler(c) PROVE OneHandler'
  <2>1. \A d \in Conn \ {c} : task'[d] = task[d]
    BY <1>3, OneTaskChanges
  <2>2. CASE \A d \in Conn \ {c} : task[d].step = "idle"
    BY <2>1, <2>2 DEF OneHandler
  <2>3. CASE OnClientJoin(c)
    BY <2>3 DEF OnClientJoin, OneHandler
  <2>4. CASE CanStart(c)
    BY <2>2, <2>4, StartAlone
  <2>5. CASE Handler(c)
    BY <2>5, HandlerAt, <2>2, HandlerAlone
  <2>6. QED
    BY <1>3, <2>3, <2>4, <2>5
       DEF Start, Request_Match_Login, Request_Battle_Login, Request_Battle_Login_BadToken,
           OnClientLeave, OnBattleLeave, Request_Match_RoomInfo, Request_Match_UserEnterFail,
           Request_Battle_UserLogout, Request_Battle_RoomCreated, Request_Battle_RoomClosed
<1>4. QED
  BY <1>1, <1>2, <1>3 DEF Next

(* With one worker, no place of a room is given out twice: what a room     *)
(* still offers and the clients it waits for are never more than the battle*)
(* server announced, whoever asks again, is lost, leaves or finds its room *)
(* closed; and between two packets no session refers to a room that is not *)
(* listed. (Find_HighPriorityWaitRoom, Increment_WaitRoom, Free_WaitRoom)  *)
THEOREM PlacesGivenOnce ==
    ASSUME WorkerCnt = 1 PROVE Spec => [](SlotsNotOverbooked /\ SessionHasListedRoom)
<1>1. PlacesInv /\ TypeOK /\ [Next]_vars => OneHandler'
  BY WorkerIsOneHandler DEF PlacesInv
<1>2. QED
  BY <1>1, PlacesInit, PlacesHeld, PlacesStep, PointerAlways, BattleAlways, TypeCorrect, PTL
     DEF Spec

(* The same of any number of workers in the behaviours of the run where a  *)
(* handler of several lock regions ends before the next of that kind       *)
(* begins, while connections, log ins and announcements of other servers   *)
(* come between its regions.                                               *)
THEOREM PlacesSoundAlways == MCSpec => []PlacesSound
<1> DEFINE I == serial => PlacesInv
<1>1. MCSpec => Spec
  <2>1. MCInit => Init
    BY DEF MCInit
  <2>2. [MCNext]_<<vars, serial>> => [Next]_vars
    BY DEF MCNext
  <2>3. QED
    BY <2>1, <2>2, PTL DEF MCSpec, Spec
<1>2. MCInit => I
  BY PlacesInit DEF MCInit
<1>3. I /\ PointerInv /\ BattleInv /\ TypeOK /\ TypeOK' /\ [MCNext]_<<vars, serial>> => I'
  BY SerialIsOneHandler, PlacesStep DEF MCNext, Serial, PlacesInv, vars, OneHandler
<1>4. I => PlacesSound
  BY PlacesHeld DEF PlacesSound
<1>5. QED
  <2> HIDE DEF I
  <2>1. QED
    BY <1>1, <1>2, <1>3, <1>4, PointerAlways, BattleAlways, TypeCorrect, PTL DEF MCSpec
=============================================================================
