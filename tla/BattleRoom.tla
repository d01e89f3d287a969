----------------------------- MODULE BattleRoom -----------------------------
(***************************************************************************)
(* The rooms of the battle server (src/Source/Battle) and the players in   *)
(* them.  Three threads share the room array without a lock: the Auth      *)
(* thread (players enter and leave, waiting rooms get ready and start), the*)
(* Game thread (players are hit, leave, are released; rooms end and close) *)
(* and the worker of the lan client (the master server's replies).  Auth   *)
(* and Game visit every session and every room in each frame; a visit is   *)
(* one action, unless the other thread can reach what it touches: then     *)
(* task[t] is what thread t still has to do.                               *)
(*                                                                         *)
(* The master server and the clients are the environment, reduced to what  *)
(* Master.tla says of one battle server: the rooms it lists, the room it   *)
(* sent each client to, and the places it counts.  Client p always gets    *)
(* session p, which it may use again and again.                            *)
(***************************************************************************)
EXTENDS Integers, Sequences, FiniteSets, SequencesExt

CONSTANTS
    Player,          \* sessions of _playerArray, and their clients
    Nobody,          \* nullptr in roomPlayer
    MaxRoom,         \* _maxRoom
    MaxRoomPlayer,   \* _maxRoomPlayer, the maxUser of every room
    DefaultWaitRoom, \* _defaultWaitRoom
    MaxRoomID,       \* bound on the room numbers in use at one time
    Overlap,         \* may the Auth and Game threads' handlers interleave
    MaxDrop,         \* bound on the losses of the connection to the master
    MaxLoss          \* bound on clients reported lost that still come

ASSUME BattleRoomAssumption ==
    /\ Nobody \notin Player
    /\ MaxRoom \in Nat \ {0}
    /\ MaxRoomPlayer \in Nat \ {0}
    /\ DefaultWaitRoom \in Nat
    /\ MaxRoomID \in Nat
    /\ Overlap \in BOOLEAN
    /\ MaxDrop \in Nat
    /\ MaxLoss \in Nat

VARIABLES
    room,         \* _roomArray
    indexQueue,   \* _roomIndexQueue
    curOpenRoom,  \* _curOpenRoom
    player,       \* _playerArray: the session and the player in it
    task,         \* the handler each of the two threads is in
    linked,       \* is the lan client connected to the master
    bLogin,       \* _bLogin of the lan client
    announce,     \* how far Receive_MasterRequest_Login has come
    toMaster,     \* packets under way to the master
    closeReply,   \* its replies to closed rooms that are under way
    listed,       \* environment: the master's waiting rooms
    seat,         \* environment: the room its session map has for a client
    ticket,       \* environment: the room a client was sent to and may enter
    drops, losses,\* how often the environment failed so far
    crash         \* why the process went down, or "none"

roomVars   == <<room, indexQueue, curOpenRoom>>
clientVars == <<linked, bLogin, announce>>
netVars    == <<toMaster, closeReply>>
envVars    == <<listed, seat, ticket, drops, losses>>
vars       == <<roomVars, player, task, clientVars, netVars, envVars, crash>>

-----------------------------------------------------------------------------
Index       == 0 .. MaxRoom - 1
Slot        == 1 .. MaxRoomPlayer
Thread      == {"auth", "game"}
Room_Status == {"Close", "Wait", "Ready", "Play", "End"}
Mode        == {"NONE", "AUTH", "AUTH_TO_GAME", "GAME", "LOGOUT_IN_AUTH",
                "LOGOUT_IN_GAME", "WAIT_LOGOUT"}

(* A room number is (ID & 0xffff) | (index << 16); 0 is no room's number   *)
(* and that of a closed room.                                              *)
RoomNo      == [id : 0 .. MaxRoomID, index : Index]
NoRoomNo    == [id |-> 0, index |-> 0]
RoomRec     == [status : Room_Status, roomNo : RoomNo, bReady : BOOLEAN,
                bReceived : BOOLEAN, curUser : Int, aliveUser : Int,
                roomPlayer : [Slot -> Player \cup {Nobody}]]
PlayerRec   == [mode : Mode, bLogout : BOOLEAN, bShutdown : BOOLEAN,
                bAuthToGame : BOOLEAN, roomNo : RoomNo, isDead : BOOLEAN]
Steps       == {"idle", "leave", "switch", "kill", "load", "store", "zone"}
TaskRec     == [step : Steps, player : Player \cup {Nobody}, room : Index,
                alive : Int, back : {"idle", "zone"}]
Message     == [type : {"created", "closed", "left"}, roomNo : RoomNo,
                places : Int, player : Player \cup {Nobody}]

Idle == [step |-> "idle", player |-> Nobody, room |-> 0, alive |-> 0,
         back |-> "idle"]

(* InitRoom clears everything but the status, which Open_Room sets next.   *)
InitRoom(no, status) ==
    [status |-> status, roomNo |-> no, bReady |-> FALSE, bReceived |-> FALSE,
     curUser |-> 0, aliveUser |-> 0, roomPlayer |-> [s \in Slot |-> Nobody]]

NewPlayer == [mode |-> "NONE", bLogout |-> FALSE, bShutdown |-> FALSE,
              bAuthToGame |-> FALSE, roomNo |-> NoRoomNo, isDead |-> FALSE]

Init ==
    /\ room = [i \in Index |-> InitRoom(NoRoomNo, "Close")]
    /\ indexQueue = [n \in 1 .. MaxRoom |-> n - 1]
    /\ curOpenRoom = 0
    /\ player = [p \in Player |-> NewPlayer]
    /\ task = [t \in Thread |-> Idle]
    /\ linked = TRUE
    /\ bLogin = TRUE
    /\ announce = [step |-> "idle", room |-> 0]
    /\ toMaster = <<>>
    /\ closeReply = {}
    /\ listed = {}
    /\ seat = [p \in Player |-> NoRoomNo]
    /\ ticket = [p \in Player |-> NoRoomNo]
    /\ drops = 0
    /\ losses = 0
    /\ crash = "none"

-----------------------------------------------------------------------------
(* A thread starts a visit when it is in no other, and, unless visits may  *)
(* overlap, when the other thread is in none either.                       *)
CanVisit(t) ==
    /\ crash = "none"
    /\ task[t].step = "idle"
    /\ Overlap \/ \A u \in Thread : task[u].step = "idle"

At(t, step) == crash = "none" /\ task[t].step = step
Return(t)   == task' = [task EXCEPT ![t] = Idle]

Found(no)     == room[no.index].roomNo = no
SlotsOf(i, p) == {s \in Slot : room[i].roomPlayer[s] = p}
First(S)      == CHOOSE s \in S : \A r \in S : s <= r
SendAll(ms)   == toMaster' = IF linked THEN toMaster \o ms ELSE toMaster
Created(i)    == [type |-> "created", roomNo |-> room[i].roomNo,
                  places |-> MaxRoomPlayer - room[i].curUser, player |-> Nobody]
Closed(no)    == [type |-> "closed", roomNo |-> no, places |-> 0, player |-> Nobody]
Left(no, p)   == [type |-> "left", roomNo |-> no, places |-> 0, player |-> p]

-----------------------------------------------------------------------------
(* The Auth thread.                                                        *)

(* A number nobody holds any more: 65536 rooms are opened before the       *)
(* counter behind it comes back to one that was used.                      *)
Unused(no) ==
    /\ \A i \in Index : room[i].roomNo # no
    /\ \A p \in Player : no \notin {player[p].roomNo, seat[p], ticket[p]}
    /\ \A n \in DOMAIN toMaster : toMaster[n].roomNo # no
    /\ no \notin closeReply
    /\ \A e \in listed : e.roomNo # no

(* Update_RoomCount, one round of its loop: a room is opened and announced *)
(* while fewer rooms than _defaultWaitRoom wait for players.               *)
Update_RoomCount ==
    /\ CanVisit("auth")
    /\ bLogin
    /\ curOpenRoom < DefaultWaitRoom
    /\ indexQueue # <<>>
    /\ LET i == Head(indexQueue) IN
         \E id \in 1 .. MaxRoomID :
            LET no == [id |-> id, index |-> i] IN
              /\ Unused(no)
              /\ room' = [room EXCEPT ![i] = InitRoom(no, "Wait")]
              /\ SendAll(<<[type |-> "created", roomNo |-> no,
                            places |-> MaxRoomPlayer, player |-> Nobody]>>)
    /\ indexQueue' = Tail(indexQueue)
    /\ curOpenRoom' = curOpenRoom + 1
    /\ UNCHANGED <<player, task, clientVars, closeReply, envVars, crash>>

(* Frames: Auth_LeaveProc ends each one, so no session is flagged for the  *)
(* Game thread when Auth_PacketProc looks at it.                           *)
FrameStart == \A p \in Player : ~(player[p].mode = "AUTH" /\ player[p].bAuthToGame)

EntersNow(p) ==
    /\ CanVisit("auth")
    /\ FrameStart
    /\ player[p].mode = "AUTH"
    /\ ~player[p].bLogout
    /\ ticket[p] # NoRoomNo

(* Fault: every time the room fills counts, not only the first.            *)
Request_EnterRoom_CountAgain(p) ==
    /\ EntersNow(p)
    /\ Found(ticket[p])
    /\ LET i == ticket[p].index
           r == room[i]
           full == r.curUser + 1 = MaxRoomPlayer IN
         /\ r.status = "Wait"
         /\ r.curUser # MaxRoomPlayer
         /\ SlotsOf(i, Nobody) # {}
         /\ room' = [room EXCEPT ![i] =
                       [r EXCEPT !.roomPlayer[First(SlotsOf(i, Nobody))] = p,
                                 !.curUser = r.curUser + 1,
                                 !.bReady = r.bReady \/ full]]
         /\ curOpenRoom' = IF full THEN curOpenRoom - 1 ELSE curOpenRoom
         /\ SendAll(IF full THEN <<Closed(r.roomNo)>> ELSE <<>>)
    /\ player' = [player EXCEPT ![p].roomNo = ticket[p]]
    /\ ticket' = [ticket EXCEPT ![p] = NoRoomNo]
    /\ UNCHANGED <<indexQueue, task, clientVars, closeReply, listed, seat,
                   drops, losses, crash>>

(* A client shows its room number and token (the ticket), and is in.       *)
Request_EnterRoom(p) ==
    /\ EntersNow(p)
    /\ Found(ticket[p])
    /\ LET i == ticket[p].index
           r == room[i]
           s == First(SlotsOf(i, Nobody))
           full == r.curUser + 1 = MaxRoomPlayer IN
         /\ r.status = "Wait"
         /\ r.curUser # MaxRoomPlayer
         /\ SlotsOf(i, Nobody) # {}
         /\ room' = [room EXCEPT ![i] =
                       [r EXCEPT !.roomPlayer[s] = p, !.curUser = r.curUser + 1,
                                 !.bReady = r.bReady \/ full]]
         /\ curOpenRoom' = IF full /\ ~r.bReady THEN curOpenRoom - 1 ELSE curOpenRoom
         /\ SendAll(IF full /\ ~r.bReady THEN <<Closed(r.roomNo)>> ELSE <<>>)
    /\ player' = [player EXCEPT ![p].roomNo = ticket[p]]
    /\ ticket' = [ticket EXCEPT ![p] = NoRoomNo]
    /\ UNCHANGED <<indexQueue, task, clientVars, closeReply, listed, seat,
                   drops, losses, crash>>

(* The room is gone: Fail_NoExistRoom.                                     *)
Request_EnterRoom_NoExistRoom(p) ==
    /\ EntersNow(p)
    /\ ~Found(ticket[p])
    /\ player' = [player EXCEPT ![p].roomNo = ticket[p]]
    /\ ticket' = [ticket EXCEPT ![p] = NoRoomNo]
    /\ UNCHANGED <<roomVars, task, clientVars, netVars, listed, seat, drops,
                   losses, crash>>

(* Lines 610, 616 and 644: cCrashDump::Crash() when the room no longer     *)
(* waits, is full, or has no empty slot.                                   *)
Request_EnterRoom_Crash(p) ==
    /\ EntersNow(p)
    /\ Found(ticket[p])
    /\ LET r == room[ticket[p].index] IN
         \/ /\ r.status # "Wait"
            /\ crash' = "not_wait_room"
         \/ /\ r.status = "Wait"
            /\ r.curUser = MaxRoomPlayer
            /\ crash' = "player_full"
         \/ /\ r.status = "Wait"
            /\ r.curUser # MaxRoomPlayer
            /\ SlotsOf(ticket[p].index, Nobody) = {}
            /\ crash' = "no_slot"
    /\ UNCHANGED <<roomVars, player, task, clientVars, netVars, envVars>>

(* The connection of a session in AUTH mode is gone.                       *)
Auth_PacketProc_Logout(p) ==
    /\ CanVisit("auth")
    /\ FrameStart
    /\ player[p].mode = "AUTH"
    /\ player[p].bLogout
    /\ player' = [player EXCEPT ![p].mode = "LOGOUT_IN_AUTH"]
    /\ UNCHANGED <<roomVars, task, clientVars, netVars, envVars, crash>>

(* A second after the master confirmed that it sends nobody any more.      *)
Update_Room_Wait(i) ==
    /\ CanVisit("auth")
    /\ room[i].status = "Wait"
    /\ room[i].bReady
    /\ room[i].bReceived
    /\ room' = [room EXCEPT ![i].status = "Ready"]
    /\ UNCHANGED <<indexQueue, curOpenRoom, player, task, clientVars, netVars,
                   envVars, crash>>

PlayersIn(i) == {room[i].roomPlayer[s] : s \in Slot} \ {Nobody}

(* Ten seconds later the game starts: everyone in the room is flagged for  *)
(* the Game thread and counted as alive.                                   *)
Update_Room_Ready(i) ==
    /\ CanVisit("auth")
    /\ room[i].status = "Ready"
    /\ player' = [p \in Player |-> IF p \in PlayersIn(i)
                                   THEN [player[p] EXCEPT !.bAuthToGame = TRUE]
                                   ELSE player[p]]
    /\ room' = [room EXCEPT ![i] = [room[i] EXCEPT !.status = "Play",
                                                   !.aliveUser = room[i].curUser]]
    /\ UNCHANGED <<indexQueue, curOpenRoom, task, clientVars, netVars, envVars, crash>>

(* Auth_LogoutProc: the mode changes before the handler of the leave runs. *)
Auth_LogoutProc(p) ==
    /\ CanVisit("auth")
    /\ player[p].mode = "LOGOUT_IN_AUTH"
    /\ player' = [player EXCEPT ![p].mode = "WAIT_LOGOUT"]
    /\ task' = [task EXCEPT !["auth"] = [Idle EXCEPT !.step = "leave", !.player = p]]
    /\ UNCHANGED <<roomVars, clientVars, netVars, envVars, crash>>

Auth_LeaveProc(p) ==
    /\ CanVisit("auth")
    /\ player[p].mode = "AUTH"
    /\ player[p].bAuthToGame
    /\ player' = [player EXCEPT ![p].mode = "AUTH_TO_GAME"]
    /\ UNCHANGED <<roomVars, task, clientVars, netVars, envVars, crash>>

-----------------------------------------------------------------------------
(* Request_Character_LeavePlayer, run by either thread.                    *)

(* Fault: the slot is not cleared.                                          *)
Leave_DeletePlayer_KeepSlot(t) ==
    /\ At(t, "leave")
    /\ LET p == task[t].player
           i == player[p].roomNo.index IN
         IF Found(player[p].roomNo) /\ SlotsOf(i, p) # {}
         THEN /\ room' = [room EXCEPT ![i] = [room[i] EXCEPT !.curUser = @ - 1]]
              /\ task' = [task EXCEPT ![t] = [task[t] EXCEPT !.step = "switch",
                                                             !.room = i]]
         ELSE Return(t) /\ UNCHANGED room
    /\ UNCHANGED <<indexQueue, curOpenRoom, player, clientVars, netVars, envVars, crash>>

(* Fault: curUser does not go down.                                         *)
Leave_DeletePlayer_KeepCount(t) ==
    /\ At(t, "leave")
    /\ LET p == task[t].player
           i == player[p].roomNo.index IN
         IF Found(player[p].roomNo) /\ SlotsOf(i, p) # {}
         THEN /\ room' = [room EXCEPT ![i] = [room[i] EXCEPT !.roomPlayer[First(SlotsOf(i, p))] = Nobody]]
              /\ task' = [task EXCEPT ![t] = [task[t] EXCEPT !.step = "switch",
                                                             !.room = i]]
         ELSE Return(t) /\ UNCHANGED room
    /\ UNCHANGED <<indexQueue, curOpenRoom, player, clientVars, netVars, envVars, crash>>

(* Fault: curUser goes down in a waiting room only.                         *)
Leave_DeletePlayer_OnlyWaiting(t) ==
    /\ At(t, "leave")
    /\ LET p == task[t].player
           i == player[p].roomNo.index IN
         IF Found(player[p].roomNo) /\ SlotsOf(i, p) # {}
         THEN /\ room' = [room EXCEPT ![i] = [room[i] EXCEPT
                    !.roomPlayer[First(SlotsOf(i, p))] = Nobody,
                    !.curUser = IF room[i].status = "Wait" THEN @ - 1 ELSE @]]
              /\ task' = [task EXCEPT ![t] = [task[t] EXCEPT !.step = "switch",
                                                             !.room = i]]
         ELSE Return(t) /\ UNCHANGED room
    /\ UNCHANGED <<indexQueue, curOpenRoom, player, clientVars, netVars, envVars, crash>>

(* The player is taken out of the room its number names, ...               *)
Leave_DeletePlayer(t) ==
    /\ At(t, "leave")
    /\ LET p == task[t].player
           i == player[p].roomNo.index IN
         IF Found(player[p].roomNo) /\ SlotsOf(i, p) # {}
         THEN /\ room' = [room EXCEPT ![i] =
                            [room[i] EXCEPT !.roomPlayer[First(SlotsOf(i, p))] = Nobody,
                                            !.curUser = @ - 1]]
              /\ task' = [task EXCEPT ![t] = [task[t] EXCEPT !.step = "switch",
                                                             !.room = i]]
         ELSE Return(t) /\ UNCHANGED room
    /\ UNCHANGED <<indexQueue, curOpenRoom, player, clientVars, netVars, envVars, crash>>

(* ... in a waiting room its place is given back to the master, unless the *)
(* room is closed there already; in a game it is one less alive.           *)
Leave_Status(t) ==
    /\ At(t, "switch")
    /\ LET p == task[t].player
           r == room[task[t].room] IN
         /\ SendAll(IF r.status = "Wait" /\ ~r.bReady
                    THEN <<Left(player[p].roomNo, p)>> ELSE <<>>)
         /\ IF r.status = "Play" /\ ~player[p].isDead
            THEN task' = [task EXCEPT ![t].step = "load"]
            ELSE Return(t)
    /\ UNCHANGED <<roomVars, player, clientVars, closeReply, envVars, crash>>

(* --pRoom->aliveUser is a load and a store: the two threads may do it at  *)
(* the same time.  A player that leaves or is burnt is marked dead after   *)
(* it (one that was hit is dead already).                                  *)
Die_Load(t) ==
    /\ At(t, "load")
    /\ task' = [task EXCEPT ![t] = [task[t] EXCEPT
                  !.step = "store", !.alive = room[task[t].room].aliveUser]]
    /\ UNCHANGED <<roomVars, player, clientVars, netVars, envVars, crash>>

Die_Store(t) ==
    /\ At(t, "store")
    /\ room' = [room EXCEPT ![task[t].room].aliveUser = task[t].alive - 1]
    /\ player' = [player EXCEPT ![task[t].player].isDead = TRUE]
    /\ task' = [task EXCEPT ![t] = IF task[t].back = "idle" THEN Idle
                                   ELSE [Idle EXCEPT !.step = "zone",
                                                     !.room = task[t].room]]
    /\ UNCHANGED <<indexQueue, curOpenRoom, clientVars, netVars, envVars, crash>>

-----------------------------------------------------------------------------
(* The Game thread.                                                        *)

(* Line 687: cCrashDump::Crash() when the room of a player that comes to   *)
(* play is gone.                                                           *)
Game_AuthToGameProc(p) ==
    /\ CanVisit("game")
    /\ player[p].mode = "AUTH_TO_GAME"
    /\ player' = [player EXCEPT ![p].mode = "GAME"]
    /\ crash' = IF Found(player[p].roomNo) THEN "none" ELSE "no_room"
    /\ UNCHANGED <<roomVars, task, clientVars, netVars, envVars>>

Game_PacketProc_Logout(p) ==
    /\ CanVisit("game")
    /\ player[p].mode = "GAME"
    /\ player[p].bLogout
    /\ player' = [player EXCEPT ![p].mode = "LOGOUT_IN_GAME"]
    /\ UNCHANGED <<roomVars, task, clientVars, netVars, envVars, crash>>

(* Bound: a session that was released while its room still has it (see     *)
(* LeaversLeaveTheirRoom) could die there once for every client it serves; *)
(* below two alive the game is over whatever the count is.                 *)
AliveBound(i) == room[i].aliveUser >= 0

(* Request_Character_HitDamage, when it takes the target's last hp: the    *)
(* target is found alive, ...                                              *)
Request_Character_HitDamage(p) ==
    /\ CanVisit("game")
    /\ player[p].mode = "GAME"
    /\ ~player[p].bLogout
    /\ Found(player[p].roomNo)
    /\ AliveBound(player[p].roomNo.index)
    /\ \E v \in PlayersIn(player[p].roomNo.index) :
         /\ ~player[v].isDead
         /\ task' = [task EXCEPT !["game"] = [Idle EXCEPT
                       !.step = "kill", !.player = v,
                       !.room = player[p].roomNo.index]]
    /\ UNCHANGED <<roomVars, player, clientVars, netVars, envVars, crash>>

(* ... then marked dead, before the count goes down.                       *)
HitDamage_Kill ==
    /\ At("game", "kill")
    /\ player' = [player EXCEPT ![task["game"].player].isDead = TRUE]
    /\ task' = [task EXCEPT !["game"].step = "load"]
    /\ UNCHANGED <<roomVars, clientVars, netVars, envVars, crash>>

(* Update_Room_Play: the red zone takes the last hp of some players, ...   *)
Update_Room_Play(i) ==
    /\ CanVisit("game")
    /\ room[i].status = "Play"
    /\ task' = [task EXCEPT !["game"] = [Idle EXCEPT !.step = "zone", !.room = i]]
    /\ UNCHANGED <<roomVars, player, clientVars, netVars, envVars, crash>>

Update_Room_Play_RedZone ==
    /\ At("game", "zone")
    /\ AliveBound(task["game"].room)
    /\ \E v \in PlayersIn(task["game"].room) :
         /\ ~player[v].isDead
         /\ task' = [task EXCEPT !["game"] = [task["game"] EXCEPT
                       !.step = "load", !.player = v, !.back = "zone"]]
    /\ UNCHANGED <<roomVars, player, clientVars, netVars, envVars, crash>>

(* Fault: the game ends only when nobody is left.                          *)
Update_Room_Play_Result_Nobody ==
    /\ At("game", "zone")
    /\ LET i == task["game"].room IN
         room' = IF room[i].aliveUser < 1 THEN [room EXCEPT ![i].status = "End"]
                 ELSE room
    /\ Return("game")
    /\ UNCHANGED <<indexQueue, curOpenRoom, player, clientVars, netVars, envVars, crash>>

(* ... and the game ends when at most one player is left.                  *)
Update_Room_Play_Result ==
    /\ At("game", "zone")
    /\ LET i == task["game"].room IN
         room' = IF room[i].aliveUser <= 1 THEN [room EXCEPT ![i].status = "End"]
                 ELSE room
    /\ Return("game")
    /\ UNCHANGED <<indexQueue, curOpenRoom, player, clientVars, netVars, envVars, crash>>

(* Everyone left, or five seconds passed: long enough for the players that *)
(* were flagged to come to the Game thread.                                *)
Arrived(i) ==
    \A p \in Player : player[p].roomNo = room[i].roomNo =>
                         player[p].mode \notin {"AUTH", "AUTH_TO_GAME"}

(* Fault: the room keeps its status, and is closed in every frame.          *)
Update_Room_End_KeepStatus(i) ==
    /\ CanVisit("game")
    /\ room[i].status = "End"
    /\ room[i].curUser = 0 \/ Arrived(i)
    /\ player' = [p \in Player |-> IF p \in PlayersIn(i)
                                   THEN [player[p] EXCEPT !.bShutdown = TRUE]
                                   ELSE player[p]]
    /\ room' = [room EXCEPT ![i] = [room[i] EXCEPT !.roomNo = NoRoomNo]]
    /\ indexQueue' = Append(indexQueue, i)
    /\ UNCHANGED <<curOpenRoom, task, clientVars, netVars, envVars, crash>>

(* Fault: the five seconds do not count.                                    *)
Update_Room_End_OnlyEmpty(i) ==
    /\ CanVisit("game")
    /\ room[i].status = "End"
    /\ room[i].curUser = 0
    /\ player' = [p \in Player |-> IF p \in PlayersIn(i)
                                   THEN [player[p] EXCEPT !.bShutdown = TRUE]
                                   ELSE player[p]]
    /\ room' = [room EXCEPT ![i] = [room[i] EXCEPT !.status = "Close", !.roomNo = NoRoomNo]]
    /\ indexQueue' = Append(indexQueue, i)
    /\ UNCHANGED <<curOpenRoom, task, clientVars, netVars, envVars, crash>>

Update_Room_End(i) ==
    /\ CanVisit("game")
    /\ room[i].status = "End"
    /\ room[i].curUser = 0 \/ Arrived(i)
    /\ player' = [p \in Player |-> IF p \in PlayersIn(i)
                                   THEN [player[p] EXCEPT !.bShutdown = TRUE]
                                   ELSE player[p]]
    /\ room' = [room EXCEPT ![i] = [room[i] EXCEPT !.status = "Close",
                                                   !.roomNo = NoRoomNo]]
    /\ indexQueue' = Append(indexQueue, i)
    /\ UNCHANGED <<curOpenRoom, task, clientVars, netVars, envVars, crash>>

Game_LeaveProc(p) ==
    /\ CanVisit("game")
    /\ player[p].mode = "LOGOUT_IN_GAME"
    /\ player' = [player EXCEPT ![p].mode = "WAIT_LOGOUT"]
    /\ task' = [task EXCEPT !["game"] = [Idle EXCEPT !.step = "leave", !.player = p]]
    /\ UNCHANGED <<roomVars, clientVars, netVars, envVars, crash>>

(* OnGame_ClientRelease (InitPlayer) and ReleaseSession: the session may   *)
(* serve another client.                                                   *)
Game_ReleaseProc(p) ==
    /\ CanVisit("game")
    /\ player[p].mode = "WAIT_LOGOUT"
    /\ player' = [player EXCEPT ![p] = [player[p] EXCEPT
                    !.mode = "NONE", !.roomNo = NoRoomNo, !.isDead = FALSE]]
    /\ UNCHANGED <<roomVars, task, clientVars, netVars, envVars, crash>>

-----------------------------------------------------------------------------
(* The lan client: its worker handles one packet after another.            *)

(* OnEnterJoinServer sends the login, ...                                  *)
Connect ==
    /\ crash = "none"
    /\ ~linked
    /\ linked' = TRUE
    /\ announce' = [step |-> "login", room |-> 0]
    /\ UNCHANGED <<roomVars, player, task, bLogin, netVars, envVars, crash>>

(* ... and at the reply the waiting rooms are announced one by one with    *)
(* the places they have left, ...                                          *)
Announcing(step) == crash = "none" /\ announce.step = step

Response_Master_Login ==
    /\ Announcing("login")
    /\ announce' = [step |-> "created", room |-> 0]
    /\ UNCHANGED <<roomVars, player, task, linked, bLogin, netVars, envVars, crash>>

(* ... closed at once when they have none, ...                             *)
NextRoom(i) == IF i + 1 = MaxRoom THEN [step |-> "done", room |-> 0]
               ELSE [step |-> "created", room |-> i + 1]

Receive_MasterRequest_Login_Created ==
    /\ Announcing("created")
    /\ LET i == announce.room IN
         IF room[i].status = "Wait"
         THEN /\ SendAll(<<Created(i)>>)
              /\ announce' = [announce EXCEPT !.step = "full"]
         ELSE announce' = NextRoom(i) /\ UNCHANGED toMaster
    /\ UNCHANGED <<roomVars, player, task, linked, bLogin, closeReply, envVars, crash>>

Receive_MasterRequest_Login_Full ==
    /\ Announcing("full")
    /\ LET i == announce.room IN
         /\ SendAll(IF room[i].curUser = MaxRoomPlayer
                    THEN <<Closed(room[i].roomNo)>> ELSE <<>>)
         /\ announce' = NextRoom(i)
    /\ UNCHANGED <<roomVars, player, task, linked, bLogin, closeReply, envVars, crash>>

(* ... and only then the Auth thread may open rooms.                       *)
Receive_MasterRequest_Login_Done ==
    /\ Announcing("done")
    /\ bLogin' = TRUE
    /\ announce' = [step |-> "idle", room |-> 0]
    /\ UNCHANGED <<roomVars, player, task, linked, netVars, envVars, crash>>

Receive_MasterRequest_CloseRoom(no) ==
    /\ Announcing("idle")
    /\ no \in closeReply
    /\ closeReply' = closeReply \ {no}
    /\ room' = IF Found(no) THEN [room EXCEPT ![no.index].bReceived = TRUE] ELSE room
    /\ UNCHANGED <<indexQueue, curOpenRoom, player, task, clientVars, toMaster,
                   envVars, crash>>

(* The connection is lost, never in the middle of a handler (the I/O count *)
(* of the session holds it); the master forgets this battle server.        *)
OnLeaveServer ==
    /\ crash = "none"
    /\ linked
    /\ announce.step \in {"idle", "login"}
    /\ drops < MaxDrop
    /\ drops' = drops + 1
    /\ linked' = FALSE
    /\ bLogin' = FALSE
    /\ announce' = [step |-> "idle", room |-> 0]
    /\ toMaster' = <<>>
    /\ closeReply' = {}
    /\ listed' = {}
    /\ seat' = [p \in Player |-> NoRoomNo]
    /\ UNCHANGED <<roomVars, player, task, ticket, losses, crash>>

-----------------------------------------------------------------------------
(* Environment: the master server handles the packets in order, ...        *)

GiveBack(no) == {IF e.roomNo = no THEN [e EXCEPT !.places = @ + 1] ELSE e : e \in listed}

Master_Handle ==
    /\ crash = "none"
    /\ toMaster # <<>>
    /\ LET m == Head(toMaster) IN
         \/ /\ m.type = "created"
            /\ listed' = IF \E e \in listed : e.roomNo = m.roomNo THEN listed
                         ELSE listed \cup {[roomNo |-> m.roomNo, places |-> m.places]}
            /\ UNCHANGED <<seat, closeReply>>
         \/ /\ m.type = "closed"
            /\ listed' = {e \in listed : e.roomNo # m.roomNo}
            /\ seat' = [p \in Player |-> IF seat[p] = m.roomNo THEN NoRoomNo ELSE seat[p]]
            /\ closeReply' = closeReply \cup {m.roomNo}
         \/ /\ m.type = "left"
            /\ seat[m.player] = m.roomNo
            /\ listed' = GiveBack(m.roomNo)
            /\ seat' = [seat EXCEPT ![m.player] = NoRoomNo]
            /\ UNCHANGED closeReply
         \/ /\ m.type = "left"
            /\ seat[m.player] # m.roomNo
            /\ UNCHANGED <<listed, seat, closeReply>>
    /\ toMaster' = Tail(toMaster)
    /\ UNCHANGED <<roomVars, player, task, clientVars, ticket, drops, losses, crash>>

(* ... sends a client that asks for a room to one that has a place, ...    *)
Master_SendClient(p) ==
    /\ crash = "none"
    /\ player[p].mode = "NONE"
    /\ ticket[p] = NoRoomNo
    /\ \E e \in listed :
         /\ e.places > 0
         /\ listed' = (listed \ {e}) \cup {[e EXCEPT !.places = @ - 1]}
         /\ seat' = [seat EXCEPT ![p] = e.roomNo]
         /\ ticket' = [ticket EXCEPT ![p] = e.roomNo]
    /\ UNCHANGED <<roomVars, player, task, clientVars, netVars, drops, losses, crash>>

(* ... and takes the place back when the match server reports that it lost *)
(* the client before it said it was in; the client may come all the same.  *)
Master_ClientLost(p) ==
    /\ crash = "none"
    /\ losses < MaxLoss
    /\ seat[p] # NoRoomNo
    /\ losses' = losses + 1
    /\ listed' = GiveBack(seat[p])
    /\ seat' = [seat EXCEPT ![p] = NoRoomNo]
    /\ UNCHANGED <<roomVars, player, task, clientVars, netVars, ticket, drops, crash>>

(* Connections of clients, which come and go as they like.                 *)
Accept_Complete(p) ==
    /\ crash = "none"
    /\ player[p].mode = "NONE"
    /\ ticket[p] # NoRoomNo
    /\ player' = [player EXCEPT ![p] = [player[p] EXCEPT
                    !.mode = "AUTH", !.bLogout = FALSE, !.bShutdown = FALSE,
                    !.bAuthToGame = FALSE]]
    /\ UNCHANGED <<roomVars, task, clientVars, netVars, envVars, crash>>

Connected(p) == player[p].mode \in {"AUTH", "AUTH_TO_GAME", "GAME"} /\ ~player[p].bLogout

ConnectionLost(p) ==
    /\ crash = "none"
    /\ Connected(p)
    /\ player' = [player EXCEPT ![p].bLogout = TRUE]
    /\ UNCHANGED <<roomVars, task, clientVars, netVars, envVars, crash>>

-----------------------------------------------------------------------------
Leaving(t) ==
    Leave_DeletePlayer(t) \/ Leave_Status(t) \/ Die_Load(t) \/ Die_Store(t)

AuthThread ==
    \/ Update_RoomCount
    \/ \E p \in Player : \/ Request_EnterRoom(p)
                         \/ Request_EnterRoom_NoExistRoom(p)
                         \/ Request_EnterRoom_Crash(p)
                         \/ Auth_PacketProc_Logout(p)
                         \/ Auth_LogoutProc(p)
                         \/ Auth_LeaveProc(p)
    \/ \E i \in Index : Update_Room_Wait(i) \/ Update_Room_Ready(i)
    \/ Leaving("auth")

GameThread ==
    \/ \E p \in Player : \/ Game_AuthToGameProc(p)
                         \/ Game_PacketProc_Logout(p)
                         \/ Request_Character_HitDamage(p)
                         \/ Game_LeaveProc(p)
                         \/ Game_ReleaseProc(p)
    \/ \E i \in Index : Update_Room_Play(i) \/ Update_Room_End(i)
    \/ HitDamage_Kill
    \/ Update_Room_Play_RedZone
    \/ Update_Room_Play_Result
    \/ Leaving("game")

LanClient ==
    \/ Connect
    \/ Response_Master_Login
    \/ Receive_MasterRequest_Login_Created
    \/ Receive_MasterRequest_Login_Full
    \/ Receive_MasterRequest_Login_Done
    \/ \E no \in closeReply : Receive_MasterRequest_CloseRoom(no)

Environment ==
    \/ OnLeaveServer
    \/ Master_Handle
    \/ \E p \in Player : \/ Master_SendClient(p)
                         \/ Master_ClientLost(p)
                         \/ Accept_Complete(p)
                         \/ ConnectionLost(p)

Next == AuthThread \/ GameThread \/ LanClient \/ Environment

Spec == Init /\ [][Next]_vars

-----------------------------------------------------------------------------
(* Properties.                                                             *)

(* Every variable keeps the type of the field it stands for.               *)
TypeOK ==
    /\ room \in [Index -> RoomRec]
    /\ indexQueue \in Seq(Index)
    /\ curOpenRoom \in Int
    /\ player \in [Player -> PlayerRec]
    /\ task \in [Thread -> TaskRec]
    /\ linked \in BOOLEAN
    /\ bLogin \in BOOLEAN
    /\ announce \in [step : {"idle", "login", "created", "full", "done"}, room : Index]
    /\ toMaster \in Seq(Message)
    /\ closeReply \subseteq RoomNo
    /\ listed \subseteq [roomNo : RoomNo, places : Int]
    /\ seat \in [Player -> RoomNo]
    /\ ticket \in [Player -> RoomNo]
    /\ drops \in 0 .. MaxDrop
    /\ losses \in 0 .. MaxLoss
    /\ crash \in {"none", "not_wait_room", "player_full", "no_slot", "no_room"}

(* A room is free to be opened exactly when the Game thread closed it: no  *)
(* index is in the queue twice, none is lost, and no room in use is in it, *)
(* though one thread takes indices out and another puts them back.         *)
IndexQueueExact ==
    /\ IsInjective(indexQueue)
    /\ \A i \in Index :
         room[i].status = "Close" <=> \E n \in DOMAIN indexQueue : indexQueue[n] = i

(* _curOpenRoom, which decides how many rooms are opened, counts the rooms *)
(* that still take players, however often one fills and empties again.     *)
OpenRoomCountExact ==
    curOpenRoom = Cardinality({i \in Index : room[i].status = "Wait" /\ ~room[i].bReady})

(* curUser, on which Update_Room_End and the admission rely, is the number *)
(* of players in the room, with both threads taking players out.           *)
CurUserExact ==
    \A i \in Index :
        room[i].status # "Close" =>
            room[i].curUser = MaxRoomPlayer - Cardinality(SlotsOf(i, Nobody))

(* While a room takes players, the places the master may still give out,   *)
(* those it gave out, those on their way back to it and the players in the *)
(* room never exceed the size of the room: Open_Room, Request_EnterRoom    *)
(* and Request_Character_LeavePlayer never announce one place twice.       *)
Offered(no) ==
    LET Listed == {e \in listed : e.roomNo = no}
        Sent   == {n \in DOMAIN toMaster : toMaster[n].roomNo = no}
        Count(n) == IF toMaster[n].type = "left" THEN 1 ELSE toMaster[n].places IN
      MapThenSumSet(LAMBDA e : e.places, Listed) + MapThenSumSet(Count, Sent)

PlacesNotOverbooked ==
    \A i \in Index :
        room[i].status = "Wait" /\ ~room[i].bReady =>
            Offered(room[i].roomNo) + room[i].curUser
              + Cardinality({p \in Player : ticket[p] = room[i].roomNo})
              <= MaxRoomPlayer

(* The assertions at lines 610, 616 and 644 (cCrashDump::Crash): a client  *)
(* the master sent always finds its room waiting, with a place left.       *)
AdmissionNeverFails == crash \notin {"not_wait_room", "player_full", "no_slot"}

(* Claimed by the comment at line 839-840: a player that leaves is found in*)
(* its room and taken out.  So no room keeps a session that was released,  *)
(* and may serve a client who is somewhere else.                           *)
LeaversLeaveTheirRoom ==
    \A i \in Index :
        room[i].status # "Close" =>
            \A p \in PlayersIn(i) : player[p].roomNo = room[i].roomNo

(* Claimed by the comment at line 303: when one player is left alive the   *)
(* players get their results.  So the check of a room where at most one    *)
(* player is alive, and none is just leaving, ends the game, as long as    *)
(* the room holds its own players only, each once.                         *)
Survivors(i) == {p \in PlayersIn(i) : ~player[p].isDead}
OwnPlayers(i) ==
    \A p \in PlayersIn(i) :
        player[p].roomNo = room[i].roomNo /\ Cardinality(SlotsOf(i, p)) = 1

LastSurvivorEndsGame ==
    [][\A i \in Index :
          /\ Update_Room_Play_Result
          /\ task["game"].room = i
          /\ task["auth"].step = "idle"
          /\ OwnPlayers(i)
          /\ Cardinality(Survivors(i)) <= 1
          => room'[i].status = "End"]_vars
=============================================================================
