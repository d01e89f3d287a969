-------------------------- MODULE BattleRoomProofs --------------------------
(***************************************************************************)
(* Theorems about BattleRoom for every number of players, rooms and places *)
(* and any number of losses, with both threads running their handlers at   *)
(* once, but for LeaversAreOut and GamesEndWithLastSurvivor, which exclude *)
(* that.  IInv is inductive: to the counts it adds what a handler in the   *)
(* middle of its work may rely on; MembersInv adds where players are,      *)
(* AliveInv who of them is alive, AdmitInv what the link carries while     *)
(* nothing is lost and whose every place is.                               *)
(***************************************************************************)
EXTENDS MCBattleRoom, FiniteSetTheorems, SequenceTheorems, TLAPS

(* A handler about to take a player out, or to count it dead, has one.     *)
HandlersHavePlayer ==
    \A t \in Thread :
        task[t].step \in {"leave", "switch", "kill", "load", "store"} =>
            task[t].player \in Player

(* Only the Game thread ends games, and nobody else ends the one it is at: *)
(* Update_Room_Play_Result never takes up a room that was closed meanwhile.*)
PlayChecksPlay ==
    /\ task["auth"].step # "zone" /\ task["auth"].back = "idle"
    /\ task["game"].back = "zone" => task["game"].step \in {"load", "store"}
    /\ task["game"].step = "zone" \/ task["game"].back = "zone" =>
         room[task["game"].room].status = "Play"

CountsExact == IndexQueueExact /\ OpenRoomCountExact /\ CurUserExact

IInv == TypeOK /\ HandlersHavePlayer /\ PlayChecksPlay /\ CountsExact

OpenRooms == {i \in Index : room[i].status = "Wait" /\ ~room[i].bReady}

-----------------------------------------------------------------------------
(* The first of some slots is one of them: AddPlayer_Room takes an empty   *)
(* slot and DeletePlayer_Room the player's.  The ranges 1 .. s shrink only *)
(* finitely often.                                                         *)
LEMMA FirstSlot ==
    ASSUME NEW S \in SUBSET Slot, S # {}
    PROVE  First(S) \in S
<1> DEFINE T == {1 .. s : s \in S}
           R == StrictSubsetOrdering(Nat)
<1>1. S \subseteq Nat
  BY BattleRoomAssumption DEF Slot
<1>2. T \subseteq FiniteSubsetsOf(Nat)
  BY <1>1, FS_Interval DEF FiniteSubsetsOf
<1>3. T # {}
  OBVIOUS
<1>4. IsWellFoundedOn(R, FiniteSubsetsOf(Nat))
  BY FS_StrictSubsetOrderingWellFounded
<1>5. PICK x \in T : \A y \in T : ~(<<y, x>> \in R)
  <2> HIDE DEF T, R
  <2> QED
    BY <1>2, <1>3, <1>4, WFMin
<1>6. PICK s \in S : x = 1 .. s
  OBVIOUS
<1>7. ASSUME NEW r \in S PROVE s <= r
  <2>1. SUFFICES ASSUME r < s PROVE FALSE
    BY <1>1
  <2>2. 1 .. r \subseteq 1 .. s /\ 1 .. r # 1 .. s
    BY <1>1, <2>1, BattleRoomAssumption DEF Slot
  <2>3. <<1 .. r, 1 .. s>> \in R
    BY <1>1, <2>2 DEF StrictSubsetOrdering
  <2>4. QED
    BY <1>5, <1>6, <2>3
<1>8. QED
  BY <1>7 DEF First

(* The slots of a room a player is in are finitely many.                   *)
LEMMA SlotsFinite ==
    /\ IsFiniteSet(Slot)
    /\ Cardinality(Slot) = MaxRoomPlayer
    /\ IsFiniteSet(Index)
  BY FS_Interval, BattleRoomAssumption DEF Slot, Index

-----------------------------------------------------------------------------
(* Type correctness.                                                       *)

(* A room that is opened or closed is a room record.                       *)
LEMMA InitRoomType ==
    ASSUME NEW no \in RoomNo, NEW status \in Room_Status
    PROVE  InitRoom(no, status) \in RoomRec
  BY DEF InitRoom, RoomRec

(* The null values are of their types.                                     *)
LEMMA NullTypes ==
    /\ NoRoomNo \in RoomNo
    /\ NewPlayer \in PlayerRec
    /\ Idle \in TaskRec
  BY BattleRoomAssumption DEF NoRoomNo, RoomNo, Index, NewPlayer, PlayerRec, Mode,
     Idle, TaskRec, Steps

(* The start of a battle server satisfies the invariant.                   *)
LEMMA InitInv == Init => IInv
<1> SUFFICES ASSUME Init PROVE IInv
  OBVIOUS
<1> USE BattleRoomAssumption
<1>1. TypeOK
  BY InitRoomType, NullTypes DEF Init, Room_Status, Index, TypeOK
<1>2. HandlersHavePlayer
  BY DEF Init, HandlersHavePlayer, Thread, Idle
<1>3. PlayChecksPlay
  BY DEF Init, PlayChecksPlay, Thread, Idle
<1>4. IndexQueueExact
  BY DEF Init, IsInjective, Index, InitRoom, IndexQueueExact
<1>5. OpenRoomCountExact
  BY FS_EmptySet DEF Init, InitRoom, OpenRoomCountExact
<1>6. CurUserExact
  BY DEF Init, InitRoom, CurUserExact
<1>7. QED
  BY <1>1, <1>2, <1>3, <1>4, <1>5, <1>6 DEF IInv, CountsExact

(* Packets for the master join the link, when there is one.                *)
LEMMA SendAllType ==
    ASSUME toMaster \in Seq(Message), NEW ms \in Seq(Message), SendAll(ms)
    PROVE  toMaster' \in Seq(Message)
  BY ConcatProperties DEF SendAll

(* The packets for the master are messages.                                *)
LEMMA MessageTypes ==
    /\ \A no \in RoomNo, n \in Int :
         <<[type |-> "created", roomNo |-> no, places |-> n, player |-> Nobody]>>
           \in Seq(Message)
    /\ \A no \in RoomNo : <<Closed(no)>> \in Seq(Message)
    /\ \A no \in RoomNo, p \in Player : <<Left(no, p)>> \in Seq(Message)
    /\ <<>> \in Seq(Message)
  BY DEF Message, Closed, Left

(* A thread that ends its handler is idle.                                 *)
LEMMA ReturnType ==
    ASSUME task \in [Thread -> TaskRec], NEW t \in Thread, Return(t)
    PROVE  task' \in [Thread -> TaskRec]
  BY NullTypes DEF Return

(* A room number names a place of the room array.                          *)
LEMMA RoomNoIndex == \A no \in RoomNo : no.index \in Index
  BY DEF RoomNo

(* Writing a field of a room leaves a room record.                         *)
LEMMA RoomFields ==
    ASSUME NEW r \in RoomRec, NEW n \in Int, NEW b \in BOOLEAN, NEW s,
           NEW q \in Player \cup {Nobody}
    PROVE  /\ [r EXCEPT !.roomPlayer[s] = q, !.curUser = n, !.bReady = b] \in RoomRec
           /\ [r EXCEPT !.roomPlayer[s] = q, !.curUser = n] \in RoomRec
           /\ [r EXCEPT !.aliveUser = n] \in RoomRec
  BY DEF RoomRec

(* Taking a player out of its room keeps the types, on either thread.      *)
LEMMA TypeLeaving ==
    ASSUME TypeOK, HandlersHavePlayer, NEW t \in Thread, Leaving(t)
    PROVE  TypeOK'
<1> USE BattleRoomAssumption, NullTypes, MessageTypes, RoomNoIndex
    DEF roomVars, clientVars, netVars, envVars
<1>0. /\ room \in [Index -> RoomRec] /\ player \in [Player -> PlayerRec]
      /\ task \in [Thread -> TaskRec] /\ toMaster \in Seq(Message)
  BY DEF TypeOK
<1> DEFINE p == task[t].player
<1>1. CASE Leave_DeletePlayer(t)
  <2>1. p \in Player
    BY <1>1 DEF Leave_DeletePlayer, At, HandlersHavePlayer
  <2> DEFINE i == player[p].roomNo.index
  <2>2. i \in Index
    BY <1>0, <2>1 DEF PlayerRec
  <2>3. CASE Found(player[p].roomNo) /\ SlotsOf(i, p) # {}
    <3>1. room' \in [Index -> RoomRec]
      <4>1. room' = [room EXCEPT ![i] =
                       [room[i] EXCEPT !.roomPlayer[First(SlotsOf(i, p))] = Nobody,
                                       !.curUser = room[i].curUser - 1]]
        BY <1>1, <2>3 DEF Leave_DeletePlayer
      <4>2. room[i] \in RoomRec /\ room[i].curUser - 1 \in Int
        BY <1>0, <2>2 DEF RoomRec
      <4>3. [room[i] EXCEPT !.roomPlayer[First(SlotsOf(i, p))] = Nobody,
                            !.curUser = room[i].curUser - 1] \in RoomRec
        BY <4>2, RoomFields
      <4>4. QED
        BY <1>0, <4>1, <4>3
    <3>2. task' \in [Thread -> TaskRec]
      <4>1. task' = [task EXCEPT ![t] = [task[t] EXCEPT !.step = "switch", !.room = i]]
        BY <1>1, <2>3 DEF Leave_DeletePlayer
      <4>2. QED
        BY <1>0, <2>2, <4>1 DEF TaskRec, Steps
    <3>3. QED
      BY <1>1, <3>1, <3>2 DEF Leave_DeletePlayer, TypeOK
  <2>4. CASE ~(Found(player[p].roomNo) /\ SlotsOf(i, p) # {})
    BY <1>1, <2>4, <1>0, ReturnType DEF Leave_DeletePlayer, TypeOK
  <2>5. QED
    BY <2>3, <2>4
<1>2. CASE Leave_Status(t)
  <2>1. p \in Player
    BY <1>2 DEF Leave_Status, At, HandlersHavePlayer
  <2> DEFINE r == room[task[t].room]
  <2>2. toMaster' \in Seq(Message)
    BY <1>0, <2>1, <1>2, SendAllType DEF PlayerRec, Leave_Status
  <2>3. task' \in [Thread -> TaskRec]
    <3>1. CASE r.status = "Play" /\ ~player[p].isDead
      <4>1. task' = [task EXCEPT ![t].step = "load"]
        BY <1>2, <3>1 DEF Leave_Status
      <4>2. QED
        BY <1>0, <4>1 DEF TaskRec, Steps
    <3>2. CASE ~(r.status = "Play" /\ ~player[p].isDead)
      BY <1>0, <1>2, <3>2, ReturnType DEF Leave_Status
    <3>3. QED
      BY <3>1, <3>2
  <2>4. QED
    BY <1>2, <2>2, <2>3 DEF Leave_Status, TypeOK
<1>3. CASE Die_Load(t)
  BY <1>0, <1>3 DEF Die_Load, TaskRec, Steps, RoomRec, TypeOK
<1>4. CASE Die_Store(t)
  <2>1. room' \in [Index -> RoomRec]
    <3>1. task[t].room \in Index /\ task[t].alive - 1 \in Int
      BY <1>0 DEF TaskRec
    <3>2. QED
      BY <1>0, <1>4, <3>1, RoomFields DEF Die_Store
  <2>2. player' \in [Player -> PlayerRec]
    BY <1>0, <1>4 DEF Die_Store, PlayerRec
  <2>3. task' \in [Thread -> TaskRec]
    BY <1>0, <1>4 DEF Die_Store, TaskRec, Steps, Idle
  <2>4. QED
    BY <1>4, <2>1, <2>2, <2>3 DEF Die_Store, TypeOK
<1>5. QED
  BY <1>1, <1>2, <1>3, <1>4 DEF Leaving

(* The Auth thread keeps the types.                                        *)
LEMMA TypeAuth ==
    ASSUME TypeOK, HandlersHavePlayer, AuthThread
    PROVE  TypeOK'
<1> USE BattleRoomAssumption, NullTypes, MessageTypes, RoomNoIndex
    DEF roomVars, clientVars, netVars, envVars
<1>0. /\ room \in [Index -> RoomRec] /\ player \in [Player -> PlayerRec]
      /\ task \in [Thread -> TaskRec] /\ ticket \in [Player -> RoomNo]
      /\ indexQueue \in Seq(Index) /\ curOpenRoom \in Int
      /\ toMaster \in Seq(Message)
  BY DEF TypeOK
<1>1. CASE Update_RoomCount
  <2>1. Head(indexQueue) \in Index /\ indexQueue' \in Seq(Index)
    BY <1>0, <1>1, HeadTailProperties DEF Update_RoomCount
  <2>2. PICK id \in 1 .. MaxRoomID :
          LET no == [id |-> id, index |-> Head(indexQueue)] IN
            /\ room' = [room EXCEPT ![Head(indexQueue)] = InitRoom(no, "Wait")]
            /\ SendAll(<<[type |-> "created", roomNo |-> no,
                          places |-> MaxRoomPlayer, player |-> Nobody]>>)
    BY <1>1 DEF Update_RoomCount
  <2>3. [id |-> id, index |-> Head(indexQueue)] \in RoomNo
    BY <2>1 DEF RoomNo
  <2>4. room' \in [Index -> RoomRec]
    BY <1>0, <2>2, <2>3, InitRoomType DEF Room_Status
  <2>5. toMaster' \in Seq(Message)
    <3> DEFINE no == [id |-> id, index |-> Head(indexQueue)]
               ms == <<[type |-> "created", roomNo |-> no,
                        places |-> MaxRoomPlayer, player |-> Nobody]>>
    <3>1. ms \in Seq(Message)
      BY <2>3
    <3>2. SendAll(ms)
      BY <2>2
    <3>3. QED
      BY <1>0, <3>1, <3>2, SendAllType
  <2>6. QED
    BY <1>0, <1>1, <2>1, <2>4, <2>5 DEF Update_RoomCount, TypeOK
<1>2. ASSUME NEW p \in Player, Request_EnterRoom(p) PROVE TypeOK'
  <2> DEFINE i == ticket[p].index
             r == room[i]
             s == First(SlotsOf(i, Nobody))
             full == r.curUser + 1 = MaxRoomPlayer
  <2>1. i \in Index /\ r \in RoomRec /\ ticket[p] \in RoomNo
    BY <1>0
  <2>2. room' \in [Index -> RoomRec]
    <3>1. [r EXCEPT !.roomPlayer[s] = p, !.curUser = r.curUser + 1,
                    !.bReady = r.bReady \/ full] \in RoomRec
      <4>1. r.curUser + 1 \in Int /\ (r.bReady \/ full) \in BOOLEAN
        BY <2>1 DEF RoomRec
      <4>2. QED
        BY <2>1, <4>1, RoomFields
    <3>2. room' = [room EXCEPT ![i] =
                    [r EXCEPT !.roomPlayer[s] = p, !.curUser = r.curUser + 1,
                              !.bReady = r.bReady \/ full]]
      BY <1>2 DEF Request_EnterRoom
    <3>3. QED
      BY <1>0, <3>1, <3>2
  <2>3. toMaster' \in Seq(Message)
    BY <2>1, <1>2, <1>0, SendAllType DEF RoomRec, Request_EnterRoom
  <2>4. player' \in [Player -> PlayerRec] /\ ticket' \in [Player -> RoomNo]
    BY <1>0, <1>2, <2>1 DEF Request_EnterRoom, PlayerRec
  <2>5. curOpenRoom' \in Int
    BY <1>0, <1>2 DEF Request_EnterRoom
  <2>6. QED
    BY <1>2, <2>2, <2>3, <2>4, <2>5 DEF Request_EnterRoom, TypeOK
<1>3. ASSUME NEW p \in Player, Request_EnterRoom_NoExistRoom(p) PROVE TypeOK'
  BY <1>0, <1>3 DEF Request_EnterRoom_NoExistRoom, PlayerRec, TypeOK
<1>4. ASSUME NEW p \in Player, Request_EnterRoom_Crash(p) PROVE TypeOK'
  BY <1>4 DEF Request_EnterRoom_Crash, TypeOK
<1>5. ASSUME NEW p \in Player, Auth_PacketProc_Logout(p) PROVE TypeOK'
  BY <1>0, <1>5 DEF Auth_PacketProc_Logout, PlayerRec, Mode, TypeOK
<1>6. ASSUME NEW p \in Player, Auth_LogoutProc(p) PROVE TypeOK'
  <2>1. player' \in [Player -> PlayerRec]
    BY <1>0, <1>6 DEF Auth_LogoutProc, PlayerRec, Mode
  <2>2. task' \in [Thread -> TaskRec]
    BY <1>0, <1>6 DEF Auth_LogoutProc, TaskRec, Steps
  <2>3. QED
    BY <1>6, <2>1, <2>2 DEF Auth_LogoutProc, TypeOK
<1>7. ASSUME NEW p \in Player, Auth_LeaveProc(p) PROVE TypeOK'
  BY <1>0, <1>7 DEF Auth_LeaveProc, PlayerRec, Mode, TypeOK
<1>8. ASSUME NEW i \in Index, Update_Room_Wait(i) PROVE TypeOK'
  <2>1. room' \in [Index -> RoomRec]
    BY <1>0, <1>8 DEF Update_Room_Wait, RoomRec, Room_Status
  <2>2. QED
    BY <1>8, <2>1 DEF Update_Room_Wait, TypeOK
<1>9. ASSUME NEW i \in Index, Update_Room_Ready(i) PROVE TypeOK'
  <2>1. room' \in [Index -> RoomRec]
    BY <1>0, <1>9 DEF Update_Room_Ready, RoomRec, Room_Status
  <2>2. player' \in [Player -> PlayerRec]
    BY <1>0, <1>9 DEF Update_Room_Ready, PlayerRec
  <2>3. QED
    BY <1>9, <2>1, <2>2 DEF Update_Room_Ready, TypeOK
<1>10. CASE Leaving("auth")
  BY <1>10, TypeLeaving DEF Thread
<1>11. QED
  BY <1>1, <1>2, <1>3, <1>4, <1>5, <1>6, <1>7, <1>8, <1>9, <1>10 DEF AuthThread

(* The Game thread keeps the types.                                        *)
LEMMA TypeGame ==
    ASSUME TypeOK, HandlersHavePlayer, GameThread
    PROVE  TypeOK'
<1> USE NullTypes, RoomNoIndex DEF roomVars, clientVars, netVars, envVars
<1>0. /\ room \in [Index -> RoomRec] /\ player \in [Player -> PlayerRec]
      /\ task \in [Thread -> TaskRec] /\ indexQueue \in Seq(Index)
  BY DEF TypeOK
<1>1. ASSUME NEW p \in Player, Game_AuthToGameProc(p) PROVE TypeOK'
  BY <1>0, <1>1 DEF Game_AuthToGameProc, PlayerRec, Mode, TypeOK
<1>2. ASSUME NEW p \in Player, Game_PacketProc_Logout(p) PROVE TypeOK'
  BY <1>0, <1>2 DEF Game_PacketProc_Logout, PlayerRec, Mode, TypeOK
<1>3. ASSUME NEW p \in Player, Request_Character_HitDamage(p) PROVE TypeOK'
  <2>1. player[p].roomNo.index \in Index
    BY <1>0 DEF PlayerRec
  <2>2. PlayersIn(player[p].roomNo.index) \subseteq Player
    BY <1>0, <2>1 DEF PlayersIn, RoomRec
  <2>3. task' \in [Thread -> TaskRec]
    <3>1. PICK v \in Player :
            task' = [task EXCEPT !["game"] = [Idle EXCEPT
                       !.step = "kill", !.player = v, !.room = player[p].roomNo.index]]
      BY <1>3, <2>2 DEF Request_Character_HitDamage
    <3>2. QED
      BY <1>0, <2>1, <3>1 DEF TaskRec, Steps, Idle
  <2>4. QED
    BY <1>3, <2>3 DEF Request_Character_HitDamage, TypeOK
<1>4. ASSUME NEW p \in Player, Game_LeaveProc(p) PROVE TypeOK'
  <2>1. player' \in [Player -> PlayerRec]
    BY <1>0, <1>4 DEF Game_LeaveProc, PlayerRec, Mode
  <2>2. task' \in [Thread -> TaskRec]
    BY <1>0, <1>4 DEF Game_LeaveProc, TaskRec, Steps
  <2>3. QED
    BY <1>4, <2>1, <2>2 DEF Game_LeaveProc, TypeOK
<1>5. ASSUME NEW p \in Player, Game_ReleaseProc(p) PROVE TypeOK'
  BY <1>0, <1>5 DEF Game_ReleaseProc, PlayerRec, Mode, TypeOK
<1>6. ASSUME NEW i \in Index, Update_Room_Play(i) PROVE TypeOK'
  BY <1>0, <1>6 DEF Update_Room_Play, TaskRec, Steps, Idle, TypeOK
<1>7. ASSUME NEW i \in Index, Update_Room_End(i) PROVE TypeOK'
  <2>1. room' \in [Index -> RoomRec]
    BY <1>0, <1>7 DEF Update_Room_End, RoomRec, Room_Status
  <2>2. player' \in [Player -> PlayerRec]
    BY <1>0, <1>7 DEF Update_Room_End, PlayerRec
  <2>3. indexQueue' \in Seq(Index)
    BY <1>0, <1>7, AppendProperties DEF Update_Room_End
  <2>4. QED
    BY <1>7, <2>1, <2>2, <2>3 DEF Update_Room_End, TypeOK
<1>8. CASE HitDamage_Kill
  BY <1>0, <1>8 DEF HitDamage_Kill, PlayerRec, TaskRec, Steps, TypeOK
<1>9. CASE Update_Room_Play_RedZone
  <2>1. task["game"].room \in Index
    BY <1>0 DEF TaskRec, Thread
  <2>2. PlayersIn(task["game"].room) \subseteq Player
    BY <1>0, <2>1 DEF PlayersIn, RoomRec
  <2>3. task' \in [Thread -> TaskRec]
    <3>1. PICK v \in Player :
            task' = [task EXCEPT !["game"] = [task["game"] EXCEPT
                       !.step = "load", !.player = v, !.back = "zone"]]
      BY <1>9, <2>2 DEF Update_Room_Play_RedZone
    <3>2. QED
      BY <1>0, <3>1 DEF TaskRec, Steps
  <2>4. QED
    BY <1>9, <2>3 DEF Update_Room_Play_RedZone, TypeOK
<1>10. CASE Update_Room_Play_Result
  <2>1. room' \in [Index -> RoomRec]
    BY <1>0, <1>10 DEF Update_Room_Play_Result, RoomRec, Room_Status
  <2>2. task' \in [Thread -> TaskRec]
    BY <1>0, <1>10, ReturnType DEF Update_Room_Play_Result, Thread
  <2>3. QED
    BY <1>10, <2>1, <2>2 DEF Update_Room_Play_Result, TypeOK
<1>11. CASE Leaving("game")
  BY <1>11, TypeLeaving DEF Thread
<1>12. QED
  BY <1>1, <1>2, <1>3, <1>4, <1>5, <1>6, <1>7, <1>8, <1>9, <1>10, <1>11 DEF GameThread

(* The lan client keeps the types.                                         *)
LEMMA TypeLanClient ==
    ASSUME TypeOK, LanClient
    PROVE  TypeOK'
<1> USE BattleRoomAssumption DEF roomVars, clientVars, netVars, envVars
<1> DEFINE Announcement == [step : {"idle", "login", "created", "full", "done"},
                            room : Index]
<1>0. /\ room \in [Index -> RoomRec] /\ toMaster \in Seq(Message)
      /\ announce \in Announcement /\ closeReply \subseteq RoomNo
  BY DEF TypeOK
<1>1. CASE Connect
  BY <1>1 DEF Connect, TypeOK, Index
<1>2. CASE Response_Master_Login
  BY <1>2 DEF Response_Master_Login, TypeOK, Index
<1>3. NextRoom(announce.room) \in Announcement
  BY <1>0 DEF NextRoom, Index
<1>4. CASE Receive_MasterRequest_Login_Created
  <2> DEFINE i == announce.room
  <2>1. room[i].roomNo \in RoomNo /\ MaxRoomPlayer - room[i].curUser \in Int
    BY <1>0 DEF RoomRec
  <2>2. <<Created(i)>> \in Seq(Message)
    BY <2>1, MessageTypes DEF Created
  <2>3. toMaster' \in Seq(Message)
    BY <1>0, <1>4, <2>2, SendAllType DEF Receive_MasterRequest_Login_Created
  <2>4. announce' \in Announcement
    BY <1>0, <1>3, <1>4 DEF Receive_MasterRequest_Login_Created
  <2>5. QED
    BY <1>4, <2>3, <2>4 DEF Receive_MasterRequest_Login_Created, TypeOK
<1>5. CASE Receive_MasterRequest_Login_Full
  <2> DEFINE i == announce.room
             ms == IF room[i].curUser = MaxRoomPlayer THEN <<Closed(room[i].roomNo)>>
                   ELSE <<>>
  <2>1. room[i].roomNo \in RoomNo
    BY <1>0 DEF RoomRec
  <2>2. ms \in Seq(Message)
    BY <2>1, MessageTypes
  <2>3. SendAll(ms) /\ announce' = NextRoom(i)
    BY <1>5 DEF Receive_MasterRequest_Login_Full
  <2>4. toMaster' \in Seq(Message)
    BY <1>0, <2>2, <2>3, SendAllType
  <2>5. QED
    BY <1>3, <1>5, <2>3, <2>4 DEF Receive_MasterRequest_Login_Full, TypeOK
<1>6. CASE Receive_MasterRequest_Login_Done
  BY <1>6 DEF Receive_MasterRequest_Login_Done, TypeOK, Index
<1>7. ASSUME NEW no \in closeReply, Receive_MasterRequest_CloseRoom(no) PROVE TypeOK'
  <2>1. room' \in [Index -> RoomRec]
    BY <1>0, <1>7 DEF Receive_MasterRequest_CloseRoom, RoomRec
  <2>2. QED
    BY <1>0, <1>7, <2>1 DEF Receive_MasterRequest_CloseRoom, TypeOK
<1>8. QED
  BY <1>1, <1>2, <1>4, <1>5, <1>6, <1>7 DEF LanClient

(* The environment keeps the types.                                        *)
LEMMA TypeEnvironment ==
    ASSUME TypeOK, Environment
    PROVE  TypeOK'
<1> USE BattleRoomAssumption, NullTypes DEF roomVars, clientVars, netVars, envVars
<1> DEFINE Listing == [roomNo : RoomNo, places : Int]
<1>0. /\ player \in [Player -> PlayerRec] /\ toMaster \in Seq(Message)
      /\ listed \subseteq Listing /\ seat \in [Player -> RoomNo]
      /\ ticket \in [Player -> RoomNo] /\ drops \in 0 .. MaxDrop
      /\ losses \in 0 .. MaxLoss /\ closeReply \subseteq RoomNo
  BY DEF TypeOK
<1>1. \A no : GiveBack(no) \subseteq Listing
  BY <1>0 DEF GiveBack
<1>2. CASE OnLeaveServer
  <2>1. announce' \in [step : {"idle", "login", "created", "full", "done"}, room : Index]
    BY <1>2 DEF OnLeaveServer, Index
  <2>2. seat' \in [Player -> RoomNo]
    BY <1>2 DEF OnLeaveServer
  <2>3. drops' \in 0 .. MaxDrop
    BY <1>0, <1>2 DEF OnLeaveServer
  <2>4. toMaster' \in Seq(Message) /\ closeReply' \subseteq RoomNo /\ listed' \subseteq Listing
    BY <1>2 DEF OnLeaveServer
  <2>5. QED
    BY <1>2, <2>1, <2>2, <2>3, <2>4 DEF OnLeaveServer, TypeOK
<1>3. CASE Master_Handle
  <2> DEFINE m == Head(toMaster)
  <2>1. m \in Message /\ toMaster' \in Seq(Message)
    BY <1>0, <1>3, HeadTailProperties DEF Master_Handle
  <2>2. m.roomNo \in RoomNo /\ m.places \in Int
    BY <2>1 DEF Message
  <2>3. listed' \subseteq Listing
    BY <1>0, <1>1, <1>3, <2>2 DEF Master_Handle
  <2>4. seat' \in [Player -> RoomNo]
    BY <1>0, <1>3 DEF Master_Handle
  <2>5. closeReply' \subseteq RoomNo
    BY <1>0, <1>3, <2>2 DEF Master_Handle
  <2>6. QED
    BY <1>3, <2>1, <2>3, <2>4, <2>5 DEF Master_Handle, TypeOK
<1>4. ASSUME NEW p \in Player, Master_SendClient(p) PROVE TypeOK'
  <2>1. PICK e \in listed :
          /\ listed' = (listed \ {e}) \cup {[e EXCEPT !.places = @ - 1]}
          /\ seat' = [seat EXCEPT ![p] = e.roomNo]
          /\ ticket' = [ticket EXCEPT ![p] = e.roomNo]
    BY <1>4 DEF Master_SendClient
  <2>2. [e EXCEPT !.places = @ - 1] \in Listing /\ e.roomNo \in RoomNo
    BY <1>0
  <2>3. listed' \subseteq Listing
    BY <1>0, <2>1, <2>2
  <2>4. seat' \in [Player -> RoomNo] /\ ticket' \in [Player -> RoomNo]
    BY <1>0, <2>1, <2>2
  <2>5. QED
    BY <1>4, <2>3, <2>4 DEF Master_SendClient, TypeOK
<1>5. ASSUME NEW p \in Player, Master_ClientLost(p) PROVE TypeOK'
  BY <1>1, <1>5, <1>0 DEF Master_ClientLost, TypeOK
<1>6. ASSUME NEW p \in Player, Accept_Complete(p) PROVE TypeOK'
  BY <1>0, <1>6 DEF Accept_Complete, PlayerRec, Mode, TypeOK
<1>7. ASSUME NEW p \in Player, ConnectionLost(p) PROVE TypeOK'
  BY <1>0, <1>7 DEF ConnectionLost, PlayerRec, TypeOK
<1>8. QED
  BY <1>2, <1>3, <1>4, <1>5, <1>6, <1>7 DEF Environment

(* Every step keeps the types.                                             *)
LEMMA TypeNext ==
    ASSUME TypeOK, HandlersHavePlayer, [Next]_vars
    PROVE  TypeOK'
  BY TypeAuth, TypeGame, TypeLanClient, TypeEnvironment DEF Next, vars, roomVars, clientVars,
     netVars, envVars, TypeOK

-----------------------------------------------------------------------------
(* What the handlers rely on.                                              *)

HandlersInv == HandlersHavePlayer /\ PlayChecksPlay

GamesGoOn == \A i \in Index : room[i].status = "Play" => room'[i].status = "Play"

(* A step that moves no thread and stops no game keeps what handlers rely  *)
(* on.                                                                     *)
LEMMA KeepHandlers ==
    ASSUME TypeOK, HandlersInv, GamesGoOn, UNCHANGED task
    PROVE  HandlersInv'
  BY DEF TypeOK, TaskRec, Thread, HandlersInv, HandlersHavePlayer, PlayChecksPlay, GamesGoOn

(* A thread that goes on with a player it has, in the room it was at.      *)
LEMMA GoOnHandlers ==
    ASSUME TypeOK, HandlersInv, GamesGoOn, NEW t \in Thread, NEW u \in TaskRec,
           task' = [task EXCEPT ![t] = u],
           u.step \in {"leave", "switch", "kill", "load", "store"} => u.player \in Player,
           \/ u.step # "zone" /\ u.back = "idle"
           \/ /\ t = "game"
              /\ u.step \in {"load", "store"} \/ (u.step = "zone" /\ u.back = "idle")
              /\ room[u.room].status = "Play"
    PROVE  HandlersInv'
  BY DEF TypeOK, HandlersInv, HandlersHavePlayer, TaskRec, Thread, PlayChecksPlay, GamesGoOn

(* ... and one that goes on with a game it checks.                         *)
LEMMA GoOnGame ==
    ASSUME TypeOK, HandlersInv, GamesGoOn, NEW u \in TaskRec,
           task' = [task EXCEPT !["game"] = u],
           \/ u.step \in {"load", "store"} /\ u.player \in Player
           \/ u.step = "zone" /\ u.back = "idle",
           room[u.room].status = "Play"
    PROVE  HandlersInv'
  BY GoOnHandlers DEF Thread

(* An idle thread relies on nothing.                                       *)
LEMMA ReturnHandlers ==
    ASSUME TypeOK, HandlersInv, GamesGoOn, NEW t \in Thread, Return(t)
    PROVE  HandlersInv'
  BY NullTypes, GoOnHandlers DEF Return, Idle

(* Taking a player out keeps what handlers rely on.                        *)
LEMMA HandlersLeaving ==
    ASSUME TypeOK, HandlersInv, NEW t \in Thread, Leaving(t)
    PROVE  HandlersInv'
<1> USE DEF roomVars
<1>0. /\ room \in [Index -> RoomRec] /\ player \in [Player -> PlayerRec]
      /\ task \in [Thread -> TaskRec]
  BY DEF TypeOK
<1> DEFINE u == task[t]
           p == u.player
           InGame(step) == \/ u.back = "idle"
                           \/ /\ t = "game"
                              /\ step \in {"load", "store"}
                              /\ room[u.room].status = "Play"
<1>a. u \in TaskRec /\ u.room \in Index /\ u.alive \in Int
  BY <1>0 DEF TaskRec
<1>b. InGame(u.step)
  BY <1>0 DEF HandlersInv, PlayChecksPlay, Thread, TaskRec
<1>1. CASE Leave_DeletePlayer(t)
  <2>1. u.step = "leave" /\ p \in Player
    BY <1>1 DEF Leave_DeletePlayer, At, HandlersInv, HandlersHavePlayer
  <2> DEFINE i == player[p].roomNo.index
             v == [u EXCEPT !.step = "switch", !.room = i]
  <2>2. i \in Index
    BY <1>0, <2>1, RoomNoIndex DEF PlayerRec
  <2>3. GamesGoOn
    <3> DEFINE r == [room[i] EXCEPT !.roomPlayer[First(SlotsOf(i, p))] = Nobody,
                                    !.curUser = @ - 1]
    <3>1. UNCHANGED room \/ room' = [room EXCEPT ![i] = r]
      BY <1>1 DEF Leave_DeletePlayer
    <3>2. r.status = room[i].status
      BY <1>0, <2>2 DEF RoomRec
    <3>3. QED
      BY <1>0, <2>2, <3>1, <3>2 DEF GamesGoOn
  <2>4. CASE Return(t)
    BY <2>3, <2>4, ReturnHandlers
  <2>5. CASE task' = [task EXCEPT ![t] = v]
    BY <1>a, <1>b, <2>1, <2>2, <2>3, <2>5, GoOnHandlers DEF TaskRec, Steps
  <2>6. QED
    BY <1>1, <2>4, <2>5 DEF Leave_DeletePlayer
<1>2. CASE Leave_Status(t)
  <2>1. u.step = "switch" /\ p \in Player
    BY <1>2 DEF Leave_Status, At, HandlersInv, HandlersHavePlayer
  <2> DEFINE v == [u EXCEPT !.step = "load"]
  <2>2. GamesGoOn
    BY <1>2 DEF Leave_Status, GamesGoOn
  <2>3. CASE Return(t)
    BY <2>2, <2>3, ReturnHandlers
  <2>4. CASE task' = [task EXCEPT ![t].step = "load"]
    BY <1>a, <1>b, <2>1, <1>0, <2>4, <2>2, GoOnHandlers DEF TaskRec, Steps
  <2>5. QED
    BY <1>2, <2>3, <2>4 DEF Leave_Status
<1>3. CASE Die_Load(t)
  <2>1. u.step = "load" /\ p \in Player
    BY <1>3 DEF Die_Load, At, HandlersInv, HandlersHavePlayer
  <2> DEFINE v == [u EXCEPT !.step = "store", !.alive = room[u.room].aliveUser]
  <2>2. GamesGoOn
    BY <1>3 DEF Die_Load, GamesGoOn
  <2>3. v \in TaskRec /\ v.step = "store" /\ v.player = p
        /\ v.back = u.back /\ v.room = u.room
    BY <1>0, <1>a DEF TaskRec, Steps, RoomRec
  <2>4. task' = [task EXCEPT ![t] = v]
    BY <1>3 DEF Die_Load
  <2>5. CASE u.back = "idle"
    <3>1. v.step # "zone" /\ v.back = "idle" /\ v.player \in Player
      BY <2>1, <2>3, <2>5
    <3> HIDE DEF v
    <3>2. QED
      BY <2>2, <2>3, <2>4, <3>1, GoOnHandlers
  <2>6. CASE u.back # "idle"
    <3>1. v.step \in {"load", "store"} /\ room[v.room].status = "Play"
          /\ v.player \in Player
      BY <1>b, <2>1, <2>3, <2>6
    <3>2. task' = [task EXCEPT !["game"] = v]
      BY <1>b, <2>4, <2>6
    <3> HIDE DEF v
    <3>3. QED
      BY <2>2, <2>3, <3>1, <3>2, GoOnGame
  <2>7. QED
    BY <2>5, <2>6
<1>4. CASE Die_Store(t)
  <2>1. u.step = "store" /\ p \in Player
    BY <1>4 DEF Die_Store, At, HandlersInv, HandlersHavePlayer
  <2> DEFINE v == [Idle EXCEPT !.step = "zone", !.room = u.room]
  <2>2. GamesGoOn
    BY <1>0, <1>4 DEF Die_Store, GamesGoOn, RoomRec
  <2>3. CASE u.back = "idle"
    BY <1>4, <2>3, <2>2, ReturnHandlers DEF Die_Store, Return
  <2>4. CASE u.back # "idle"
    BY <1>a, NullTypes, <1>4, <2>4, <1>b, <2>2, GoOnHandlers DEF TaskRec, Steps, Idle, Die_Store
  <2>5. QED
    BY <2>3, <2>4
<1>5. QED
  BY <1>1, <1>2, <1>3, <1>4 DEF Leaving

(* The Auth thread keeps what handlers rely on.                            *)
LEMMA HandlersAuth ==
    ASSUME TypeOK, HandlersInv, IndexQueueExact, AuthThread
    PROVE  HandlersInv'
<1> USE DEF roomVars
<1>0. /\ room \in [Index -> RoomRec] /\ task \in [Thread -> TaskRec]
      /\ ticket \in [Player -> RoomNo] /\ indexQueue \in Seq(Index)
  BY DEF TypeOK
<1>1. CASE Update_RoomCount
  BY <1>0, <1>1, HeadTailProperties, KeepHandlers DEF Update_RoomCount, IndexQueueExact, GamesGoOn
<1>2. ASSUME NEW p \in Player, Request_EnterRoom(p) PROVE HandlersInv'
  BY <1>2, <1>0, RoomNoIndex, KeepHandlers DEF Request_EnterRoom, GamesGoOn
<1>3. ASSUME NEW p \in Player,
             \/ Request_EnterRoom_NoExistRoom(p)
             \/ Request_EnterRoom_Crash(p)
             \/ Auth_PacketProc_Logout(p)
             \/ Auth_LeaveProc(p)
      PROVE  HandlersInv'
  BY <1>3, KeepHandlers DEF Request_EnterRoom_NoExistRoom, Request_EnterRoom_Crash,
     Auth_PacketProc_Logout, Auth_LeaveProc, GamesGoOn
<1>4. ASSUME NEW p \in Player, Auth_LogoutProc(p) PROVE HandlersInv'
  <2> DEFINE v == [Idle EXCEPT !.step = "leave", !.player = p]
  <2>1. v \in TaskRec /\ v.step = "leave" /\ v.player = p /\ v.back = "idle"
    BY NullTypes DEF TaskRec, Steps, Idle
  <2>2. GamesGoOn /\ task' = [task EXCEPT !["auth"] = v]
    BY <1>4 DEF Auth_LogoutProc, GamesGoOn
  <2> HIDE DEF v
  <2>3. QED
    BY <2>1, <2>2, GoOnHandlers DEF Thread
<1>5. ASSUME NEW i \in Index, Update_Room_Wait(i) \/ Update_Room_Ready(i)
      PROVE  HandlersInv'
  BY <1>5, <1>0, KeepHandlers DEF Update_Room_Wait, Update_Room_Ready, GamesGoOn, RoomRec
<1>6. CASE Leaving("auth")
  BY <1>6, HandlersLeaving DEF Thread
<1>7. QED
  BY <1>1, <1>2, <1>3, <1>4, <1>5, <1>6 DEF AuthThread

(* The Game thread keeps what handlers rely on.                            *)
LEMMA HandlersGame ==
    ASSUME TypeOK, HandlersInv, GameThread
    PROVE  HandlersInv'
<1> USE DEF roomVars
<1>0. /\ room \in [Index -> RoomRec] /\ task \in [Thread -> TaskRec]
      /\ player \in [Player -> PlayerRec]
  BY DEF TypeOK
<1>g. task["game"] \in TaskRec
  BY <1>0 DEF Thread
<1>1. ASSUME NEW p \in Player,
             \/ Game_AuthToGameProc(p)
             \/ Game_PacketProc_Logout(p)
             \/ Game_ReleaseProc(p)
      PROVE  HandlersInv'
  BY <1>1, KeepHandlers DEF Game_AuthToGameProc, Game_PacketProc_Logout, Game_ReleaseProc,
     GamesGoOn
<1>2. ASSUME NEW p \in Player, Request_Character_HitDamage(p) PROVE HandlersInv'
  <2>1. player[p].roomNo.index \in Index
    BY <1>0, RoomNoIndex DEF PlayerRec
  <2>2. PlayersIn(player[p].roomNo.index) \subseteq Player
    BY <1>0, <2>1 DEF PlayersIn, RoomRec
  <2>3. PICK q \in Player :
          task' = [task EXCEPT !["game"] = [Idle EXCEPT
                     !.step = "kill", !.player = q, !.room = player[p].roomNo.index]]
    BY <1>2, <2>2 DEF Request_Character_HitDamage
  <2> DEFINE v == [Idle EXCEPT !.step = "kill", !.player = q,
                               !.room = player[p].roomNo.index]
  <2>4. v \in TaskRec /\ v.step = "kill" /\ v.player = q /\ v.back = "idle"
    BY <2>1, NullTypes DEF TaskRec, Steps, Idle
  <2>5. GamesGoOn /\ task' = [task EXCEPT !["game"] = v]
    BY <1>2, <2>3 DEF Request_Character_HitDamage, GamesGoOn
  <2> HIDE DEF v
  <2>6. QED
    BY <2>4, <2>5, GoOnHandlers DEF Thread
<1>3. ASSUME NEW p \in Player, Game_LeaveProc(p) PROVE HandlersInv'
  <2> DEFINE v == [Idle EXCEPT !.step = "leave", !.player = p]
  <2>1. v \in TaskRec /\ v.step = "leave" /\ v.player = p /\ v.back = "idle"
    BY NullTypes DEF TaskRec, Steps, Idle
  <2>2. GamesGoOn /\ task' = [task EXCEPT !["game"] = v]
    BY <1>3 DEF Game_LeaveProc, GamesGoOn
  <2> HIDE DEF v
  <2>3. QED
    BY <2>1, <2>2, GoOnHandlers DEF Thread
<1>4. ASSUME NEW i \in Index, Update_Room_Play(i) PROVE HandlersInv'
  <2> DEFINE v == [Idle EXCEPT !.step = "zone", !.room = i]
  <2>1. v \in TaskRec /\ v.step = "zone" /\ v.back = "idle" /\ v.room = i
    BY NullTypes DEF TaskRec, Steps, Idle
  <2>2. GamesGoOn /\ task' = [task EXCEPT !["game"] = v] /\ room[i].status = "Play"
    BY <1>4 DEF Update_Room_Play, GamesGoOn
  <2> HIDE DEF v
  <2>3. QED
    BY <2>1, <2>2, GoOnGame
<1>5. ASSUME NEW i \in Index, Update_Room_End(i) PROVE HandlersInv'
  BY <1>5, <1>0, KeepHandlers DEF Update_Room_End, GamesGoOn, RoomRec
<1>6. CASE HitDamage_Kill
  <2> DEFINE v == [task["game"] EXCEPT !.step = "load"]
  <2>1. task["game"].step = "kill" /\ task["game"].player \in Player
    BY <1>6 DEF HitDamage_Kill, At, HandlersInv, HandlersHavePlayer, Thread
  <2>2. v \in TaskRec /\ v.step = "load" /\ v.player \in Player /\ v.back = "idle"
    BY <1>g, <2>1 DEF TaskRec, Steps, HandlersInv, PlayChecksPlay
  <2>3. GamesGoOn /\ task' = [task EXCEPT !["game"] = v]
    BY <1>0, <1>6 DEF HitDamage_Kill, GamesGoOn
  <2> HIDE DEF v
  <2>4. QED
    BY <2>2, <2>3, GoOnHandlers DEF Thread
<1>7. CASE Update_Room_Play_RedZone
  <2> DEFINE i == task["game"].room
  <2>1. task["game"].step = "zone" /\ i \in Index /\ room[i].status = "Play"
    BY <1>7, <1>g DEF Update_Room_Play_RedZone, At, HandlersInv, PlayChecksPlay, TaskRec
  <2>2. PlayersIn(i) \subseteq Player
    BY <1>0, <2>1 DEF PlayersIn, RoomRec
  <2>3. PICK q \in Player :
          task' = [task EXCEPT !["game"] = [task["game"] EXCEPT
                     !.step = "load", !.player = q, !.back = "zone"]]
    BY <1>7, <2>2 DEF Update_Room_Play_RedZone
  <2> DEFINE v == [task["game"] EXCEPT !.step = "load", !.player = q, !.back = "zone"]
  <2>4. v \in TaskRec /\ v.step = "load" /\ v.player = q /\ v.room = i
    BY <1>g DEF TaskRec, Steps
  <2>5. GamesGoOn /\ task' = [task EXCEPT !["game"] = v]
    BY <1>7, <2>3 DEF Update_Room_Play_RedZone, GamesGoOn
  <2>6. v.step \in {"load", "store"} /\ v.player \in Player /\ room[v.room].status = "Play"
    BY <2>1, <2>4
  <2> HIDE DEF v
  <2>7. QED
    BY <2>4, <2>5, <2>6, GoOnGame
<1>8. CASE Update_Room_Play_Result
  BY <1>8, <1>g, <1>0 DEF Update_Room_Play_Result, At, TaskRec, Return, HandlersInv,
     HandlersHavePlayer, Idle, PlayChecksPlay, Thread
<1>9. CASE Leaving("game")
  BY <1>9, HandlersLeaving DEF Thread
<1>10. QED
  BY <1>1, <1>2, <1>3, <1>4, <1>5, <1>6, <1>7, <1>8, <1>9 DEF GameThread

(* Every step keeps what handlers rely on.                                 *)
LEMMA HandlersNext ==
    ASSUME TypeOK, HandlersInv, IndexQueueExact, [Next]_vars
    PROVE  HandlersInv'
<1> USE DEF roomVars
<1>1. CASE LanClient
  <2>1. UNCHANGED task
    BY <1>1 DEF LanClient, Connect, Response_Master_Login,
       Receive_MasterRequest_Login_Created, Receive_MasterRequest_Login_Full,
       Receive_MasterRequest_Login_Done, Receive_MasterRequest_CloseRoom
  <2>2. UNCHANGED room \/ \E no \in closeReply : Receive_MasterRequest_CloseRoom(no)
    BY <1>1 DEF LanClient, Connect, Response_Master_Login,
       Receive_MasterRequest_Login_Created, Receive_MasterRequest_Login_Full,
       Receive_MasterRequest_Login_Done
  <2>3. GamesGoOn
    <3>1. ASSUME NEW no \in closeReply, Receive_MasterRequest_CloseRoom(no)
          PROVE  GamesGoOn
      BY <3>1 DEF Receive_MasterRequest_CloseRoom, GamesGoOn, TypeOK, RoomRec
    <3>2. QED
      BY <2>2, <3>1 DEF GamesGoOn
  <2>4. QED
    BY <2>1, <2>3, KeepHandlers
<1>2. CASE Environment \/ UNCHANGED vars
  BY <1>2, KeepHandlers DEF vars, Environment, OnLeaveServer, Master_Handle, Master_SendClient,
     Master_ClientLost, Accept_Complete, ConnectionLost, GamesGoOn
<1>3. QED
  BY <1>1, <1>2, HandlersAuth, HandlersGame DEF Next

-----------------------------------------------------------------------------
(* The counts.                                                             *)

(* A step after which every room is as open and as full as it was.         *)
RoomsAlike ==
    \A i \in Index :
        /\ room'[i].status = "Close" <=> room[i].status = "Close"
        /\ room'[i].status = "Wait" /\ ~room'[i].bReady
             <=> room[i].status = "Wait" /\ ~room[i].bReady
        /\ room'[i].curUser = room[i].curUser
        /\ room'[i].roomPlayer = room[i].roomPlayer

(* A step that changes no status, count or slot of a room keeps the        *)
(* counts.                                                                 *)
LEMMA KeepCounts ==
    ASSUME CountsExact, RoomsAlike, UNCHANGED <<indexQueue, curOpenRoom>>
    PROVE  CountsExact'
<1>1. IndexQueueExact'
  BY DEF CountsExact, IndexQueueExact, RoomsAlike
<1>2. OpenRoomCountExact'
  BY DEF OpenRooms, RoomsAlike, CountsExact, OpenRoomCountExact
<1>3. CurUserExact'
  BY DEF SlotsOf, RoomsAlike, CountsExact, CurUserExact
<1>4. QED
  BY <1>1, <1>2, <1>3 DEF CountsExact

(* Opening takes the head of the queue and one more room is open.          *)
LEMMA CountsOpen ==
    ASSUME TypeOK, CountsExact, Update_RoomCount
    PROVE  CountsExact'
<1> USE DEF roomVars
<1>0. room \in [Index -> RoomRec] /\ indexQueue \in Seq(Index) /\ indexQueue # <<>>
  BY DEF TypeOK, Update_RoomCount
<1>i. PICK i \in Index : i = Head(indexQueue)
  BY <1>0, HeadTailProperties
<1>1. i \in Index /\ indexQueue' = Tail(indexQueue) /\ curOpenRoom' = curOpenRoom + 1
  BY <1>i DEF Update_RoomCount
<1>2. PICK no : room' = [room EXCEPT ![i] = InitRoom(no, "Wait")]
  BY <1>i DEF Update_RoomCount
<1>3. /\ room'[i].status = "Wait" /\ ~room'[i].bReady /\ room'[i].curUser = 0
      /\ \A s \in Slot : room'[i].roomPlayer[s] = Nobody
      /\ \A j \in Index \ {i} : room'[j] = room[j]
  BY <1>0, <1>1, <1>2 DEF InitRoom
<1>4. /\ Len(indexQueue) \in Nat \ {0} /\ DOMAIN indexQueue = 1 .. Len(indexQueue)
      /\ indexQueue[1] = i
      /\ DOMAIN indexQueue' = 1 .. Len(indexQueue) - 1
      /\ \A n \in DOMAIN indexQueue' : indexQueue'[n] = indexQueue[n + 1]
  BY <1>0, <1>i, <1>1, HeadTailProperties, LenProperties, EmptySeq
<1>5. room[i].status = "Close"
  BY <1>1, <1>4 DEF CountsExact, IndexQueueExact
<1>6. IndexQueueExact'
  <2>1. IsInjective(indexQueue')
    BY <1>4 DEF CountsExact, IndexQueueExact, IsInjective
  <2>2. \A n \in DOMAIN indexQueue' : indexQueue'[n] # i
    BY <1>4 DEF CountsExact, IndexQueueExact, IsInjective
  <2>3. ASSUME NEW j \in Index \ {i}
        PROVE  (\E n \in DOMAIN indexQueue : indexQueue[n] = j)
                 <=> \E n \in DOMAIN indexQueue' : indexQueue'[n] = j
    <3>1. ASSUME NEW n \in DOMAIN indexQueue, indexQueue[n] = j
          PROVE  \E k \in DOMAIN indexQueue' : indexQueue'[k] = j
      <4>1. n # 1 /\ n - 1 \in DOMAIN indexQueue'
        BY <1>4, <3>1
      <4>2. QED
        BY <1>4, <3>1, <4>1
    <3>2. ASSUME NEW n \in DOMAIN indexQueue', indexQueue'[n] = j
          PROVE  \E k \in DOMAIN indexQueue : indexQueue[k] = j
      BY <1>4, <3>2
    <3>3. QED
      BY <3>1, <3>2
  <2>4. QED
    BY <1>1, <1>3, <2>1, <2>2, <2>3 DEF CountsExact, IndexQueueExact
<1>7. OpenRoomCountExact'
  <2>1. OpenRooms' = OpenRooms \cup {i} /\ i \notin OpenRooms
    BY <1>1, <1>3, <1>5 DEF OpenRooms
  <2>2. IsFiniteSet(OpenRooms)
    BY SlotsFinite, FS_Subset DEF OpenRooms
  <2>3. Cardinality(OpenRooms') = Cardinality(OpenRooms) + 1
    BY <2>1, <2>2, FS_AddElement
  <2>4. QED
    BY <1>1, <2>3 DEF CountsExact, OpenRoomCountExact, OpenRooms
<1>8. CurUserExact'
  BY <1>3, SlotsFinite, BattleRoomAssumption DEF SlotsOf, CountsExact, CurUserExact
<1>9. QED
  BY <1>6, <1>7, <1>8 DEF CountsExact

(* Entering fills the first empty slot; only the player that fills the room*)
(* for the first time closes it.                                           *)
LEMMA CountsEnter ==
    ASSUME TypeOK, CountsExact, NEW p \in Player, Request_EnterRoom(p)
    PROVE  CountsExact'
<1>0. room \in [Index -> RoomRec] /\ ticket[p] \in RoomNo /\ curOpenRoom \in Int
  BY DEF TypeOK
<1>i. PICK i \in Index : i = ticket[p].index
  BY <1>0, RoomNoIndex
<1> DEFINE r == room[i]
           E == SlotsOf(i, Nobody)
           full == r.curUser + 1 = MaxRoomPlayer
<1>1. /\ i \in Index /\ r \in RoomRec /\ r.status = "Wait" /\ E # {}
      /\ E \subseteq Slot
      /\ room' = [room EXCEPT ![i] =
                    [r EXCEPT !.roomPlayer[First(E)] = p, !.curUser = r.curUser + 1,
                              !.bReady = r.bReady \/ full]]
      /\ curOpenRoom' = IF full /\ ~r.bReady THEN curOpenRoom - 1 ELSE curOpenRoom
      /\ indexQueue' = indexQueue
  BY <1>0, <1>i DEF Request_EnterRoom, SlotsOf
<1>2. First(E) \in E /\ First(E) \in Slot
  BY <1>1, FirstSlot
<1>3. /\ room'[i].status = "Wait" /\ room'[i].bReady = (r.bReady \/ full)
      /\ room'[i].curUser = r.curUser + 1
      /\ \A s \in Slot : room'[i].roomPlayer[s] = IF s = First(E) THEN p
                                                  ELSE r.roomPlayer[s]
      /\ \A j \in Index \ {i} : room'[j] = room[j]
  <2> DEFINE x == [r EXCEPT !.roomPlayer[First(E)] = p, !.curUser = r.curUser + 1,
                            !.bReady = r.bReady \/ full]
  <2>1. room'[i] = x /\ \A j \in Index \ {i} : room'[j] = room[j]
    BY <1>0, <1>1
  <2>2. /\ x.status = "Wait" /\ x.bReady = (r.bReady \/ full)
        /\ x.curUser = r.curUser + 1
        /\ \A s \in Slot : x.roomPlayer[s] = IF s = First(E) THEN p
                                             ELSE r.roomPlayer[s]
    BY <1>1, <1>2 DEF RoomRec
  <2> HIDE DEF x
  <2>3. QED
    BY <2>1, <2>2
<1>4. IndexQueueExact'
  BY <1>1, <1>3 DEF CountsExact, IndexQueueExact
<1>5. OpenRoomCountExact'
  <2>1. OpenRooms' = IF full THEN OpenRooms \ {i} ELSE OpenRooms
    BY <1>1, <1>3 DEF OpenRooms
  <2>2. IsFiniteSet(OpenRooms) /\ (i \in OpenRooms <=> ~r.bReady)
    BY <1>1, SlotsFinite, FS_Subset DEF OpenRooms
  <2>3. Cardinality(OpenRooms \ {i}) = IF ~r.bReady THEN Cardinality(OpenRooms) - 1
                                       ELSE Cardinality(OpenRooms)
    BY <2>2, FS_RemoveElement
  <2>4. curOpenRoom = Cardinality(OpenRooms)
    BY DEF CountsExact, OpenRoomCountExact, OpenRooms
  <2>5. curOpenRoom' = Cardinality(OpenRooms')
    BY <1>0, <1>1, <2>1, <2>3, <2>4
  <2>6. QED
    BY <2>5 DEF OpenRoomCountExact, OpenRooms
<1>6. CurUserExact'
  <2>1. SlotsOf(i, Nobody)' = E \ {First(E)}
    BY <1>2, <1>3, BattleRoomAssumption DEF SlotsOf
  <2>2. \A j \in Index \ {i} : SlotsOf(j, Nobody)' = SlotsOf(j, Nobody)
    BY <1>3 DEF SlotsOf
  <2>3. IsFiniteSet(E)
    BY <1>1, SlotsFinite, FS_Subset
  <2>4. Cardinality(E \ {First(E)}) = Cardinality(E) - 1 /\ Cardinality(E) \in Nat
    BY <1>2, <2>3, FS_RemoveElement, FS_CardinalityType
  <2>5. room'[i].curUser = MaxRoomPlayer - Cardinality(SlotsOf(i, Nobody)')
    BY <1>1, <1>3, <2>1, <2>4, BattleRoomAssumption DEF CountsExact, CurUserExact
  <2>6. QED
    BY <1>3, <2>2, <2>5 DEF CountsExact, CurUserExact
<1>7. QED
  BY <1>4, <1>5, <1>6 DEF CountsExact

(* Leaving empties one slot of the player, if it has one.                  *)
LEMMA CountsLeave ==
    ASSUME TypeOK, HandlersInv, CountsExact, NEW t \in Thread, Leave_DeletePlayer(t)
    PROVE  CountsExact'
<1> USE DEF roomVars
<1>0. /\ room \in [Index -> RoomRec] /\ player \in [Player -> PlayerRec]
      /\ UNCHANGED <<indexQueue, curOpenRoom>>
  BY DEF TypeOK, Leave_DeletePlayer
<1>p. PICK p \in Player : p = task[t].player
  BY DEF Leave_DeletePlayer, At, HandlersInv, HandlersHavePlayer
<1>i. PICK i \in Index : i = player[p].roomNo.index
  BY <1>0, <1>p, RoomNoIndex DEF PlayerRec
<1> DEFINE r == room[i]
           P == SlotsOf(i, p)
           E == SlotsOf(i, Nobody)
           x == [r EXCEPT !.roomPlayer[First(P)] = Nobody, !.curUser = r.curUser - 1]
<1>1. CASE UNCHANGED room
  BY <1>0, <1>1, KeepCounts DEF RoomsAlike
<1>2. CASE P # {} /\ room' = [room EXCEPT ![i] = x]
  <2>1. First(P) \in P /\ P \subseteq Slot /\ E \subseteq Slot /\ r \in RoomRec
    BY <1>0, <1>2, FirstSlot DEF SlotsOf
  <2>2. First(P) \in Slot /\ First(P) \notin E
    BY <2>1, BattleRoomAssumption DEF SlotsOf
  <2>3. /\ x.status = r.status /\ x.bReady = r.bReady /\ x.curUser = r.curUser - 1
        /\ \A s \in Slot : x.roomPlayer[s] = IF s = First(P) THEN Nobody
                                             ELSE r.roomPlayer[s]
    BY <2>1 DEF RoomRec
  <2>4. room'[i] = x /\ \A j \in Index \ {i} : room'[j] = room[j]
    BY <1>0, <1>2
  <2> HIDE DEF x
  <2>5. IndexQueueExact'
    BY <1>0, <2>3, <2>4 DEF CountsExact, IndexQueueExact
  <2>6. OpenRoomCountExact'
    BY <2>3, <2>4, <1>0 DEF OpenRooms, CountsExact, OpenRoomCountExact
  <2>7. CurUserExact'
    <3>1. SlotsOf(i, Nobody)' = E \cup {First(P)}
      BY <2>2, <2>3, <2>4 DEF SlotsOf
    <3>2. \A j \in Index \ {i} : SlotsOf(j, Nobody)' = SlotsOf(j, Nobody)
      BY <2>4 DEF SlotsOf
    <3>3. IsFiniteSet(E) /\ Cardinality(E) \in Nat
      BY <2>1, SlotsFinite, FS_Subset, FS_CardinalityType
    <3>4. Cardinality(E \cup {First(P)}) = Cardinality(E) + 1
      BY <2>2, <3>3, FS_AddElement
    <3>5. r.status # "Close" =>
            room'[i].curUser = MaxRoomPlayer - Cardinality(SlotsOf(i, Nobody)')
      BY <2>3, <2>4, <3>1, <3>3, <3>4, BattleRoomAssumption DEF CountsExact, CurUserExact
    <3>6. QED
      BY <2>3, <2>4, <3>2, <3>5 DEF CountsExact, CurUserExact
  <2>8. QED
    BY <2>5, <2>6, <2>7 DEF CountsExact
<1>3. QED
  BY <1>1, <1>2, <1>p, <1>i DEF Leave_DeletePlayer

(* Closing puts a room that was in use at the end of the queue.            *)
LEMMA CountsEnd ==
    ASSUME TypeOK, CountsExact, NEW i \in Index, Update_Room_End(i)
    PROVE  CountsExact'
<1>0. room \in [Index -> RoomRec] /\ indexQueue \in Seq(Index)
  BY DEF TypeOK
<1>1. /\ room[i].status = "End" /\ indexQueue' = Append(indexQueue, i)
      /\ curOpenRoom' = curOpenRoom
      /\ room'[i].status = "Close"
      /\ \A j \in Index \ {i} : room'[j] = room[j]
  BY <1>0 DEF Update_Room_End, RoomRec
<1>2. /\ Len(indexQueue) \in Nat /\ DOMAIN indexQueue = 1 .. Len(indexQueue)
      /\ DOMAIN indexQueue' = 1 .. Len(indexQueue) + 1
      /\ \A n \in DOMAIN indexQueue : indexQueue'[n] = indexQueue[n]
      /\ indexQueue'[Len(indexQueue) + 1] = i
  BY <1>0, <1>1, AppendProperties, LenProperties
<1>3. \A n \in DOMAIN indexQueue : indexQueue[n] # i
  BY <1>1 DEF CountsExact, IndexQueueExact
<1>4. IndexQueueExact'
  BY <1>2, <1>3, <1>1 DEF IsInjective, CountsExact, IndexQueueExact
<1>5. OpenRoomCountExact'
  BY <1>1 DEF OpenRooms, CountsExact, OpenRoomCountExact
<1>6. CurUserExact'
  BY <1>1 DEF SlotsOf, CountsExact, CurUserExact
<1>7. QED
  BY <1>4, <1>5, <1>6 DEF CountsExact

(* Taking a player out keeps the counts exact.                             *)
LEMMA CountsLeaving ==
    ASSUME TypeOK, HandlersInv, CountsExact, NEW t \in Thread, Leaving(t)
    PROVE  CountsExact'
<1> USE DEF roomVars
<1>0. room \in [Index -> RoomRec] /\ task[t] \in TaskRec
  BY DEF TypeOK
<1>1. CASE Leave_DeletePlayer(t)
  BY <1>1, CountsLeave
<1>2. CASE Leave_Status(t) \/ Die_Load(t)
  BY <1>2, KeepCounts DEF Leave_Status, Die_Load, RoomsAlike
<1>3. CASE Die_Store(t)
  BY <1>0, <1>3, KeepCounts DEF Die_Store, RoomsAlike, RoomRec
<1>4. QED
  BY <1>1, <1>2, <1>3 DEF Leaving

(* Every other step leaves all rooms alike.                                *)
LEMMA CountsAuth ==
    ASSUME TypeOK, HandlersInv, CountsExact, AuthThread
    PROVE  CountsExact'
<1> USE DEF roomVars
<1>0. room \in [Index -> RoomRec]
  BY DEF TypeOK
<1>1. CASE Update_RoomCount
  BY <1>1, CountsOpen
<1>2. ASSUME NEW p \in Player, Request_EnterRoom(p) PROVE CountsExact'
  BY <1>2, CountsEnter
<1>3. ASSUME NEW p \in Player,
             \/ Request_EnterRoom_NoExistRoom(p)
             \/ Request_EnterRoom_Crash(p)
             \/ Auth_PacketProc_Logout(p)
             \/ Auth_LogoutProc(p)
             \/ Auth_LeaveProc(p)
      PROVE  CountsExact'
  BY <1>3, KeepCounts DEF Request_EnterRoom_NoExistRoom, Request_EnterRoom_Crash,
     Auth_PacketProc_Logout, Auth_LogoutProc, Auth_LeaveProc, RoomsAlike
<1>4. ASSUME NEW i \in Index, Update_Room_Wait(i) \/ Update_Room_Ready(i)
      PROVE  CountsExact'
  <2>1. UNCHANGED <<indexQueue, curOpenRoom>>
    BY <1>4 DEF Update_Room_Wait, Update_Room_Ready
  <2>2. CASE Update_Room_Wait(i)
    BY <1>0, <2>2, <2>1, KeepCounts DEF RoomRec, Update_Room_Wait, RoomsAlike
  <2>3. CASE Update_Room_Ready(i)
    BY <1>0, <2>3, <2>1, KeepCounts DEF Update_Room_Ready, RoomsAlike, RoomRec
  <2>4. QED
    BY <1>4, <2>2, <2>3
<1>5. CASE Leaving("auth")
  BY <1>5, CountsLeaving DEF Thread
<1>6. QED
  BY <1>1, <1>2, <1>3, <1>4, <1>5 DEF AuthThread

(* The Game thread keeps the counts exact.                                 *)
LEMMA CountsGame ==
    ASSUME TypeOK, HandlersInv, CountsExact, GameThread
    PROVE  CountsExact'
<1> USE DEF roomVars
<1>0. room \in [Index -> RoomRec] /\ task["game"] \in TaskRec
  BY DEF TypeOK, Thread
<1>1. ASSUME NEW p \in Player,
             \/ Game_AuthToGameProc(p)
             \/ Game_PacketProc_Logout(p)
             \/ Request_Character_HitDamage(p)
             \/ Game_LeaveProc(p)
             \/ Game_ReleaseProc(p)
      PROVE  CountsExact'
  BY <1>1, KeepCounts DEF Game_AuthToGameProc, Game_PacketProc_Logout, Request_Character_HitDamage,
     Game_LeaveProc, Game_ReleaseProc, RoomsAlike
<1>2. ASSUME NEW i \in Index, Update_Room_End(i) PROVE CountsExact'
  BY <1>2, CountsEnd
<1>3. CASE \/ \E i \in Index : Update_Room_Play(i)
           \/ HitDamage_Kill
           \/ Update_Room_Play_RedZone
  BY <1>3, KeepCounts DEF Update_Room_Play, HitDamage_Kill, Update_Room_Play_RedZone, RoomsAlike
<1>4. CASE Update_Room_Play_Result
  BY <1>0, <1>4, KeepCounts DEF Update_Room_Play_Result, At, HandlersInv, PlayChecksPlay, TaskRec,
     RoomsAlike, RoomRec
<1>5. CASE Leaving("game")
  BY <1>5, CountsLeaving DEF Thread
<1>6. QED
  BY <1>1, <1>2, <1>3, <1>4, <1>5 DEF GameThread

(* Every step keeps the counts exact.                                      *)
LEMMA CountsNext ==
    ASSUME TypeOK, HandlersInv, CountsExact, [Next]_vars
    PROVE  CountsExact'
<1> USE DEF roomVars
<1>1. CASE LanClient
  <2>1. ASSUME NEW no \in closeReply, Receive_MasterRequest_CloseRoom(no)
        PROVE  CountsExact'
    BY <2>1, KeepCounts DEF Receive_MasterRequest_CloseRoom, RoomsAlike, TypeOK, RoomRec
  <2>2. CASE ~\E no \in closeReply : Receive_MasterRequest_CloseRoom(no)
    BY <1>1, <2>2, KeepCounts DEF LanClient, Connect, Response_Master_Login,
       Receive_MasterRequest_Login_Created, Receive_MasterRequest_Login_Full,
       Receive_MasterRequest_Login_Done, RoomsAlike
  <2>3. QED
    BY <2>1, <2>2
<1>2. CASE Environment \/ UNCHANGED vars
  BY <1>2, KeepCounts DEF vars, Environment, OnLeaveServer, Master_Handle, Master_SendClient,
     Master_ClientLost, Accept_Complete, ConnectionLost, RoomsAlike
<1>3. QED
  BY <1>1, <1>2, CountsAuth, CountsGame DEF Next

-----------------------------------------------------------------------------
(* The inductive invariant: types, what a handler in progress relies on,   *)
(* and the three counts.                                                   *)
THEOREM Inductive == Spec => []IInv
<1>1. Init => IInv
  BY InitInv
<1>2. ASSUME IInv, [Next]_vars PROVE IInv'
  BY <1>2, TypeNext, HandlersNext, CountsNext DEF IInv, HandlersInv, CountsExact
<1>3. QED
  BY <1>1, <1>2, PTL DEF Spec

(* The types of the fields are kept, whatever the threads, the master and  *)
(* the clients do.                                                         *)
THEOREM TypeCorrect == Spec => []TypeOK
  BY Inductive, PTL DEF IInv

(* The index queue of Open_Room and Update_Room_End loses and doubles no   *)
(* room.                                                                   *)
THEOREM RoomsFreeOnce == Spec => []IndexQueueExact
<1>1. IInv => IndexQueueExact
  BY DEF IInv, CountsExact
<1>2. QED
  BY <1>1, Inductive, PTL

(* _curOpenRoom is the number of rooms that still take players.            *)
THEOREM OpenRoomsCounted == Spec => []OpenRoomCountExact
<1>1. IInv => OpenRoomCountExact
  BY DEF IInv, CountsExact
<1>2. QED
  BY <1>1, Inductive, PTL

(* curUser is the number of players in the room.                           *)
THEOREM PlayersCounted == Spec => []CurUserExact
<1>1. IInv => CurUserExact
  BY DEF IInv, CountsExact
<1>2. QED
  BY <1>1, Inductive, PTL

-----------------------------------------------------------------------------
(* Players that leave.                                                     *)

Departing(p) == \E t \in Thread : task[t].step = "leave" /\ task[t].player = p

(* A player in room no is on no way to another, and when the Game thread   *)
(* may release its session a handler is about to take it out.              *)
Placed(p, no) ==
    /\ player[p].roomNo = no
    /\ player[p].mode # "NONE"
    /\ ticket[p] = NoRoomNo
    /\ player[p].mode = "WAIT_LOGOUT" => Departing(p)

MembersInv ==
    \A i \in Index : room[i].status # "Close" =>
        /\ room[i].roomNo.index = i
        /\ \A s \in Slot : room[i].roomPlayer[s] # Nobody =>
             /\ Placed(room[i].roomPlayer[s], room[i].roomNo)
             /\ \A r \in Slot : room[i].roomPlayer[r] = room[i].roomPlayer[s] => r = s

(* A step that opens no room and puts nobody into one.                     *)
RoomsShrink ==
    \A i \in Index : room'[i].status # "Close" =>
        /\ room[i].status # "Close"
        /\ room'[i].roomNo = room[i].roomNo
        /\ \A s \in Slot : room'[i].roomPlayer[s] \in {room[i].roomPlayer[s], Nobody}

Inside(p) == \E i \in Index, s \in Slot : room[i].status # "Close" /\ room[i].roomPlayer[s] = p

StayPlaced ==
    \A p \in Player, no \in RoomNo : Inside(p)' /\ Placed(p, no) => Placed(p, no)'

(* Such a step keeps the members where they are.                           *)
LEMMA MembersKeep ==
    ASSUME TypeOK, MembersInv, RoomsShrink, StayPlaced
    PROVE  MembersInv'
<1>1. SUFFICES ASSUME NEW i \in Index, room'[i].status # "Close"
               PROVE  /\ room'[i].roomNo.index = i
                      /\ \A s \in Slot : room'[i].roomPlayer[s] # Nobody =>
                           /\ Placed(room[i].roomPlayer[s], room[i].roomNo)'
                           /\ \A r \in Slot :
                                room'[i].roomPlayer[r] = room'[i].roomPlayer[s] => r = s
  BY DEF MembersInv
<1>2. /\ room[i].status # "Close" /\ room'[i].roomNo = room[i].roomNo
      /\ \A s \in Slot : room'[i].roomPlayer[s] \in {room[i].roomPlayer[s], Nobody}
  BY <1>1 DEF RoomsShrink
<1>3. /\ room[i].roomNo \in RoomNo
      /\ \A s \in Slot : room[i].roomPlayer[s] \in Player \cup {Nobody}
  BY DEF TypeOK, RoomRec
<1>4. SUFFICES ASSUME NEW s \in Slot, room'[i].roomPlayer[s] # Nobody
               PROVE  /\ Placed(room[i].roomPlayer[s], room[i].roomNo)'
                      /\ \A r \in Slot :
                           room'[i].roomPlayer[r] = room'[i].roomPlayer[s] => r = s
  BY <1>2 DEF MembersInv
<1>5. /\ room'[i].roomPlayer[s] = room[i].roomPlayer[s]
      /\ Placed(room[i].roomPlayer[s], room[i].roomNo)
      /\ \A r \in Slot : room[i].roomPlayer[r] = room[i].roomPlayer[s] => r = s
  BY <1>2, <1>4 DEF MembersInv
<1>6. Placed(room[i].roomPlayer[s], room[i].roomNo)'
  BY <1>2, <1>3, <1>4, <1>1, <1>5 DEF Inside, StayPlaced, Placed, Departing
<1>7. QED
  BY <1>2, <1>4, <1>5, <1>6

(* Who is about to be taken out stays so while that thread does not move.  *)
LEMMA DepartingStays ==
    ASSUME TypeOK, NEW t \in Thread, task[t].step # "leave",
           \A u \in Thread \ {t} : task'[u] = task[u]
    PROVE  \A p \in Player : Departing(p) => Departing(p)'
  BY DEF Departing

(* A player whose number and ticket are kept stays in its room, unless its *)
(* mode says that its session may be released.                             *)
LEMMA PlayersStay ==
    ASSUME TypeOK,
           \A p \in Player : Departing(p) => Departing(p)',
           \A p \in Player :
               \/ player[p].mode = "NONE"
               \/ ticket[p] # NoRoomNo
               \/ /\ player'[p].roomNo = player[p].roomNo
                  /\ ticket'[p] = ticket[p]
                  /\ player'[p].mode # "NONE"
                  /\ player'[p].mode = "WAIT_LOGOUT" =>
                       player[p].mode = "WAIT_LOGOUT" \/ Departing(p)'
    PROVE  StayPlaced
  BY DEF StayPlaced, Placed

(* A room that is opened is empty.                                         *)
LEMMA MembersOpen ==
    ASSUME TypeOK, MembersInv, Update_RoomCount
    PROVE  MembersInv'
<1> USE DEF roomVars
<1>0. room \in [Index -> RoomRec] /\ indexQueue \in Seq(Index) /\ indexQueue # <<>>
  BY DEF TypeOK, Update_RoomCount
<1>1. PICK i \in Index : i = Head(indexQueue)
  BY <1>0, HeadTailProperties
<1>2. PICK id \in 1 .. MaxRoomID :
         room' = [room EXCEPT ![i] = InitRoom([id |-> id, index |-> i], "Wait")]
  BY <1>1 DEF Update_RoomCount
<1>3. /\ room'[i].roomNo.index = i
      /\ \A s \in Slot : room'[i].roomPlayer[s] = Nobody
      /\ \A j \in Index \ {i} : room'[j] = room[j]
  BY <1>0, <1>2 DEF InitRoom
<1>4. UNCHANGED <<player, ticket, task>>
  BY DEF Update_RoomCount, envVars
<1>5. QED
  BY <1>3, <1>4 DEF MembersInv, Placed, Departing

(* Who enters a room was in none.                                          *)
LEMMA MembersEnter ==
    ASSUME TypeOK, MembersInv, NEW p \in Player, Request_EnterRoom(p)
    PROVE  MembersInv'
<1>0. /\ room \in [Index -> RoomRec] /\ player \in [Player -> PlayerRec]
      /\ ticket \in [Player -> RoomNo]
  BY DEF TypeOK
<1>1. PICK no \in RoomNo : no = ticket[p]
  BY <1>0
<1>2. PICK i \in Index : i = no.index
  BY RoomNoIndex
<1>3. /\ no # NoRoomNo /\ player[p].mode = "AUTH"
      /\ room[i].roomNo = no /\ room[i].status = "Wait"
      /\ SlotsOf(i, Nobody) # {}
      /\ player' = [player EXCEPT ![p].roomNo = no]
      /\ ticket' = [ticket EXCEPT ![p] = NoRoomNo]
      /\ UNCHANGED task
  BY <1>1, <1>2 DEF Request_EnterRoom, EntersNow, Found
<1>4. PICK s \in Slot : s = First(SlotsOf(i, Nobody)) /\ room[i].roomPlayer[s] = Nobody
  BY <1>3, FirstSlot DEF SlotsOf
<1>5. PICK b \in BOOLEAN :
         room' = [room EXCEPT ![i] = [room[i] EXCEPT !.roomPlayer[s] = p,
                                                     !.curUser = room[i].curUser + 1,
                                                     !.bReady = b]]
  <2>1. room[i].bReady \in BOOLEAN
    BY <1>0 DEF RoomRec
  <2> DEFINE b == room[i].bReady \/ room[i].curUser + 1 = MaxRoomPlayer
  <2>2. room' = [room EXCEPT ![i] = [room[i] EXCEPT !.roomPlayer[s] = p,
                                                    !.curUser = room[i].curUser + 1,
                                                    !.bReady = b]]
    BY <1>1, <1>2, <1>4 DEF Request_EnterRoom
  <2>3. b \in BOOLEAN
    BY <2>1
  <2> HIDE DEF b
  <2>4. QED
    BY <2>2, <2>3
<1>6. /\ room'[i].roomNo = no /\ room'[i].status = "Wait" /\ room'[i].roomPlayer[s] = p
      /\ \A r \in Slot \ {s} : room'[i].roomPlayer[r] = room[i].roomPlayer[r]
      /\ \A j \in Index \ {i} : room'[j] = room[j]
  BY <1>0, <1>3, <1>4, <1>5 DEF RoomRec
<1>7. \A j \in Index, r \in Slot : room[j].status # "Close" => room[j].roomPlayer[r] # p
  BY BattleRoomAssumption, <1>1, <1>3 DEF MembersInv, Placed
<1>8. /\ player'[p].roomNo = no /\ player'[p].mode = "AUTH" /\ ticket'[p] = NoRoomNo
      /\ \A q \in Player \ {p} : player'[q] = player[q] /\ ticket'[q] = ticket[q]
  BY <1>0, <1>3 DEF PlayerRec
<1>9. \A q \in Player \ {p}, n \in RoomNo : Placed(q, n) => Placed(q, n)'
  BY <1>3, <1>8 DEF Placed, Departing
<1>10. SUFFICES ASSUME NEW j \in Index, room'[j].status # "Close"
                PROVE  /\ room'[j].roomNo.index = j
                       /\ \A r \in Slot : room'[j].roomPlayer[r] # Nobody =>
                            /\ Placed(room[j].roomPlayer[r], room[j].roomNo)'
                            /\ \A k \in Slot :
                                 room'[j].roomPlayer[k] = room'[j].roomPlayer[r] => k = r
  BY DEF MembersInv
<1>11. room[j].status # "Close" /\ room'[j].roomNo = room[j].roomNo
  BY <1>3, <1>6, <1>10
<1>12. room'[j].roomNo.index = j
  BY <1>11 DEF MembersInv
<1>13. ASSUME NEW r \in Slot, room'[j].roomPlayer[r] # Nobody
       PROVE  /\ Placed(room[j].roomPlayer[r], room[j].roomNo)'
              /\ \A k \in Slot : room'[j].roomPlayer[k] = room'[j].roomPlayer[r] => k = r
  <2>1. CASE j = i /\ r = s
    BY <1>6, <1>8, <2>1, <1>3, <1>7 DEF Placed
  <2>2. CASE j # i \/ r # s
    <3>1. /\ room'[j].roomPlayer[r] = room[j].roomPlayer[r]
          /\ room[j].roomNo \in RoomNo /\ room[j].roomPlayer[r] \in Player \cup {Nobody}
      BY <1>0, <1>6, <2>2 DEF RoomRec
    <3>2. PICK q \in Player : q = room[j].roomPlayer[r]
      BY <1>13, <3>1
    <3>3. PICK n \in RoomNo : n = room[j].roomNo
      BY <3>1
    <3>4. Placed(q, n) /\ \A k \in Slot : room[j].roomPlayer[k] = q => k = r
      BY <1>11, <1>13, <3>1, <3>2, <3>3 DEF MembersInv
    <3>5. q # p
      BY <1>7, <1>11, <3>2
    <3>6. Placed(q, n)'
      BY <1>9, <3>4, <3>5
    <3>7. q = room'[j].roomPlayer[r] /\ n = room'[j].roomNo
      BY <1>11, <3>1, <3>2, <3>3
    <3>8. Placed(room[j].roomPlayer[r], room[j].roomNo)'
      BY <3>6, <3>7 DEF Placed, Departing
    <3>9. \A k \in Slot : room'[j].roomPlayer[k] = q => k = r
      BY <1>6, <3>4, <3>5
    <3>10. QED
      BY <3>7, <3>8, <3>9
  <2>3. QED
    BY <2>1, <2>2
<1>14. QED
  BY <1>12, <1>13

(* Taking a player out finds it in its room, when it is in one.            *)
LEMMA MembersLeave ==
    ASSUME TypeOK, HandlersInv, MembersInv, NEW t \in Thread, Leave_DeletePlayer(t)
    PROVE  MembersInv'
<1>0. /\ room \in [Index -> RoomRec] /\ player \in [Player -> PlayerRec]
      /\ task \in [Thread -> TaskRec]
  BY DEF TypeOK
<1>1. task[t].step = "leave" /\ UNCHANGED <<player, ticket>>
  BY DEF Leave_DeletePlayer, At, envVars
<1>2. PICK p \in Player : p = task[t].player
  BY <1>1 DEF HandlersInv, HandlersHavePlayer
<1>3. PICK no \in RoomNo : no = player[p].roomNo
  BY <1>0 DEF PlayerRec
<1>4. PICK i \in Index : i = no.index
  BY RoomNoIndex
<1>5. \A u \in Thread \ {t} : task'[u] = task[u]
  BY <1>0 DEF Leave_DeletePlayer, Return
<1>6. \A q \in Player \ {p} : Departing(q) => Departing(q)'
  BY <1>2, <1>5 DEF Departing
<1>7. \A q \in Player \ {p}, n \in RoomNo : Placed(q, n) => Placed(q, n)'
  BY <1>1, <1>6 DEF Placed
<1>8. /\ RoomsShrink
      /\ \A j \in Index, s \in Slot : room'[j].status # "Close" => room'[j].roomPlayer[s] # p
  <2>0. p # Nobody
    BY BattleRoomAssumption
  <2>1. CASE Found(no) /\ SlotsOf(i, p) # {}
    <3>1. PICK s \in Slot : s = First(SlotsOf(i, p)) /\ room[i].roomPlayer[s] = p
      BY <2>1, FirstSlot DEF SlotsOf
    <3>2. room' = [room EXCEPT ![i] = [room[i] EXCEPT !.roomPlayer[s] = Nobody,
                                                      !.curUser = @ - 1]]
      BY <1>2, <1>3, <1>4, <2>1, <3>1 DEF Leave_DeletePlayer
    <3>3. /\ room'[i].roomNo = room[i].roomNo /\ room'[i].status = room[i].status
          /\ room'[i].roomPlayer[s] = Nobody
          /\ \A r \in Slot \ {s} : room'[i].roomPlayer[r] = room[i].roomPlayer[r]
          /\ \A j \in Index \ {i} : room'[j] = room[j]
      BY <1>0, <3>2 DEF RoomRec
    <3>4. RoomsShrink
      BY <3>3 DEF RoomsShrink
    <3>5. ASSUME NEW j \in Index, NEW r \in Slot, room[j].status # "Close",
                 room[j].roomPlayer[r] = p
          PROVE  j = i /\ r = s
      BY <2>0, <3>5, <1>3, <1>4, <3>1 DEF MembersInv, Placed
    <3>6. QED
      BY <2>0, <3>3, <3>4, <3>5
  <2>2. CASE ~(Found(no) /\ SlotsOf(i, p) # {})
    <3>1. UNCHANGED room
      BY <1>2, <1>3, <1>4, <2>2 DEF Leave_DeletePlayer
    <3>2. ASSUME NEW j \in Index, NEW r \in Slot, room[j].status # "Close",
                 room[j].roomPlayer[r] = p
          PROVE  FALSE
      BY <2>0, <3>2, <1>3, <1>4, <2>2 DEF MembersInv, Placed, Found, SlotsOf
    <3>3. QED
      BY <3>1, <3>2 DEF RoomsShrink
  <2>3. QED
    BY <2>1, <2>2
<1>9. \A q \in Player : Inside(q)' => q # p
  BY <1>8 DEF Inside
<1>10. StayPlaced
  BY <1>7, <1>9 DEF StayPlaced
<1>11. QED
  BY <1>8, <1>10, MembersKeep

(* The rest of a leave moves nobody.                                       *)
LEMMA MembersLeaving ==
    ASSUME TypeOK, HandlersInv, MembersInv, NEW t \in Thread, Leaving(t)
    PROVE  MembersInv'
<1>0. /\ room \in [Index -> RoomRec] /\ player \in [Player -> PlayerRec]
      /\ task \in [Thread -> TaskRec]
  BY DEF TypeOK
<1>1. CASE Leave_DeletePlayer(t)
  BY <1>1, MembersLeave
<1>2. CASE Leave_Status(t) \/ Die_Load(t) \/ Die_Store(t)
  <2>1. UNCHANGED ticket /\ task[t].step # "leave"
    BY <1>2 DEF Leave_Status, Die_Load, Die_Store, At, envVars
  <2>2. \A u \in Thread \ {t} : task'[u] = task[u]
    BY <1>0, <1>2 DEF Leave_Status, Die_Load, Die_Store, Return
  <2>3. \A q \in Player : /\ player'[q].roomNo = player[q].roomNo
                          /\ player'[q].mode = player[q].mode
    BY <1>0, <1>2 DEF Leave_Status, Die_Load, Die_Store, PlayerRec
  <2>4. RoomsShrink
    <3>1. CASE Leave_Status(t) \/ Die_Load(t)
      BY <3>1 DEF Leave_Status, Die_Load, RoomsShrink, roomVars
    <3>2. CASE Die_Store(t)
      BY <1>0, <3>2 DEF TaskRec, Die_Store, RoomsShrink, RoomRec
    <3>3. QED
      BY <1>2, <3>1, <3>2
  <2>5. StayPlaced
    BY <2>1, <2>2, <2>3, DepartingStays, PlayersStay
  <2>6. QED
    BY <2>4, <2>5, MembersKeep
<1>3. QED
  BY <1>1, <1>2 DEF Leaving

(* The other steps of the Auth thread.                                     *)
LEMMA MembersAuth ==
    ASSUME TypeOK, HandlersInv, MembersInv, AuthThread
    PROVE  MembersInv'
<1> USE DEF roomVars, clientVars, netVars, envVars
<1>0. /\ room \in [Index -> RoomRec] /\ player \in [Player -> PlayerRec]
      /\ task \in [Thread -> TaskRec] /\ ticket \in [Player -> RoomNo]
  BY DEF TypeOK
<1>1. CASE Update_RoomCount
  BY <1>1, MembersOpen
<1>2. ASSUME NEW p \in Player, Request_EnterRoom(p)
      PROVE  MembersInv'
  BY <1>2, MembersEnter
<1>3. CASE \E p \in Player : \/ Request_EnterRoom_NoExistRoom(p)
                             \/ Request_EnterRoom_Crash(p)
                             \/ Auth_PacketProc_Logout(p)
                             \/ Auth_LeaveProc(p)
  BY <1>3, <1>0, PlayersStay, MembersKeep DEF Request_EnterRoom_NoExistRoom,
     Request_EnterRoom_Crash, Auth_PacketProc_Logout, Auth_LeaveProc, EntersNow, PlayerRec,
     Departing, RoomsShrink
<1>4. ASSUME NEW p \in Player, Auth_LogoutProc(p)
      PROVE  MembersInv'
  BY <1>4, <1>0, PlayersStay, MembersKeep DEF Auth_LogoutProc, CanVisit, Idle, Thread, Departing,
     PlayerRec, RoomsShrink
<1>5. ASSUME NEW i \in Index, Update_Room_Wait(i) \/ Update_Room_Ready(i)
      PROVE  MembersInv'
  <2>1. /\ room'[i].roomNo = room[i].roomNo /\ room'[i].roomPlayer = room[i].roomPlayer
        /\ room[i].status # "Close" /\ \A j \in Index \ {i} : room'[j] = room[j]
    BY <1>0, <1>5 DEF Update_Room_Wait, RoomRec, Update_Room_Ready
  <2>2. UNCHANGED <<ticket, task>>
        /\ \A q \in Player : /\ player'[q].roomNo = player[q].roomNo
                             /\ player'[q].mode = player[q].mode
    BY <1>0, <1>5 DEF Update_Room_Wait, Update_Room_Ready, PlayerRec
  <2>3. StayPlaced
    BY <2>2, PlayersStay DEF Departing
  <2>4. QED
    BY <2>1, <2>3, MembersKeep DEF RoomsShrink
<1>6. QED
  BY <1>1, <1>2, <1>3, <1>4, <1>5, MembersLeaving DEF AuthThread, Thread

(* The other steps of the Game thread.  A session is released only when    *)
(* the other thread is in no handler.                                      *)
LEMMA MembersGame ==
    ASSUME TypeOK, HandlersInv, MembersInv, ~Overlap, GameThread
    PROVE  MembersInv'
<1> USE DEF roomVars, clientVars, netVars, envVars
<1>0. /\ room \in [Index -> RoomRec] /\ player \in [Player -> PlayerRec]
      /\ task \in [Thread -> TaskRec] /\ ticket \in [Player -> RoomNo]
  BY DEF TypeOK
<1>1. ASSUME NEW p \in Player, Game_AuthToGameProc(p) \/ Game_PacketProc_Logout(p)
      PROVE  MembersInv'
  BY <1>0, <1>1, PlayersStay, MembersKeep DEF Game_AuthToGameProc, Game_PacketProc_Logout,
     PlayerRec, Departing, RoomsShrink
<1>2. ASSUME NEW p \in Player, Game_LeaveProc(p)
      PROVE  MembersInv'
  BY <1>2, <1>0, PlayersStay, MembersKeep DEF Game_LeaveProc, CanVisit, Idle, Thread, Departing,
     PlayerRec, RoomsShrink
<1>3. ASSUME NEW p \in Player, Game_ReleaseProc(p)
      PROVE  MembersInv'
  BY <1>0, <1>3, MembersKeep DEF Game_ReleaseProc, CanVisit, Departing, StayPlaced, Placed,
     RoomsShrink
<1>4. CASE \/ \E p \in Player : Request_Character_HitDamage(p)
           \/ \E i \in Index : Update_Room_Play(i)
           \/ HitDamage_Kill \/ Update_Room_Play_RedZone
  <2>1. UNCHANGED <<room, ticket>> /\ task["game"].step # "leave"
        /\ task'["auth"] = task["auth"]
    BY <1>0, <1>4 DEF Request_Character_HitDamage, Update_Room_Play, HitDamage_Kill,
       Update_Room_Play_RedZone, CanVisit, At, Thread
  <2>2. \A q \in Player : /\ player'[q].roomNo = player[q].roomNo
                          /\ player'[q].mode = player[q].mode
    <3>1. CASE HitDamage_Kill
      BY <3>1, <1>0 DEF HitDamage_Kill, At, HandlersInv, HandlersHavePlayer, Thread, PlayerRec
    <3>2. QED
      BY <1>4, <3>1 DEF Request_Character_HitDamage, Update_Room_Play,
         Update_Room_Play_RedZone
  <2>3. \A q \in Player : Departing(q) => Departing(q)'
    BY <2>1 DEF Departing, Thread
  <2>4. StayPlaced
    BY <2>1, <2>2, <2>3, PlayersStay
  <2>5. QED
    BY <2>1, <2>4, MembersKeep DEF RoomsShrink
<1>5. CASE Update_Room_Play_Result
  BY <1>0, <1>5, PlayersStay, MembersKeep DEF Update_Room_Play_Result, At, Return, Thread,
     HandlersInv, PlayChecksPlay, RoomsShrink, RoomRec, Departing
<1>6. ASSUME NEW i \in Index, Update_Room_End(i)
      PROVE  MembersInv'
  BY <1>6, <1>0, PlayersStay, MembersKeep DEF Update_Room_End, RoomRec, PlayerRec, Departing,
     RoomsShrink
<1>7. QED
  BY <1>1, <1>2, <1>3, <1>4, <1>5, <1>6, MembersLeaving DEF GameThread, Thread

(* Every step keeps the members where they are.                            *)
LEMMA MembersNext ==
    ASSUME TypeOK, HandlersInv, MembersInv, ~Overlap, [Next]_vars
    PROVE  MembersInv'
<1> USE DEF roomVars, clientVars, netVars, envVars
<1>0. /\ room \in [Index -> RoomRec] /\ player \in [Player -> PlayerRec]
      /\ ticket \in [Player -> RoomNo]
  BY DEF TypeOK
<1>1. CASE LanClient
  <2>1. UNCHANGED <<player, ticket, task>>
    BY <1>1 DEF LanClient, Connect, Response_Master_Login,
       Receive_MasterRequest_Login_Created, Receive_MasterRequest_Login_Full,
       Receive_MasterRequest_Login_Done, Receive_MasterRequest_CloseRoom
  <2>2. RoomsShrink
    <3>1. ASSUME NEW no \in closeReply, Receive_MasterRequest_CloseRoom(no)
          PROVE  RoomsShrink
      BY <1>0, <3>1 DEF Receive_MasterRequest_CloseRoom, RoomsShrink, RoomRec
    <3>2. CASE UNCHANGED room
      BY <3>2 DEF RoomsShrink
    <3>3. QED
      BY <1>1, <3>1, <3>2 DEF LanClient, Connect, Response_Master_Login,
         Receive_MasterRequest_Login_Created, Receive_MasterRequest_Login_Full,
         Receive_MasterRequest_Login_Done
  <2>3. StayPlaced
    BY <2>1, PlayersStay DEF Departing
  <2>4. QED
    BY <2>2, <2>3, MembersKeep
<1>2. CASE Environment \/ UNCHANGED vars
  <2>1. UNCHANGED <<room, task>>
    BY <1>2 DEF vars, Environment, OnLeaveServer, Master_Handle, Master_SendClient,
       Master_ClientLost, Accept_Complete, ConnectionLost
  <2>2. ASSUME NEW p \in Player,
               Master_SendClient(p) \/ Accept_Complete(p) \/ ConnectionLost(p)
        PROVE  \A q \in Player : \/ player[q].mode = "NONE"
                                 \/ /\ player'[q].roomNo = player[q].roomNo
                                    /\ player'[q].mode = player[q].mode
                                    /\ ticket'[q] = ticket[q]
    BY <1>0, <2>2 DEF Master_SendClient, Accept_Complete, ConnectionLost, PlayerRec
  <2>3. \/ UNCHANGED <<player, ticket>>
        \/ \E p \in Player : Master_SendClient(p) \/ Accept_Complete(p) \/ ConnectionLost(p)
    BY <1>2 DEF vars, Environment, OnLeaveServer, Master_Handle, Master_ClientLost
  <2>4. StayPlaced
    BY <2>1, <2>2, <2>3, PlayersStay DEF Departing
  <2>5. QED
    BY <2>1, <2>4, MembersKeep DEF RoomsShrink
<1>3. QED
  BY <1>1, <1>2, MembersAuth, MembersGame DEF Next

(* When the handlers of the two threads do not overlap, a player that left *)
(* is out of its room before its session can serve another client: no room *)
(* in use keeps a session that belongs somewhere else, for any number of   *)
(* rooms, places, clients and losses of the link.                          *)
THEOREM LeaversAreOut == ASSUME ~Overlap PROVE Spec => []LeaversLeaveTheirRoom
<1>1. Init => MembersInv
  BY DEF Init, InitRoom, MembersInv
<1>2. IInv /\ MembersInv /\ [Next]_vars => MembersInv'
  BY MembersNext DEF IInv, HandlersInv
<1>3. MembersInv => LeaversLeaveTheirRoom
  BY DEF MembersInv, LeaversLeaveTheirRoom, PlayersIn, Placed
<1>4. QED
  BY <1>1, <1>2, <1>3, Inductive, PTL DEF Spec

-----------------------------------------------------------------------------
(* The count of the players alive.                                         *)

Playing(p) == player[p].mode \in {"AUTH_TO_GAME", "GAME", "LOGOUT_IN_GAME"}
Begun(i)  == room[i].status \in {"Play", "End"}
AtWork(t) == task[t].step \in {"switch", "kill", "load", "store"}

(* A handler that takes somebody's life, or one less of those alive, is    *)
(* alone, ...                                                              *)
OneThread == \E t \in Thread : task[t].step = "idle"

(* ... and its player belongs to the room it is at.                        *)
DealtWith(t) ==
    LET p == task[t].player
        i == task[t].room IN
      /\ task[t].step # "switch" => Begun(i)
      /\ task[t].step = "kill" => p \in Survivors(i)
      /\ task[t].step = "store" => task[t].alive = room[i].aliveUser
      /\ room[i].status # "Close" =>
           /\ player[p].roomNo = room[i].roomNo
           /\ player[p].mode # "NONE"
           /\ ticket[p] = NoRoomNo
           /\ task[t].step = "switch" => p \notin PlayersIn(i)

HandlersDealt == \A t \in Thread : AtWork(t) => DealtWith(t)

(* 0 is no number of a room in use.                                        *)
RoomsNumbered == \A i \in Index : room[i].status # "Close" => room[i].roomNo # NoRoomNo

(* Players come to the Game thread when the game of their room has begun.  *)
GamesHaveBegun == \A p \in Player :
    /\ Playing(p) => player[p].bAuthToGame
    /\ player[p].bAuthToGame /\ player[p].mode # "NONE" =>
         /\ player[p].roomNo # NoRoomNo
         /\ Found(player[p].roomNo) => Begun(player[p].roomNo.index)

(* Nobody dies before.                                                     *)
AliveUntilGame ==
    /\ \A p \in Player : player[p].isDead => player[p].mode # "NONE" /\ ticket[p] = NoRoomNo
    /\ \A i \in Index : room[i].status \in {"Wait", "Ready"} =>
         \A p \in PlayersIn(i) : ~player[p].isDead

(* Handlers that have made somebody less alive than aliveUser says.        *)
Dying(i) == {t \in Thread :
    /\ task[t].room = i
    /\ task[t].player \notin Survivors(i)
    /\ \/ task[t].step = "switch" /\ ~player[task[t].player].isDead
       \/ task[t].step \in {"load", "store"}}

AliveUserExact ==
    \A i \in Index : room[i].status = "Play" =>
        room[i].aliveUser = Cardinality(Survivors(i)) + Cardinality(Dying(i))

AliveInv == /\ OneThread /\ HandlersDealt /\ RoomsNumbered /\ GamesHaveBegun
            /\ AliveUntilGame /\ AliveUserExact

AllIdle == \A t \in Thread : task[t].step = "idle"

(* The variables' types, as they are used.                                 *)
LEMMA Typed ==
    ASSUME TypeOK
    PROVE  /\ room \in [Index -> RoomRec] /\ player \in [Player -> PlayerRec]
           /\ task \in [Thread -> TaskRec] /\ ticket \in [Player -> RoomNo]
           /\ \A i \in Index : PlayersIn(i) \subseteq Player /\ Survivors(i) \subseteq PlayersIn(i)
  BY DEF TypeOK, PlayersIn, Survivors, RoomRec

(* Survivors and handlers can be counted.                                  *)
LEMMA Countable ==
    ASSUME TypeOK, NEW i \in Index
    PROVE  /\ IsFiniteSet(Survivors(i)) /\ Cardinality(Survivors(i)) \in Nat
           /\ IsFiniteSet(PlayersIn(i)) /\ Cardinality(PlayersIn(i)) \in Nat
<1> DEFINE f == [s \in Slot |-> room[i].roomPlayer[s]]
           T == {f[s] : s \in Slot}
<1>1. IsFiniteSet(T)
  <2>1. f \in Surjection(Slot, T)
    BY DEF Surjection
  <2> HIDE DEF f, T
  <2>2. QED
    BY <2>1, SlotsFinite, FS_Surjection
<1>2. PlayersIn(i) \subseteq T /\ Survivors(i) \subseteq T
  BY DEF PlayersIn, Survivors
<1> HIDE DEF T
<1>3. QED
  BY <1>1, <1>2, FS_Subset, FS_CardinalityType

(* No more handlers than one are at work, so that one counts as one.       *)
LEMMA NobodyDying ==
    ASSUME NEW i \in Index, \A t \in Thread : task[t].step \notin {"switch", "load", "store"}
    PROVE  Dying(i) = {} /\ Cardinality(Dying(i)) = 0
  BY FS_EmptySet DEF Dying

(* The one that is not idle counts, if it is in between.                   *)
LEMMA OneDying ==
    ASSUME NEW i \in Index, NEW t \in Thread, \A u \in Thread \ {t} : task[u].step = "idle"
    PROVE  /\ t \in Dying(i) => Cardinality(Dying(i)) = 1
           /\ t \notin Dying(i) => Cardinality(Dying(i)) = 0
<1>1. Dying(i) \subseteq {t}
  BY DEF Dying
<1>2. t \in Dying(i) => Dying(i) = {t}
  BY <1>1
<1>3. t \notin Dying(i) => Dying(i) = {}
  BY <1>1
<1>4. QED
  BY <1>2, <1>3, FS_EmptySet, FS_Singleton

-----------------------------------------------------------------------------
(* How rooms and players go on.                                            *)

RoomGoesOn(i) ==
    /\ room'[i].roomNo = room[i].roomNo
    /\ \/ room'[i].status = room[i].status
       \/ room[i].status = "Wait" /\ room'[i].status = "Ready"
       \/ room[i].status = "Ready" /\ room'[i].status = "Play"
       \/ room[i].status = "Play" /\ room'[i].status = "End"

RoomCloses(i) == room'[i].status = "Close" /\ room'[i].roomNo = NoRoomNo

RoomOpens(i) == /\ room'[i].status = "Wait" /\ room'[i].roomNo # NoRoomNo
                /\ \A p \in Player : player'[p].roomNo # room'[i].roomNo

RoomsFlow == \A i \in Index : RoomGoesOn(i) \/ RoomCloses(i) \/ RoomOpens(i)

PlayerGoesOn(p) ==
    /\ player'[p].roomNo = player[p].roomNo
    /\ player'[p].bAuthToGame = player[p].bAuthToGame
    /\ player[p].mode = "NONE" => player'[p].mode = "NONE"
    /\ Playing(p)' => Playing(p) \/ player[p].bAuthToGame

PlayerComes(p) == ~player'[p].bAuthToGame /\ ~Playing(p)'

PlayerStarts(p) ==
    /\ player'[p].bAuthToGame /\ player'[p].roomNo = player[p].roomNo
    /\ \E i \in Index : p \in PlayersIn(i) /\ room[i].status # "Close" /\ room'[i].status = "Play"
                       /\ room'[i].roomNo = room[i].roomNo

PlayersFlow == \A p \in Player :
    player'[p].mode = "NONE" \/ PlayerGoesOn(p) \/ PlayerComes(p) \/ PlayerStarts(p)

(* Rooms in use keep a number, ...                                         *)
LEMMA NumbersStay ==
    ASSUME RoomsNumbered, RoomsFlow
    PROVE  RoomsNumbered'
  BY DEF RoomsNumbered, RoomsFlow, RoomGoesOn, RoomCloses, RoomOpens

(* ... and the players of a game are those of a room that has begun it.    *)
LEMMA GamesStayBegun ==
    ASSUME TypeOK, TypeOK', MembersInv, RoomsNumbered, GamesHaveBegun, RoomsFlow, PlayersFlow
    PROVE  GamesHaveBegun'
<1>0. /\ player \in [Player -> PlayerRec] /\ player' \in [Player -> PlayerRec]
  BY DEF TypeOK
<1> SUFFICES ASSUME NEW p \in Player
             PROVE  /\ Playing(p)' => player'[p].bAuthToGame
                    /\ player'[p].bAuthToGame /\ player'[p].mode # "NONE" =>
                         /\ player'[p].roomNo # NoRoomNo
                         /\ room'[player'[p].roomNo.index].roomNo = player'[p].roomNo =>
                              room'[player'[p].roomNo.index].status \in {"Play", "End"}
  BY DEF GamesHaveBegun, Found, Begun, Playing
<1>1. CASE player'[p].mode = "NONE" \/ PlayerComes(p)
  BY <1>1 DEF Playing, PlayerComes
<1>2. CASE PlayerGoesOn(p) /\ player'[p].mode # "NONE"
  BY <1>2, <1>0, RoomNoIndex DEF PlayerGoesOn, GamesHaveBegun, PlayerRec, Found, RoomsFlow,
     RoomCloses, RoomOpens, RoomGoesOn, Begun
<1>3. CASE PlayerStarts(p)
  BY <1>3 DEF PlayerStarts, MembersInv, Placed, PlayersIn, RoomsNumbered, Begun
<1>4. QED
  BY <1>1, <1>2, <1>3 DEF PlayersFlow

(* Opening: the number is unused.                                          *)
LEMMA FlowAuth ==
    ASSUME TypeOK, HandlersInv, CountsExact, AuthThread, ~Leaving("auth")
    PROVE  RoomsFlow /\ PlayersFlow
<1> USE DEF roomVars, clientVars, netVars, envVars
<1>0. /\ room \in [Index -> RoomRec] /\ player \in [Player -> PlayerRec]
      /\ indexQueue \in Seq(Index)
  BY DEF TypeOK
<1>a. UNCHANGED room => RoomsFlow
  BY DEF RoomsFlow, RoomGoesOn
<1>b. UNCHANGED player => PlayersFlow
  BY DEF PlayersFlow, PlayerGoesOn, Playing
<1>1. CASE Update_RoomCount
  BY <1>0, <1>1, HeadTailProperties, <1>b DEF Update_RoomCount, NoRoomNo, RoomOpens, InitRoom,
     Unused, RoomsFlow, RoomGoesOn
<1>2. ASSUME NEW p \in Player, Request_EnterRoom(p)
      PROVE  RoomsFlow /\ PlayersFlow
  <2>1. PICK i \in Index : i = ticket[p].index
    BY RoomNoIndex DEF TypeOK
  <2>2. PICK r : r.status = room[i].status /\ r.roomNo = room[i].roomNo /\ room' = [room EXCEPT ![i] = r]
    <3> DEFINE s == First(SlotsOf(i, Nobody))
               r == [room[i] EXCEPT !.roomPlayer[s] = p, !.curUser = room[i].curUser + 1,
                             !.bReady = room[i].bReady \/ room[i].curUser + 1 = MaxRoomPlayer]
    <3>1. room' = [room EXCEPT ![i] = r]
      BY <1>2, <2>1 DEF Request_EnterRoom
    <3>2. r.status = room[i].status /\ r.roomNo = room[i].roomNo
      BY <1>0 DEF RoomRec
    <3> HIDE DEF r
    <3>3. QED
      BY <3>1, <3>2
  <2>3. RoomsFlow
    BY <1>0, <2>2 DEF RoomsFlow, RoomGoesOn
  <2>4. /\ player[p].mode = "AUTH" /\ ~player[p].bAuthToGame
        /\ player' = [player EXCEPT ![p].roomNo = ticket[p]]
    BY <1>2 DEF Request_EnterRoom, EntersNow, FrameStart
  <2>5. PlayersFlow
    BY <1>0, <2>4 DEF PlayersFlow, PlayerGoesOn, PlayerComes, Playing, PlayerRec
  <2>6. QED
    BY <2>3, <2>5
<1>3. ASSUME NEW p \in Player, \/ Request_EnterRoom_NoExistRoom(p) \/ Request_EnterRoom_Crash(p)
                              \/ Auth_PacketProc_Logout(p) \/ Auth_LogoutProc(p) \/ Auth_LeaveProc(p)
      PROVE  RoomsFlow /\ PlayersFlow
  <2>1. UNCHANGED room
    BY <1>3 DEF Request_EnterRoom_NoExistRoom, Request_EnterRoom_Crash, Auth_PacketProc_Logout,
       Auth_LogoutProc, Auth_LeaveProc
  <2>2. CASE Request_EnterRoom_NoExistRoom(p)
    BY <2>2, <1>0, <1>a, <2>1 DEF Request_EnterRoom_NoExistRoom, EntersNow, FrameStart,
       PlayersFlow, PlayerGoesOn, PlayerComes, Playing, PlayerRec
  <2>3. CASE Request_EnterRoom_Crash(p)
    BY <1>a, <1>b, <2>1, <2>3 DEF Request_EnterRoom_Crash
  <2>4. CASE Auth_PacketProc_Logout(p) \/ Auth_LogoutProc(p) \/ Auth_LeaveProc(p)
    <3>1. PICK m \in Mode \ {"NONE"} :
             /\ player' = [player EXCEPT ![p].mode = m] /\ player[p].mode # "NONE"
             /\ m \in {"AUTH_TO_GAME", "GAME", "LOGOUT_IN_GAME"} => player[p].bAuthToGame
      BY <2>4 DEF Auth_PacketProc_Logout, Auth_LogoutProc, Auth_LeaveProc, Mode
    <3>2. PlayersFlow
      BY <1>0, <3>1 DEF PlayersFlow, PlayerGoesOn, Playing, PlayerRec
    <3>3. QED
      BY <1>a, <2>1, <3>2
  <2>5. QED
    BY <1>3, <2>2, <2>3, <2>4
<1>4. ASSUME NEW i \in Index, Update_Room_Wait(i)
      PROVE  RoomsFlow /\ PlayersFlow
  BY <1>0, <1>b, <1>4 DEF Update_Room_Wait, RoomsFlow, RoomGoesOn, RoomRec
<1>5. ASSUME NEW i \in Index, Update_Room_Ready(i)
      PROVE  RoomsFlow /\ PlayersFlow
  BY <1>0, <1>5 DEF Update_Room_Ready, RoomRec, RoomsFlow, RoomGoesOn, PlayerStarts, PlayerRec,
     PlayerGoesOn, Playing, PlayersFlow
<1>6. QED
  BY <1>1, <1>2, <1>3, <1>4, <1>5 DEF AuthThread
(* Leaving and dying: the room keeps its status and number.                *)
LEMMA FlowLeaving ==
    ASSUME TypeOK, HandlersInv, NEW t \in Thread, Leaving(t)
    PROVE  RoomsFlow /\ PlayersFlow
<1> USE DEF roomVars
<1>0. /\ room \in [Index -> RoomRec] /\ player \in [Player -> PlayerRec]
      /\ task \in [Thread -> TaskRec]
  BY DEF TypeOK
<1>1. \A i \in Index : room'[i].status = room[i].status /\ room'[i].roomNo = room[i].roomNo
  <2>1. CASE Leave_DeletePlayer(t)
    <3>1. PICK p \in Player : p = task[t].player
      BY <2>1 DEF Leave_DeletePlayer, At, HandlersInv, HandlersHavePlayer
    <3>2. PICK i \in Index : i = player[p].roomNo.index
      BY <1>0, RoomNoIndex DEF PlayerRec
    <3> DEFINE r == [room[i] EXCEPT !.roomPlayer[First(SlotsOf(i, p))] = Nobody, !.curUser = @ - 1]
    <3>3. UNCHANGED room \/ room' = [room EXCEPT ![i] = r]
      BY <2>1, <3>1, <3>2 DEF Leave_DeletePlayer
    <3>4. r.status = room[i].status /\ r.roomNo = room[i].roomNo
      BY <1>0 DEF RoomRec
    <3> HIDE DEF r
    <3>5. QED
      BY <1>0, <3>3, <3>4
  <2>2. CASE Leave_Status(t) \/ Die_Load(t)
    BY <2>2 DEF Leave_Status, Die_Load
  <2>3. CASE Die_Store(t)
    BY <1>0, <2>3 DEF TaskRec, Die_Store, RoomRec
  <2>4. QED
    BY <2>1, <2>2, <2>3 DEF Leaving
<1>2. PlayersFlow
  <2>1. UNCHANGED player \/ \E p \in Player : player' = [player EXCEPT ![p].isDead = TRUE]
    BY DEF Leaving, Leave_DeletePlayer, Leave_Status, Die_Load, Die_Store, At, HandlersInv,
       HandlersHavePlayer
  <2>2. QED
    BY <1>0, <2>1 DEF PlayersFlow, PlayerGoesOn, Playing, PlayerRec
<1>3. QED
  BY <1>1, <1>2 DEF RoomsFlow, RoomGoesOn

(* The Game thread ends games and closes rooms.                            *)
LEMMA FlowGame ==
    ASSUME TypeOK, HandlersInv, GameThread, ~Leaving("game")
    PROVE  RoomsFlow /\ PlayersFlow
<1> USE DEF roomVars, clientVars, netVars, envVars
<1>0. /\ room \in [Index -> RoomRec] /\ player \in [Player -> PlayerRec]
      /\ task \in [Thread -> TaskRec] /\ task["game"].room \in Index
  BY DEF TypeOK, TaskRec, Thread
<1>a. UNCHANGED room => RoomsFlow
  BY DEF RoomsFlow, RoomGoesOn
<1>b. UNCHANGED player => PlayersFlow
  BY DEF PlayersFlow, PlayerGoesOn, Playing
<1>1. CASE \E p \in Player : \/ Game_AuthToGameProc(p) \/ Game_PacketProc_Logout(p) \/ Game_LeaveProc(p)
                            \/ Game_ReleaseProc(p)
  <2>1. UNCHANGED room
    BY <1>1 DEF Game_AuthToGameProc, Game_PacketProc_Logout, Game_LeaveProc, Game_ReleaseProc
  <2>2. PlayersFlow
    <3>1. ASSUME NEW p \in Player, Game_AuthToGameProc(p) \/ Game_PacketProc_Logout(p) \/ Game_LeaveProc(p)
          PROVE  PlayersFlow
      BY <3>1, <1>0 DEF Game_AuthToGameProc, Game_PacketProc_Logout, Game_LeaveProc, Playing, Mode,
         PlayersFlow, PlayerGoesOn, PlayerRec
    <3>2. ASSUME NEW p \in Player, Game_ReleaseProc(p)
          PROVE  PlayersFlow
      BY <1>0, <3>2 DEF Game_ReleaseProc, PlayersFlow, PlayerGoesOn, Playing, PlayerRec
    <3>3. QED
      BY <1>1, <3>1, <3>2
  <2>3. QED
    BY <1>a, <2>1, <2>2
<1>2. CASE \/ \E p \in Player : Request_Character_HitDamage(p)
           \/ \E i \in Index : Update_Room_Play(i)
           \/ Update_Room_Play_RedZone
  BY <1>2, <1>a, <1>b DEF Request_Character_HitDamage, Update_Room_Play, Update_Room_Play_RedZone
<1>3. CASE HitDamage_Kill
  BY <1>3, <1>0, <1>a DEF HitDamage_Kill, At, HandlersInv, HandlersHavePlayer, Thread, PlayersFlow,
     PlayerGoesOn, Playing, PlayerRec
<1>4. CASE Update_Room_Play_Result
  BY <1>4, <1>0, <1>b DEF Update_Room_Play_Result, At, HandlersInv, PlayChecksPlay, RoomsFlow,
     RoomGoesOn, RoomRec
<1>5. ASSUME NEW i \in Index, Update_Room_End(i)
      PROVE  RoomsFlow /\ PlayersFlow
  BY <1>0, <1>5 DEF Update_Room_End, RoomRec, RoomsFlow, RoomGoesOn, RoomCloses, PlayersFlow,
     PlayerGoesOn, Playing, PlayerRec
<1>6. QED
  BY <1>1, <1>2, <1>3, <1>4, <1>5 DEF GameThread

(* The lan client and the clients change nothing a handler relies on: what *)
(* a room is, who is in it, and of a player in a room only whether it is   *)
(* still connected.                                                        *)
RoomSame(i) ==
    /\ room'[i].status = room[i].status /\ room'[i].roomNo = room[i].roomNo
    /\ room'[i].aliveUser = room[i].aliveUser /\ room'[i].roomPlayer = room[i].roomPlayer

PlayerSame(p) ==
    /\ player'[p].isDead = player[p].isDead /\ player'[p].roomNo = player[p].roomNo
    /\ player[p].mode # "NONE" => player'[p].mode # "NONE" /\ ticket'[p] = ticket[p]

(* They leave the threads and rooms alone, and let rooms and players go on.*)
LEMMA Background ==
    ASSUME TypeOK, LanClient \/ Environment \/ UNCHANGED vars
    PROVE  /\ UNCHANGED task /\ RoomsFlow /\ PlayersFlow
           /\ \A i \in Index : RoomSame(i)
           /\ \A p \in Player : PlayerSame(p)
<1> USE DEF roomVars, clientVars, netVars, envVars
<1>0. /\ room \in [Index -> RoomRec] /\ player \in [Player -> PlayerRec] /\ ticket \in [Player -> RoomNo]
  BY DEF TypeOK
<1>1. CASE LanClient
  <2>1. UNCHANGED <<player, ticket, task>>
    BY <1>1 DEF LanClient, Connect, Response_Master_Login,
       Receive_MasterRequest_Login_Created, Receive_MasterRequest_Login_Full,
       Receive_MasterRequest_Login_Done, Receive_MasterRequest_CloseRoom
  <2>2. \A i \in Index : RoomSame(i)
    <3>1. ASSUME NEW no \in closeReply, Receive_MasterRequest_CloseRoom(no)
          PROVE  \A i \in Index : RoomSame(i)
      BY <1>0, <3>1 DEF Receive_MasterRequest_CloseRoom, RoomSame, RoomRec
    <3>2. UNCHANGED room => \A i \in Index : RoomSame(i)
      BY DEF RoomSame
    <3>3. QED
      BY <1>1, <3>1, <3>2 DEF LanClient, Connect, Response_Master_Login,
         Receive_MasterRequest_Login_Created, Receive_MasterRequest_Login_Full,
         Receive_MasterRequest_Login_Done
  <2>3. QED
    BY <2>1, <2>2 DEF RoomSame, PlayerSame, RoomsFlow, RoomGoesOn, PlayersFlow, PlayerGoesOn, Playing
<1>2. CASE Environment \/ UNCHANGED vars
  <2>1. UNCHANGED <<room, task>>
    BY <1>2 DEF vars, Environment, OnLeaveServer, Master_Handle, Master_SendClient,
       Master_ClientLost, Accept_Complete, ConnectionLost
  <2>2. ASSUME NEW p \in Player, Master_SendClient(p) \/ Accept_Complete(p) \/ ConnectionLost(p)
        PROVE  PlayersFlow /\ \A q \in Player : PlayerSame(q)
    <3>1. CASE Master_SendClient(p)
      BY <1>0, <3>1 DEF Master_SendClient, PlayerSame, PlayersFlow, PlayerGoesOn, Playing
    <3>2. CASE Accept_Complete(p)
      BY <1>0, <3>2 DEF Accept_Complete, PlayerSame, PlayersFlow, PlayerGoesOn, PlayerComes, Playing, PlayerRec
    <3>3. CASE ConnectionLost(p)
      BY <1>0, <3>3 DEF ConnectionLost, PlayerSame, PlayersFlow, PlayerGoesOn, Playing, PlayerRec
    <3>4. QED
      BY <2>2, <3>1, <3>2, <3>3
  <2>3. \/ UNCHANGED <<player, ticket>>
        \/ \E p \in Player : Master_SendClient(p) \/ Accept_Complete(p) \/ ConnectionLost(p)
    BY <1>2 DEF vars, Environment, OnLeaveServer, Master_Handle, Master_ClientLost
  <2>4. PlayersFlow /\ \A q \in Player : PlayerSame(q)
    BY <2>2, <2>3 DEF PlayerSame, PlayersFlow, PlayerGoesOn, Playing
  <2>5. QED
    BY <2>1, <2>4 DEF RoomSame, RoomsFlow, RoomGoesOn
<1>3. QED
  BY <1>1, <1>2

(* Rooms and players go on so in every step.                               *)
LEMMA FlowNext ==
    ASSUME TypeOK, HandlersInv, CountsExact, [Next]_vars
    PROVE  RoomsFlow /\ PlayersFlow
  BY FlowAuth, FlowLeaving, FlowGame, Background DEF Thread, Next
-----------------------------------------------------------------------------
(* What the count rests on, step by step.                                  *)

AliveCore == OneThread /\ HandlersDealt /\ AliveUntilGame /\ AliveUserExact

(* A room whose players are as dead as they were has the same survivors.   *)
LEMMA SameSurvivors ==
    ASSUME NEW i \in Index, room'[i].roomPlayer = room[i].roomPlayer,
           \A p \in PlayersIn(i) : player'[p].isDead = player[p].isDead
    PROVE  PlayersIn(i)' = PlayersIn(i) /\ Survivors(i)' = Survivors(i)
  BY DEF PlayersIn, Survivors

(* Steps of the background disturb nothing.                                *)
LEMMA AliveBackground ==
    ASSUME TypeOK, HandlersInv, AliveCore, UNCHANGED task,
           \A i \in Index : RoomSame(i), \A p \in Player : PlayerSame(p)
    PROVE  AliveCore'
<1>0. /\ task \in [Thread -> TaskRec]
      /\ \A i \in Index : PlayersIn(i) \subseteq Player
  BY Typed
<1>1. \A i \in Index : PlayersIn(i)' = PlayersIn(i) /\ Survivors(i)' = Survivors(i)
  BY <1>0, SameSurvivors DEF RoomSame, PlayerSame
<1>2. OneThread'
  BY DEF AliveCore, OneThread
<1>3. HandlersDealt'
  <2>1. SUFFICES ASSUME NEW t \in Thread, AtWork(t), DealtWith(t)
                 PROVE  DealtWith(t)'
    BY DEF AliveCore, HandlersDealt, AtWork
  <2>2. PICK i \in Index : i = task[t].room
    BY <1>0 DEF TaskRec
  <2>3. RoomSame(i) /\ Survivors(i)' = Survivors(i) /\ PlayersIn(i)' = PlayersIn(i)
    BY <1>1
  <2>4. PlayerSame(task[t].player)
    BY <2>1 DEF HandlersInv, HandlersHavePlayer, AtWork
  <2>5. QED
    BY <2>1, <2>2, <2>3, <2>4 DEF DealtWith, RoomSame, PlayerSame, Begun
<1>4. AliveUntilGame'
  BY <1>0, <1>1 DEF AliveCore, AliveUntilGame, PlayerSame, RoomSame
<1>5. AliveUserExact'
  BY <1>1 DEF PlayerSame, HandlersInv, HandlersHavePlayer, AtWork, Dying, AliveCore,
     AliveUserExact, RoomSame
<1>6. QED
  BY <1>2, <1>3, <1>4, <1>5 DEF AliveCore
(* Steps that begin no handler that deals with a life, when no handler is  *)
(* at work.                                                                *)
CalmPlayer(p) ==
    \/ /\ player'[p].isDead = player[p].isDead
       /\ player[p].isDead => player'[p].mode # "NONE" /\ ticket'[p] = ticket[p]
    \/ ~player'[p].isDead /\ player[p].mode = "WAIT_LOGOUT"

CalmRoom(i) ==
    /\ room'[i].status = "Play" => RoomSame(i)
    /\ room'[i].status \in {"Wait", "Ready"} => \A p \in PlayersIn(i)' : ~player[p].isDead

CalmTask == /\ task'["auth"].step = "idle" \/ task'["game"].step = "idle"
            /\ \A t \in Thread : task'[t].step \in {"idle", "leave", "zone"}

(* They keep the count, and who deals with a life.                         *)
LEMMA AliveCalm ==
    ASSUME TypeOK, TypeOK', MembersInv, AliveCore, AllIdle, CalmTask,
           \A i \in Index : CalmRoom(i), \A p \in Player : CalmPlayer(p)
    PROVE  AliveCore'
<1>0. \A i \in Index : PlayersIn(i) \subseteq Player /\ PlayersIn(i)' \subseteq Player
  <2>1. room \in [Index -> RoomRec] /\ room' \in [Index -> RoomRec]
    BY DEF TypeOK
  <2>2. \A i \in Index, s \in Slot : /\ room[i].roomPlayer[s] \in Player \cup {Nobody}
                                    /\ room'[i].roomPlayer[s] \in Player \cup {Nobody}
    BY <2>1 DEF RoomRec
  <2>3. QED
    BY <2>2 DEF PlayersIn
<1>1. OneThread' /\ HandlersDealt'
  BY DEF CalmTask, OneThread, HandlersDealt, AtWork, Thread
<1>2. AliveUntilGame'
  BY <1>0 DEF AliveCore, AliveUntilGame, CalmPlayer, CalmRoom
<1>3. AliveUserExact'
  <2>1. SUFFICES ASSUME NEW i \in Index, room'[i].status = "Play"
                 PROVE  room'[i].aliveUser = Cardinality(Survivors(i)') + Cardinality(Dying(i)')
    BY DEF AliveUserExact
  <2>2. RoomSame(i)
    BY <2>1 DEF CalmRoom
  <2>3. \A p \in PlayersIn(i) : player[p].mode # "WAIT_LOGOUT"
    BY <2>1, <2>2 DEF RoomSame, MembersInv, Placed, PlayersIn, Departing, AllIdle
  <2>4. Survivors(i)' = Survivors(i)
    BY <1>0, <2>2, <2>3, SameSurvivors DEF CalmPlayer, RoomSame
  <2>5. Dying(i) = {} /\ Dying(i)' = {}
    BY DEF Dying, AllIdle, CalmTask
  <2>6. QED
    BY <2>1, <2>2, <2>4, <2>5 DEF AliveCore, AliveUserExact, RoomSame
<1>4. QED
  BY <1>1, <1>2, <1>3 DEF AliveCore
(* A room that stays as it is is calm.                                     *)
LEMMA SameCalm ==
    ASSUME AliveUntilGame, NEW i \in Index, RoomSame(i)
    PROVE  CalmRoom(i)
  BY DEF CalmRoom, RoomSame, AliveUntilGame, PlayersIn

(* Handlers that do not overlap begin when both threads are idle.          *)
LEMMA VisitAlone == ASSUME ~Overlap, NEW t \in Thread, CanVisit(t) PROVE AllIdle
  BY DEF CanVisit, AllIdle

(* The Auth thread opens and fills rooms with players that are alive.      *)
LEMMA AliveAuth ==
    ASSUME TypeOK, TypeOK', HandlersInv, MembersInv, AliveCore, ~Overlap, AuthThread, ~Leaving("auth"),
           \A i \in Index : ~Update_Room_Ready(i)
    PROVE  AliveCore'
<1> USE DEF roomVars, clientVars, netVars, envVars
<1>0. /\ room \in [Index -> RoomRec] /\ player \in [Player -> PlayerRec]
      /\ task \in [Thread -> TaskRec] /\ ticket \in [Player -> RoomNo]
      /\ indexQueue \in Seq(Index) /\ \A i \in Index : PlayersIn(i) \subseteq Player
  BY Typed DEF TypeOK
<1>a. AllIdle
  BY VisitAlone DEF AuthThread, Update_RoomCount, Request_EnterRoom, Request_EnterRoom_NoExistRoom,
     Request_EnterRoom_Crash, EntersNow, Auth_PacketProc_Logout, Auth_LogoutProc, Auth_LeaveProc,
     Update_Room_Wait, Thread
<1>b. AliveUntilGame
  BY DEF AliveCore
<1>c. UNCHANGED room => \A i \in Index : CalmRoom(i)
  BY <1>b, SameCalm DEF RoomSame
<1>d. UNCHANGED task => CalmTask
  BY <1>a DEF AllIdle, CalmTask, Thread
<1>e. UNCHANGED <<player, ticket>> => \A p \in Player : CalmPlayer(p)
  BY <1>b DEF CalmPlayer, AliveUntilGame
<1>1. CASE Update_RoomCount
  <2>1. PICK i \in Index : \E no : room' = [room EXCEPT ![i] = InitRoom(no, "Wait")]
    BY <1>0, <1>1, HeadTailProperties DEF Update_RoomCount
  <2>2. PlayersIn(i)' = {} /\ room'[i].status = "Wait" /\ \A j \in Index \ {i} : room'[j] = room[j]
    BY <1>0, <2>1 DEF InitRoom, PlayersIn
  <2>3. \A j \in Index : CalmRoom(j)
    BY <1>b, <2>2, SameCalm DEF RoomSame, CalmRoom
  <2>4. UNCHANGED <<task, player, ticket>>
    BY <1>1 DEF Update_RoomCount
  <2>5. QED
    BY <1>a, <1>d, <1>e, <2>3, <2>4, AliveCalm
<1>2. ASSUME NEW p \in Player, Request_EnterRoom(p)
      PROVE  AliveCore'
  <2>1. PICK i \in Index : i = ticket[p].index
    BY <1>0, RoomNoIndex
  <2>2. /\ room[i].status = "Wait" /\ ticket[p] # NoRoomNo /\ UNCHANGED task
        /\ player' = [player EXCEPT ![p].roomNo = ticket[p]]
        /\ ticket' = [ticket EXCEPT ![p] = NoRoomNo]
        /\ SlotsOf(i, Nobody) # {}
    BY <1>2, <2>1 DEF Request_EnterRoom, EntersNow
  <2>3. PICK s \in Slot : s = First(SlotsOf(i, Nobody))
    BY <2>2, FirstSlot DEF SlotsOf
  <2>4. /\ room'[i].status = "Wait" /\ room'[i].roomPlayer = [room[i].roomPlayer EXCEPT ![s] = p]
        /\ \A j \in Index \ {i} : room'[j] = room[j]
    <3> DEFINE r == [room[i] EXCEPT !.roomPlayer[s] = p, !.curUser = room[i].curUser + 1,
                             !.bReady = room[i].bReady \/ room[i].curUser + 1 = MaxRoomPlayer]
    <3>1. room' = [room EXCEPT ![i] = r]
      BY <1>2, <2>1, <2>3 DEF Request_EnterRoom
    <3>2. r.status = room[i].status /\ r.roomPlayer = [room[i].roomPlayer EXCEPT ![s] = p]
      BY <1>0 DEF RoomRec
    <3> HIDE DEF r
    <3>3. QED
      BY <1>0, <2>2, <3>1, <3>2
  <2>5. ~player[p].isDead /\ PlayersIn(i)' \subseteq PlayersIn(i) \cup {p}
    BY <1>0, <1>b, <2>2, <2>4 DEF AliveUntilGame, PlayersIn, RoomRec
  <2>6. \A j \in Index : CalmRoom(j)
    BY <1>b, <2>2, <2>4, <2>5, SameCalm DEF CalmRoom, AliveUntilGame, RoomSame
  <2>7. \A q \in Player : CalmPlayer(q)
    BY <1>0, <1>b, <2>2, <2>5 DEF CalmPlayer, AliveUntilGame, PlayerRec
  <2>8. QED
    BY <1>a, <1>d, <2>2, <2>6, <2>7, AliveCalm
<1>3. ASSUME NEW p \in Player, Request_EnterRoom_NoExistRoom(p)
      PROVE  AliveCore'
  BY <1>3, <1>0, <1>b, <1>a, <1>c, <1>d, AliveCalm DEF Request_EnterRoom_NoExistRoom, EntersNow,
     CalmPlayer, AliveUntilGame, PlayerRec
<1>4. ASSUME NEW p \in Player, \/ Request_EnterRoom_Crash(p) \/ Auth_PacketProc_Logout(p)
                              \/ Auth_LogoutProc(p) \/ Auth_LeaveProc(p)
      PROVE  AliveCore'
  <2>1. UNCHANGED <<room, ticket>>
    BY <1>4 DEF Request_EnterRoom_Crash, Auth_PacketProc_Logout, Auth_LogoutProc, Auth_LeaveProc
  <2>2. \/ UNCHANGED player
        \/ \E m \in Mode \ {"NONE"} : player' = [player EXCEPT ![p].mode = m]
    BY <1>4 DEF Request_EnterRoom_Crash, Auth_PacketProc_Logout, Auth_LogoutProc, Auth_LeaveProc, Mode
  <2>3. \A q \in Player : CalmPlayer(q)
    BY <1>0, <1>b, <2>1, <2>2 DEF CalmPlayer, AliveUntilGame, PlayerRec
  <2>4. CalmTask
    BY <1>4, <1>0, <1>a, <1>d DEF Request_EnterRoom_Crash, Auth_PacketProc_Logout, Auth_LogoutProc,
       Auth_LeaveProc, CalmTask, AllIdle, Idle, Thread
  <2>5. QED
    BY <1>a, <1>c, <2>1, <2>3, <2>4, AliveCalm
<1>5. ASSUME NEW i \in Index, Update_Room_Wait(i)
      PROVE  AliveCore'
  BY <1>0, <1>5, <1>b, SameCalm, <1>a, <1>d, <1>e, AliveCalm DEF Update_Room_Wait, RoomRec,
     RoomSame, CalmRoom, AliveUntilGame, PlayersIn
<1>6. QED
  BY <1>1, <1>2, <1>3, <1>4, <1>5 DEF AuthThread
(* curUser is the number of players, each in one slot.                     *)
LEMMA UsersArePlayers ==
    ASSUME TypeOK, CountsExact, MembersInv, NEW i \in Index, room[i].status # "Close"
    PROVE  room[i].curUser = Cardinality(PlayersIn(i))
<1> DEFINE E == SlotsOf(i, Nobody)
           F == Slot \ E
           P == PlayersIn(i)
           f == [s \in F |-> room[i].roomPlayer[s]]
<1>1. f \in Bijection(F, P)
  <2>1. f \in [F -> P] /\ \A p \in P : \E s \in F : f[s] = p
    BY DEF PlayersIn, SlotsOf
  <2>2. \A r, s \in F : f[r] = f[s] => r = s
    BY DEF MembersInv, SlotsOf
  <2> HIDE DEF f, F, P
  <2>3. QED
    BY <2>1, <2>2 DEF Bijection, Injection, Surjection, IsInjective
<1>2. E \subseteq Slot /\ IsFiniteSet(Slot) /\ Cardinality(Slot) = MaxRoomPlayer
  BY SlotsFinite DEF SlotsOf
<1>3. IsFiniteSet(F) /\ IsFiniteSet(E)
  BY <1>2, FS_Subset
<1>4. Cardinality(F) = MaxRoomPlayer - Cardinality(E)
  <2>1. Slot \cap E = E
    BY <1>2
  <2>2. QED
    BY <1>2, <1>3, <2>1, FS_Difference
<1>5. Cardinality(P) = Cardinality(F)
  BY <1>1, <1>3, FS_Bijection DEF ExistsBijection
<1>6. QED
  BY <1>4, <1>5 DEF CountsExact, CurUserExact

(* A game begins with everyone alive.                                      *)
LEMMA AliveReady ==
    ASSUME TypeOK, CountsExact, MembersInv, AliveCore, ~Overlap, NEW i \in Index, Update_Room_Ready(i)
    PROVE  AliveCore'
<1>0. /\ room \in [Index -> RoomRec] /\ player \in [Player -> PlayerRec]
      /\ \A j \in Index : PlayersIn(j) \subseteq Player
  BY Typed
<1>a. AllIdle
  BY VisitAlone DEF Update_Room_Ready, Thread
<1>1. /\ room[i].status = "Ready" /\ room'[i].status = "Play"
      /\ room'[i].roomPlayer = room[i].roomPlayer /\ room'[i].aliveUser = room[i].curUser
      /\ \A j \in Index \ {i} : room'[j] = room[j]
  BY <1>0 DEF Update_Room_Ready, RoomRec
<1>2. /\ UNCHANGED <<task, ticket>>
      /\ \A p \in Player : player'[p].isDead = player[p].isDead /\ player'[p].mode = player[p].mode
  BY <1>0 DEF Update_Room_Ready, envVars, PlayerRec
<1>3. \A j \in Index : PlayersIn(j)' = PlayersIn(j) /\ Survivors(j)' = Survivors(j)
  BY <1>0, <1>1, <1>2, SameSurvivors
<1>4. AliveUntilGame'
  BY <1>0, <1>1, <1>2, <1>3 DEF AliveCore, AliveUntilGame
<1>5. \A j \in Index : Dying(j) = {} /\ Dying(j)' = {} /\ Cardinality(Dying(j)) = 0 /\ Cardinality(Dying(j)') = 0
  BY <1>a, <1>2, FS_EmptySet DEF Dying, AllIdle
<1>6. room'[i].aliveUser = Cardinality(Survivors(i)')
  BY <1>1, <1>3, UsersArePlayers DEF AliveCore, AliveUntilGame, Survivors
<1>7. AliveUserExact'
  <2>1. SUFFICES ASSUME NEW j \in Index, room'[j].status = "Play"
                 PROVE  room'[j].aliveUser = Cardinality(Survivors(j)') + Cardinality(Dying(j)')
    BY DEF AliveUserExact
  <2>2. CASE j = i
    BY Countable, <1>3, <1>5, <1>6, <2>2
  <2>3. CASE j # i
    BY <1>1, <1>3, <1>5, <2>1, <2>3 DEF AliveCore, AliveUserExact
  <2>4. QED
    BY <2>2, <2>3
<1>8. OneThread' /\ HandlersDealt'
  BY <1>a, <1>2 DEF AllIdle, OneThread, HandlersDealt, AtWork, Thread
<1>9. QED
  BY <1>4, <1>7, <1>8 DEF AliveCore

(* Closing a room kills nobody.                                            *)
LEMMA RoomEnds ==
    ASSUME TypeOK, NEW i \in Index, Update_Room_End(i)
    PROVE  /\ room'[i].status = "Close" /\ \A j \in Index \ {i} : room'[j] = room[j]
           /\ UNCHANGED task
           /\ \A p \in Player : player'[p].isDead = player[p].isDead /\ player'[p].mode = player[p].mode
  BY Typed DEF Update_Room_End, RoomRec, PlayerRec

(* The Game thread's visits but those that take a life.                    *)
LEMMA AliveVisits ==
    ASSUME TypeOK, TypeOK', MembersInv, AliveCore, ~Overlap,
           \/ \E p \in Player : \/ Game_AuthToGameProc(p) \/ Game_PacketProc_Logout(p)
                               \/ Game_LeaveProc(p) \/ Game_ReleaseProc(p)
           \/ \E i \in Index : Update_Room_Play(i) \/ Update_Room_End(i)
    PROVE  AliveCore'
<1> USE DEF roomVars, clientVars, netVars, envVars
<1>0. /\ room \in [Index -> RoomRec] /\ player \in [Player -> PlayerRec]
      /\ task \in [Thread -> TaskRec] /\ ticket \in [Player -> RoomNo]
  BY Typed
<1>a. AllIdle
  BY VisitAlone DEF Game_AuthToGameProc, Game_PacketProc_Logout, Game_LeaveProc, Game_ReleaseProc,
     Update_Room_Play, Update_Room_End, Thread
<1>b. AliveUntilGame /\ UNCHANGED ticket
  BY DEF AliveCore, Game_AuthToGameProc, Game_PacketProc_Logout, Game_LeaveProc, Game_ReleaseProc,
     Update_Room_Play, Update_Room_End
<1>1. CalmTask
  <2>1. \/ UNCHANGED task
        \/ \E u : u.step \in {"leave", "zone"} /\ task' = [task EXCEPT !["game"] = u]
    <3>1. ASSUME NEW p \in Player, Game_LeaveProc(p)
          PROVE  \E u : u.step = "leave" /\ task' = [task EXCEPT !["game"] = u]
      BY <3>1 DEF Game_LeaveProc, Idle
    <3>2. ASSUME NEW i \in Index, Update_Room_Play(i)
          PROVE  \E u : u.step = "zone" /\ task' = [task EXCEPT !["game"] = u]
      BY <3>2 DEF Update_Room_Play, Idle
    <3>3. ASSUME NEW p \in Player, Game_AuthToGameProc(p) \/ Game_PacketProc_Logout(p) \/ Game_ReleaseProc(p)
          PROVE  UNCHANGED task
      BY <3>3 DEF Game_AuthToGameProc, Game_PacketProc_Logout, Game_ReleaseProc
    <3>4. QED
      BY <3>1, <3>2, <3>3, RoomEnds
  <2>2. QED
    BY <1>0, <1>a, <2>1 DEF CalmTask, AllIdle, Thread
<1>2. \A j \in Index : CalmRoom(j)
  BY RoomEnds, <1>b, SameCalm DEF Game_AuthToGameProc, Game_PacketProc_Logout, Game_LeaveProc,
     Game_ReleaseProc, Update_Room_Play, RoomSame, CalmRoom
<1>3. \A q \in Player : CalmPlayer(q)
  <2>1. CASE \E p \in Player : Game_ReleaseProc(p)
    BY <1>0, <1>b, <2>1 DEF Game_ReleaseProc, CalmPlayer, AliveUntilGame, PlayerRec
  <2>2. CASE \E p \in Player : Game_AuthToGameProc(p) \/ Game_PacketProc_Logout(p) \/ Game_LeaveProc(p)
    <3>1. PICK p \in Player, m \in Mode \ {"NONE"} : player' = [player EXCEPT ![p].mode = m]
      BY <2>2 DEF Game_AuthToGameProc, Game_PacketProc_Logout, Game_LeaveProc, Mode
    <3>2. QED
      BY <1>0, <1>b, <3>1 DEF CalmPlayer, AliveUntilGame, PlayerRec
  <2>3. CASE \E i \in Index : Update_Room_Play(i)
    BY <1>b, <2>3 DEF Update_Room_Play, CalmPlayer, AliveUntilGame
  <2>4. CASE \E i \in Index : Update_Room_End(i)
    BY <2>4, RoomEnds, <1>b DEF CalmPlayer, AliveUntilGame
  <2>5. QED
    BY <2>1, <2>2, <2>3, <2>4
<1>4. QED
  BY <1>a, <1>1, <1>2, <1>3, AliveCalm
-----------------------------------------------------------------------------
(* The handlers that deal with a life.                                     *)

(* A thread that is in a handler is the only one.                          *)
LEMMA OthersIdle ==
    ASSUME OneThread, NEW t \in Thread, task[t].step # "idle"
    PROVE  \A u \in Thread \ {t} : task[u].step = "idle"
  BY DEF OneThread, Thread

(* A handler that goes on, while everything else stays, and is as much in  *)
(* between as it was.                                                      *)
LEMMA AliveTask ==
    ASSUME TypeOK, AliveCore, NEW t \in Thread, NEW u, task' = [task EXCEPT ![t] = u],
           UNCHANGED <<room, player, ticket>>,
           \A w \in Thread \ {t} : task[w].step = "idle",
           AtWork(t)' => DealtWith(t)',
           \A i \in Index : room[i].status = "Play" => (t \in Dying(i) <=> t \in Dying(i)')
    PROVE  AliveCore'
<1>0. task \in [Thread -> TaskRec]
  BY Typed
<1>1. \A w \in Thread \ {t} : task'[w] = task[w]
  BY <1>0
<1>2. OneThread' /\ HandlersDealt'
  BY <1>1 DEF OneThread, HandlersDealt, AtWork, Thread
<1>3. AliveUntilGame'
  BY DEF AliveCore, AliveUntilGame, PlayersIn
<1>4. AliveUserExact'
  BY <1>1 DEF Dying, Survivors, PlayersIn, AliveCore, AliveUserExact
<1>5. QED
  BY <1>2, <1>3, <1>4 DEF AliveCore

(* Who is hit is in a room whose game has begun.                           *)
LEMMA AliveHit ==
    ASSUME TypeOK, MembersInv, AliveCore, GamesHaveBegun, ~Overlap, NEW p \in Player,
           Request_Character_HitDamage(p)
    PROVE  AliveCore'
<1>0. /\ player \in [Player -> PlayerRec] /\ task \in [Thread -> TaskRec]
  BY Typed
<1>a. AllIdle
  BY VisitAlone DEF Request_Character_HitDamage, Thread
<1>1. PICK i \in Index : i = player[p].roomNo.index
  BY <1>0, RoomNoIndex DEF PlayerRec
<1>2. PICK v \in PlayersIn(i) :
        /\ ~player[v].isDead
        /\ task' = [task EXCEPT !["game"] = [Idle EXCEPT !.step = "kill", !.player = v, !.room = i]]
  BY <1>1 DEF Request_Character_HitDamage
<1>3. Begun(i) /\ UNCHANGED <<room, player, ticket>>
  BY <1>1 DEF Request_Character_HitDamage, GamesHaveBegun, Playing, roomVars, envVars
<1>4. Placed(v, room[i].roomNo)
  BY <1>2, <1>3 DEF MembersInv, PlayersIn, Begun
<1>5. task'["game"].step = "kill" /\ task'["game"].player = v /\ task'["game"].room = i
  BY <1>0, <1>2 DEF Idle, Thread
<1>6. DealtWith("game")'
  BY <1>2, <1>3, <1>4, <1>5 DEF Survivors, PlayersIn, DealtWith, Placed, Begun
<1>7. \A j \in Index : "game" \notin Dying(j) /\ "game" \notin Dying(j)'
  BY <1>a, <1>5 DEF Dying, AllIdle
<1>8. QED
  BY <1>a, <1>2, <1>3, <1>6, <1>7, AliveTask DEF AllIdle, Thread

(* So is who the red zone takes.                                           *)
LEMMA AliveZone ==
    ASSUME TypeOK, HandlersInv, MembersInv, AliveCore, Update_Room_Play_RedZone
    PROVE  AliveCore'
<1>0. task \in [Thread -> TaskRec]
  BY Typed
<1>1. PICK i \in Index : i = task["game"].room
  BY <1>0 DEF TaskRec, Thread
<1>2. PICK v \in PlayersIn(i) :
        /\ ~player[v].isDead
        /\ task' = [task EXCEPT !["game"] = [task["game"] EXCEPT !.step = "load", !.player = v, !.back = "zone"]]
  BY <1>1 DEF Update_Room_Play_RedZone
<1>3. task["game"].step = "zone" /\ room[i].status = "Play" /\ UNCHANGED <<room, player, ticket>>
  BY <1>1 DEF Update_Room_Play_RedZone, At, HandlersInv, PlayChecksPlay, roomVars, envVars
<1>4. Placed(v, room[i].roomNo)
  BY <1>2, <1>3 DEF MembersInv, PlayersIn
<1>5. task'["game"].step = "load" /\ task'["game"].player = v /\ task'["game"].room = i
  BY <1>0, <1>1, <1>2 DEF TaskRec, Thread
<1>6. DealtWith("game")'
  BY <1>3, <1>4, <1>5 DEF DealtWith, Placed, Begun
<1>7. \A j \in Index : "game" \notin Dying(j) /\ "game" \notin Dying(j)'
  BY <1>2, <1>3, <1>5 DEF Survivors, PlayersIn, Dying
<1>8. \A u \in Thread \ {"game"} : task[u].step = "idle"
  BY <1>3, OthersIdle DEF AliveCore, Thread
<1>9. QED
  BY <1>2, <1>3, <1>6, <1>7, <1>8, AliveTask DEF Thread

(* Reading the count leaves it, ...                                        *)
LEMMA AliveLoad ==
    ASSUME TypeOK, AliveCore, NEW t \in Thread, Die_Load(t)
    PROVE  AliveCore'
<1>0. task \in [Thread -> TaskRec]
  BY Typed
<1>1. /\ task[t].step = "load" /\ UNCHANGED <<room, player, ticket>>
      /\ task' = [task EXCEPT ![t] = [task[t] EXCEPT !.step = "store", !.alive = room[task[t].room].aliveUser]]
  BY DEF Die_Load, At, roomVars, envVars
<1>2. /\ task'[t].step = "store" /\ task'[t].player = task[t].player /\ task'[t].room = task[t].room
      /\ task'[t].alive = room[task[t].room].aliveUser
  BY <1>0, <1>1 DEF TaskRec
<1>3. DealtWith(t)'
  BY <1>1, <1>2 DEF AliveCore, HandlersDealt, AtWork, DealtWith, Begun
<1>4. \A i \in Index : t \in Dying(i) <=> t \in Dying(i)'
  BY <1>1, <1>2 DEF Dying, Survivors, PlayersIn
<1>5. \A u \in Thread \ {t} : task[u].step = "idle"
  BY <1>1, OthersIdle DEF AliveCore
<1>6. QED
  BY <1>1, <1>3, <1>4, <1>5, AliveTask

(* ... and so does looking whether the leaver is one of those alive.       *)
LEMMA AliveStatus ==
    ASSUME TypeOK, AliveCore, NEW t \in Thread, Leave_Status(t)
    PROVE  AliveCore'
<1>0. task \in [Thread -> TaskRec]
  BY Typed
<1> DEFINE p == task[t].player
           i == task[t].room
<1>1. task[t].step = "switch" /\ UNCHANGED <<room, player, ticket>>
  BY DEF Leave_Status, At, roomVars, envVars
<1>2. DealtWith(t)
  BY <1>1 DEF AliveCore, HandlersDealt, AtWork
<1>3. \A u \in Thread \ {t} : task[u].step = "idle"
  BY <1>1, OthersIdle DEF AliveCore
<1>4. CASE room[i].status = "Play" /\ ~player[p].isDead
  BY <1>4, <1>0, <1>1, <1>2, <1>3, AliveTask DEF Leave_Status, TaskRec, DealtWith, Begun, Dying,
     Survivors, PlayersIn
<1>5. CASE ~(room[i].status = "Play" /\ ~player[p].isDead)
  BY <1>5, <1>0, <1>1, <1>3, AliveTask DEF Leave_Status, Return, Idle, Dying, AtWork
<1>6. QED
  BY <1>4, <1>5
(* Who dies is in one room only, and nobody in it waits for the game.      *)
LEMMA OneDies ==
    ASSUME TypeOK, HandlersInv, MembersInv, AliveCore, NEW t \in Thread, task[t].step \in {"kill", "store"},
           NEW i \in Index, i = task[t].room, NEW p, p = task[t].player,
           player'[p].isDead, player'[p].mode = player[p].mode,
           \A q \in Player \ {p} : player'[q] = player[q],
           UNCHANGED ticket,
           \A j \in Index : room'[j].status = room[j].status /\ room'[j].roomPlayer = room[j].roomPlayer
    PROVE  /\ AliveUntilGame'
           /\ Survivors(i)' = Survivors(i) \ {p}
           /\ \A j \in Index \ {i} :
                 room[j].status = "Play" => Survivors(j)' = Survivors(j)
<1>0. /\ player \in [Player -> PlayerRec] /\ task \in [Thread -> TaskRec]
      /\ \A j \in Index : PlayersIn(j) \subseteq Player
  BY Typed
<1>1. p \in Player
  BY DEF HandlersInv, HandlersHavePlayer
<1>3. Begun(i) /\ player[p].roomNo = room[i].roomNo /\ player[p].mode # "NONE" /\ ticket[p] = NoRoomNo
  BY DEF AliveCore, HandlersDealt, AtWork, DealtWith, Begun
<1>4. ASSUME NEW j \in Index \ {i}, room[j].status # "Close" PROVE p \notin PlayersIn(j)
  BY <1>3, <1>4 DEF MembersInv, Begun, Placed, PlayersIn
<1>5. /\ player'[p].isDead /\ \A q \in Player \ {p} : player'[q] = player[q]
      /\ player'[p].mode = player[p].mode
  OBVIOUS
<1>6. \A j \in Index : PlayersIn(j)' = PlayersIn(j)
  BY DEF PlayersIn
<1>7. AliveUntilGame'
  BY <1>3, <1>5, <1>6, <1>0, <1>4 DEF AliveCore, AliveUntilGame, Begun
<1>8. Survivors(i)' = Survivors(i) \ {p}
  BY <1>0, <1>5, <1>6 DEF Survivors
<1>9. ASSUME NEW j \in Index \ {i}, room[j].status = "Play" PROVE Survivors(j)' = Survivors(j)
  BY <1>0, <1>4, <1>5, <1>9, SameSurvivors
<1>10. QED
  BY <1>7, <1>8, <1>9

(* Who is hit is dead before the count goes down.                          *)
LEMMA AliveKill ==
    ASSUME TypeOK, HandlersInv, MembersInv, AliveCore, HitDamage_Kill
    PROVE  AliveCore'
<1>0. task \in [Thread -> TaskRec] /\ "game" \in Thread
  BY Typed DEF Thread
<1> DEFINE t == "game"
<1>p. PICK p : p = task[t].player
  OBVIOUS
<1>1. /\ task[t].step = "kill" /\ UNCHANGED <<room, ticket>>
      /\ player' = [player EXCEPT ![p].isDead = TRUE]
      /\ task' = [task EXCEPT ![t].step = "load"]
  BY <1>p DEF HitDamage_Kill, At, roomVars, envVars
<1>2. PICK i \in Index : i = task[t].room
  BY <1>0 DEF TaskRec
<1>7. p \in Player
  BY <1>0, <1>1, <1>p DEF HandlersInv, HandlersHavePlayer
<1>3. /\ AliveUntilGame' /\ Survivors(i)' = Survivors(i) \ {p}
      /\ \A j \in Index \ {i} : room[j].status = "Play" => Survivors(j)' = Survivors(j)
  <2>1. \A j \in Index : room'[j].status = room[j].status /\ room'[j].roomPlayer = room[j].roomPlayer
    BY <1>1
  <2>2. /\ player'[p].isDead /\ player'[p].mode = player[p].mode
        /\ \A q \in Player \ {p} : player'[q] = player[q]
    BY <1>1, <1>7, Typed DEF PlayerRec
  <2>3. task[t].step \in {"kill", "store"} /\ UNCHANGED ticket
    BY <1>1
  <2>4. QED
    BY <1>0, <1>2, <1>p, <2>1, <2>2, <2>3, OneDies
<1>4. DealtWith(t) /\ p \in Survivors(i)
  BY <1>0, <1>1, <1>2, <1>p DEF AliveCore, HandlersDealt, AtWork, DealtWith
<1>5. /\ task'[t].step = "load" /\ task'[t].player = p /\ task'[t].room = i
      /\ \A u \in Thread \ {t} : task'[u] = task[u] /\ task[u].step = "idle"
  BY <1>0, <1>1, <1>2, <1>p, OthersIdle DEF TaskRec, AliveCore
<1>6. \A q \in Player : player'[q].roomNo = player[q].roomNo /\ player'[q].mode = player[q].mode
  BY <1>1, Typed DEF PlayerRec
<1>8. DealtWith(t)'
  BY <1>1, <1>2, <1>4, <1>5, <1>6, <1>7, <1>p DEF DealtWith, Begun
<1>9. OneThread' /\ HandlersDealt'
  BY <1>5, <1>8 DEF OneThread, HandlersDealt, AtWork, Thread
<1>10. AliveUserExact'
  <2>1. SUFFICES ASSUME NEW j \in Index, room[j].status = "Play"
                 PROVE  room[j].aliveUser = Cardinality(Survivors(j)') + Cardinality(Dying(j)')
    BY <1>1 DEF AliveUserExact
  <2>2. /\ Cardinality(Dying(j)) = 0 /\ (t \in Dying(j)' <=> j = i)
    BY <1>1, <1>3, <1>5, <1>0, OneDying DEF Dying, Thread
  <2>3. Cardinality(Dying(j)') = IF j = i THEN 1 ELSE 0
    <3>1. Dying(j)' \subseteq {t}
      BY <1>5 DEF Dying
    <3>2. Dying(j)' = IF j = i THEN {t} ELSE {}
      BY <2>2, <3>1
    <3>3. QED
      BY <3>2, FS_EmptySet, FS_Singleton
  <2>4. Cardinality(Survivors(j)') = IF j = i THEN Cardinality(Survivors(j)) - 1 ELSE Cardinality(Survivors(j))
    BY <1>3, <1>4, <2>1, Countable, FS_RemoveElement
  <2>5. QED
    BY <2>1, <2>2, <2>3, <2>4, Countable DEF AliveCore, AliveUserExact
<1>11. QED
  BY <1>3, <1>9, <1>10 DEF AliveCore

(* The count goes down when whoever it is about is dead, or out.           *)
LEMMA AliveStore ==
    ASSUME TypeOK, HandlersInv, MembersInv, AliveCore, NEW t \in Thread, Die_Store(t)
    PROVE  AliveCore'
<1>0. /\ task \in [Thread -> TaskRec] /\ room \in [Index -> RoomRec]
  BY Typed
<1>p. PICK p : p = task[t].player
  OBVIOUS
<1>2. PICK i \in Index : i = task[t].room
  BY <1>0 DEF TaskRec
<1>1. /\ task[t].step = "store" /\ UNCHANGED ticket
      /\ player' = [player EXCEPT ![p].isDead = TRUE]
      /\ room' = [room EXCEPT ![i].aliveUser = task[t].alive - 1]
  BY <1>2, <1>p DEF Die_Store, At, envVars
<1>u. task'[t].step \in {"idle", "zone"} /\ \A w \in Thread \ {t} : task'[w] = task[w]
  <2> DEFINE u == IF task[t].back = "idle" THEN Idle ELSE [Idle EXCEPT !.step = "zone", !.room = task[t].room]
  <2>1. task' = [task EXCEPT ![t] = u]
    BY DEF Die_Store
  <2>2. u.step \in {"idle", "zone"}
    BY DEF Idle
  <2> HIDE DEF u
  <2>3. QED
    BY <1>0, <2>1, <2>2
<1>3. task[t].alive = room[i].aliveUser
  BY <1>1, <1>2 DEF AliveCore, HandlersDealt, AtWork, DealtWith
<1>4. /\ \A j \in Index : /\ room'[j].status = room[j].status /\ room'[j].roomPlayer = room[j].roomPlayer
                           /\ room'[j].aliveUser = IF j = i THEN room[j].aliveUser - 1 ELSE room[j].aliveUser
  BY <1>0, <1>1, <1>3 DEF RoomRec
<1>5. /\ AliveUntilGame' /\ Survivors(i)' = Survivors(i) \ {p}
      /\ \A j \in Index \ {i} : room[j].status = "Play" => Survivors(j)' = Survivors(j)
  <2>1. p \in Player
    BY <1>1, <1>p DEF HandlersInv, HandlersHavePlayer
  <2>2. /\ player'[p].isDead /\ player'[p].mode = player[p].mode
        /\ \A q \in Player \ {p} : player'[q] = player[q]
    BY <1>1, <2>1, Typed DEF PlayerRec
  <2>3. task[t].step \in {"kill", "store"} /\ UNCHANGED ticket
    BY <1>1
  <2>4. QED
    BY <1>2, <1>4, <1>p, <2>2, <2>3, OneDies
<1>6. /\ task'[t].step \in {"idle", "zone"}
      /\ \A u \in Thread \ {t} : task'[u] = task[u] /\ task[u].step = "idle"
  BY <1>1, <1>u, OthersIdle DEF AliveCore
<1>7. OneThread' /\ HandlersDealt'
  BY <1>6 DEF OneThread, HandlersDealt, AtWork, Thread
<1>8. AliveUserExact'
  <2>1. SUFFICES ASSUME NEW j \in Index, room[j].status = "Play"
                 PROVE  room'[j].aliveUser = Cardinality(Survivors(j)') + Cardinality(Dying(j)')
    BY <1>4 DEF AliveUserExact
  <2>2. Cardinality(Dying(j)') = 0
    BY <1>6, FS_EmptySet DEF Dying
  <2>3. Cardinality(Dying(j)) = IF j = i /\ p \notin Survivors(i) THEN 1 ELSE 0
    BY <1>1, <1>2, <1>p, <1>6, OneDying DEF Dying
  <2>4. Cardinality(Survivors(j)') = IF j = i /\ p \in Survivors(i) THEN Cardinality(Survivors(j)) - 1
                                     ELSE Cardinality(Survivors(j))
    BY <1>5, <2>1, Countable, FS_RemoveElement
  <2>5. room[j].aliveUser = Cardinality(Survivors(j)) + Cardinality(Dying(j)) /\ Cardinality(Survivors(j)) \in Nat
    BY <2>1, Countable DEF AliveCore, AliveUserExact
  <2>6. QED
    BY <1>4, <2>2, <2>3, <2>4, <2>5
<1>9. QED
  BY <1>5, <1>7, <1>8 DEF AliveCore
(* Who is taken out is one less of the survivors, and one that the handler *)
(* has still to count, if it was alive.                                    *)
LEMMA AliveLeave ==
    ASSUME TypeOK, HandlersInv, MembersInv, AliveCore, NEW t \in Thread, Leave_DeletePlayer(t)
    PROVE  AliveCore'
<1>0. /\ room \in [Index -> RoomRec] /\ player \in [Player -> PlayerRec]
      /\ task \in [Thread -> TaskRec]
  BY Typed
<1>1. task[t].step = "leave" /\ UNCHANGED <<player, ticket>>
  BY DEF Leave_DeletePlayer, At, envVars
<1>2. PICK p \in Player : p = task[t].player
  BY <1>1 DEF HandlersInv, HandlersHavePlayer
<1>3. PICK i \in Index : i = player[p].roomNo.index
  BY <1>0, RoomNoIndex DEF PlayerRec
<1>4. \A u \in Thread \ {t} : task[u].step = "idle"
  BY <1>1, OthersIdle DEF AliveCore
<1>5. \A j \in Index : Dying(j) = {}
  BY <1>1, <1>4 DEF Dying
<1>6. CASE ~(Found(player[p].roomNo) /\ SlotsOf(i, p) # {})
  BY <1>2, <1>3, <1>6, <1>0, <1>5, <1>1, <1>4, AliveTask DEF Leave_DeletePlayer, Return, Idle,
     Dying, AtWork
<1>7. CASE Found(player[p].roomNo) /\ SlotsOf(i, p) # {}
  <2>1. PICK s \in Slot : s = First(SlotsOf(i, p)) /\ room[i].roomPlayer[s] = p
    BY <1>7, FirstSlot DEF SlotsOf
  <2>2. /\ room' = [room EXCEPT ![i] = [room[i] EXCEPT !.roomPlayer[s] = Nobody, !.curUser = @ - 1]]
        /\ task' = [task EXCEPT ![t] = [task[t] EXCEPT !.step = "switch", !.room = i]]
    BY <1>2, <1>3, <1>7, <2>1 DEF Leave_DeletePlayer
  <2>3. /\ room'[i].roomNo = room[i].roomNo /\ room'[i].status = room[i].status
        /\ room'[i].aliveUser = room[i].aliveUser
        /\ room'[i].roomPlayer = [room[i].roomPlayer EXCEPT ![s] = Nobody]
        /\ \A j \in Index \ {i} : room'[j] = room[j]
    BY <1>0, <2>2 DEF RoomRec
  <2>4. /\ task'[t].step = "switch" /\ task'[t].room = i /\ task'[t].player = p
        /\ \A u \in Thread \ {t} : task'[u] = task[u]
    BY <1>0, <1>2, <2>2 DEF TaskRec
  <2>5. p # Nobody
    BY BattleRoomAssumption
  <2>6. ASSUME room[i].status # "Close"
        PROVE  /\ PlayersIn(i)' = PlayersIn(i) \ {p} /\ p \in PlayersIn(i)
               /\ Survivors(i)' = Survivors(i) \ {p} /\ (p \in Survivors(i) <=> ~player[p].isDead)
               /\ player[p].roomNo = room[i].roomNo /\ player[p].mode # "NONE" /\ ticket[p] = NoRoomNo
    BY <2>1, <2>5, <2>6, <1>0, <2>3, <1>1 DEF MembersInv, RoomRec, PlayersIn, Survivors, Placed
  <2>7. \A j \in Index \ {i} : PlayersIn(j)' = PlayersIn(j) /\ Survivors(j)' = Survivors(j)
    BY <1>1, <2>3 DEF PlayersIn, Survivors
  <2>8. DealtWith(t)'
    BY <1>1, <2>3, <2>4, <2>6 DEF DealtWith
  <2>9. OneThread' /\ HandlersDealt'
    BY <1>4, <2>4, <2>8 DEF OneThread, HandlersDealt, AtWork, Thread
  <2>10. AliveUntilGame'
    BY <2>3, <2>6, <2>7, <1>1 DEF AliveCore, AliveUntilGame
  <2>11. AliveUserExact'
    <3>1. SUFFICES ASSUME NEW j \in Index, room[j].status = "Play"
                   PROVE  room[j].aliveUser = Cardinality(Survivors(j)') + Cardinality(Dying(j)')
      BY <2>3 DEF AliveUserExact
    <3>2. room[j].aliveUser = Cardinality(Survivors(j)) /\ Cardinality(Survivors(j)) \in Nat
      <4>1. Cardinality(Dying(j)) = 0
        BY <1>5, FS_EmptySet
      <4>2. QED
        BY <3>1, <4>1, Countable DEF AliveCore, AliveUserExact
    <3>3. CASE j # i
      BY <1>4, <2>4, <3>3, <2>7, <3>2, FS_EmptySet DEF Dying
    <3>4. CASE j = i
      <4>1. Dying(i)' = IF player[p].isDead THEN {} ELSE {t}
        BY <1>1, <1>4, <2>4, <2>6, <3>1, <3>4 DEF Dying
      <4>2. Cardinality(Survivors(i)') = IF player[p].isDead THEN Cardinality(Survivors(i))
                                         ELSE Cardinality(Survivors(i)) - 1
        BY <2>6, <3>1, <3>4, Countable, FS_RemoveElement
      <4>3. Cardinality(Dying(i)') = IF player[p].isDead THEN 0 ELSE 1
        BY <4>1, FS_EmptySet, FS_Singleton
      <4>4. QED
        BY <3>2, <3>4, <4>2, <4>3
    <3>5. QED
      BY <3>3, <3>4
  <2>12. QED
    BY <2>9, <2>10, <2>11 DEF AliveCore
<1>8. QED
  BY <1>6, <1>7

(* The check of a game changes no life.                                    *)
LEMMA AliveResult ==
    ASSUME TypeOK, HandlersInv, AliveCore, Update_Room_Play_Result
    PROVE  AliveCore'
<1>0. /\ room \in [Index -> RoomRec] /\ task \in [Thread -> TaskRec] /\ "game" \in Thread
  BY Typed DEF Thread
<1>1. PICK i \in Index : i = task["game"].room
  BY <1>0 DEF TaskRec
<1>2. /\ task["game"].step = "zone" /\ room[i].status = "Play" /\ UNCHANGED <<player, ticket>>
      /\ task' = [task EXCEPT !["game"] = Idle]
  BY <1>1 DEF Update_Room_Play_Result, At, Return, envVars, HandlersInv, PlayChecksPlay
<1>3. \A u \in Thread \ {"game"} : task[u].step = "idle"
  BY <1>0, <1>2, OthersIdle DEF AliveCore
<1>4. \A u \in Thread : task'[u].step = "idle"
  BY <1>0, <1>2, <1>3 DEF Idle
<1>5. \A j \in Index : /\ room'[j].status = room[j].status \/ room'[j].status = "End"
                       /\ room'[j].roomPlayer = room[j].roomPlayer
                       /\ room'[j].aliveUser = room[j].aliveUser
  BY <1>1, <1>0 DEF Update_Room_Play_Result, RoomRec
<1>6. \A j \in Index : PlayersIn(j)' = PlayersIn(j) /\ Survivors(j)' = Survivors(j)
  BY <1>2, <1>5 DEF PlayersIn, Survivors
<1>7. \A j \in Index : Dying(j) = {} /\ Dying(j)' = {}
  BY <1>2, <1>3, <1>4 DEF Dying
<1>8. AliveUserExact'
  BY <1>5, <1>6, <1>7 DEF AliveCore, AliveUserExact
<1>9. AliveUntilGame'
  BY <1>2, <1>5, <1>6 DEF AliveCore, AliveUntilGame
<1>10. OneThread' /\ HandlersDealt'
  BY <1>0, <1>4 DEF OneThread, HandlersDealt, AtWork
<1>11. QED
  BY <1>8, <1>9, <1>10 DEF AliveCore

(* Every step keeps count.                                                 *)
LEMMA AliveNext ==
    ASSUME TypeOK, TypeOK', HandlersInv, CountsExact, MembersInv, AliveInv, ~Overlap, [Next]_vars
    PROVE  AliveInv'
<1>1. RoomsFlow /\ PlayersFlow
  BY FlowNext
<1>2. RoomsNumbered' /\ GamesHaveBegun'
  BY <1>1, NumbersStay, GamesStayBegun DEF AliveInv
<1>3. AliveCore /\ GamesHaveBegun
  BY DEF AliveInv, AliveCore
<1>4. ASSUME NEW t \in Thread, Leaving(t) PROVE AliveCore'
  BY <1>3, <1>4, AliveLeave, AliveStatus, AliveLoad, AliveStore DEF Leaving
<1>5. ASSUME AuthThread PROVE AliveCore'
  BY <1>3, <1>4, <1>5, AliveAuth, AliveReady DEF Thread
<1>6. ASSUME GameThread PROVE AliveCore'
  BY <1>3, <1>4, <1>6, AliveVisits, AliveHit, AliveKill, AliveZone, AliveResult DEF GameThread, Thread
<1>7. ASSUME LanClient \/ Environment \/ UNCHANGED vars PROVE AliveCore'
  BY <1>3, <1>7, Background, AliveBackground
<1>8. AliveCore'
  BY <1>5, <1>6, <1>7 DEF Next
<1>9. QED
  BY <1>2, <1>8 DEF AliveInv, AliveCore

(* At first there is no room.                                              *)
LEMMA AliveInit ==
    ASSUME Init
    PROVE  AliveInv
<1>1. \A i \in Index : room[i].status = "Close"
  BY DEF Init, InitRoom
<1>2. \A p \in Player : player[p].mode = "NONE" /\ ~player[p].isDead
  BY DEF Init, NewPlayer
<1>3. \A t \in Thread : task[t].step = "idle"
  BY DEF Init, Idle
<1>4. QED
  BY <1>1, <1>2, <1>3 DEF AliveInv, OneThread, HandlersDealt, AtWork, RoomsNumbered, GamesHaveBegun,
     Playing, AliveUntilGame, AliveUserExact, Thread

(* The invariants of this module, together.                                *)
LEMMA AliveAlways == ASSUME ~Overlap PROVE Spec => [](IInv /\ MembersInv /\ AliveInv)
<1>1. Init => MembersInv /\ AliveInv
  BY AliveInit DEF Init, InitRoom, MembersInv
<1>2. IInv /\ IInv' /\ MembersInv /\ AliveInv /\ [Next]_vars => MembersInv' /\ AliveInv'
  BY MembersNext, AliveNext DEF IInv, HandlersInv
<1>3. QED
  BY <1>1, <1>2, Inductive, PTL DEF Spec

(* A game ends with its last survivor, and no game ends before: with any   *)
(* number of rooms and players, killed by each other, burnt or leaving.    *)
NoGameEndsEarly ==
    [][\A i \in Index :
          Update_Room_Play_Result /\ task["game"].room = i /\ room'[i].status = "End"
             => Cardinality(Survivors(i)) <= 1]_vars

(* The check of a game ends it exactly when one is left.                   *)
LEMMA ResultCounts ==
    ASSUME IInv, AliveInv, Update_Room_Play_Result, NEW i \in Index, task["game"].room = i
    PROVE  room'[i].status = "End" <=> Cardinality(Survivors(i)) <= 1
  BY Typed, OthersIdle, Countable, FS_EmptySet DEF IInv, Thread, Update_Room_Play_Result, At,
     PlayChecksPlay, AliveInv, Dying, AliveUserExact, RoomRec

(* When the handlers of the two threads do not overlap, aliveUser never    *)
(* keeps a game going that is decided, nor ends one that is not.           *)
THEOREM GamesEndWithLastSurvivor ==
    ASSUME ~Overlap PROVE Spec => LastSurvivorEndsGame /\ NoGameEndsEarly
<1>1. IInv /\ AliveInv =>
        [\A i \in Index :
          /\ Update_Room_Play_Result
          /\ task["game"].room = i
          /\ task["auth"].step = "idle"
          /\ OwnPlayers(i)
          /\ Cardinality(Survivors(i)) <= 1
          => room'[i].status = "End"]_vars
  BY ResultCounts
<1>2. IInv /\ AliveInv =>
        [\A i \in Index :
          Update_Room_Play_Result /\ task["game"].room = i /\ room'[i].status = "End"
             => Cardinality(Survivors(i)) <= 1]_vars
  BY ResultCounts
<1>3. QED
  BY <1>1, <1>2, AliveAlways, PTL DEF LastSurvivorEndsGame, NoGameEndsEarly

-----------------------------------------------------------------------------
(* Admission, when nothing is lost: both threads run at once, so a player  *)
(* that leaves is out of its room before its place is on the way back.     *)

Open(i) == room[i].status = "Wait" /\ ~room[i].bReady

(* A room in use has a number that names it.                               *)
Numbered ==
    \A i \in Index : IF room[i].status = "Close" THEN room[i].roomNo = NoRoomNo
                     ELSE room[i].roomNo # NoRoomNo /\ room[i].roomNo.index = i

(* A player the Game thread takes out is not back while it does.           *)
GameLeaverWaits ==
    task["game"].step \in {"leave", "switch"} =>
        player[task["game"].player].mode = "WAIT_LOGOUT"

(* The room a player was taken out of is still the one it was in, unless   *)
(* the Game thread released the player or closed the room meanwhile.       *)
LeaverKnowsRoom ==
    \A t \in Thread : task[t].step = "switch" =>
        LET no == player[task[t].player].roomNo IN
          \/ no = NoRoomNo
          \/ room[task[t].room].roomNo = no
          \/ t = "auth" /\ room[task[t].room].status = "Close"

NothingLost == linked /\ announce.step = "idle"

(* Where the places of a room number are: listed or announced, on the way  *)
(* back in a packet or a handler, with a client that may come.             *)
ListedOf(no)  == {e \in listed : e.roomNo = no}
Messages(q, no, type) == {n \in DOMAIN q : q[n].roomNo = no /\ q[n].type = type}
Holders(no)   == {p \in Player : ticket[p] = no}
Returning(no) == {t \in Thread : /\ task[t].step = "switch"
                                 /\ player[task[t].player].roomNo = no}

Announces(no, m) ==
    /\ \A e \in ListedOf(no) : e.places = m
    /\ \A n \in Messages(toMaster, no, "created") : toMaster[n].places = m

AnnouncedOnce ==
    \A no \in RoomNo :
        /\ \A d, e \in ListedOf(no) : d = e
        /\ \A k, n \in Messages(toMaster, no, "created") : k = n
        /\ ListedOf(no) = {} \/ Messages(toMaster, no, "created") = {}

HoldersFinite == \A no \in RoomNo \ {NoRoomNo} : IsFiniteSet(Holders(no))

ClosedOfferNothing ==
    \A n \in DOMAIN toMaster : toMaster[n].type = "closed" => toMaster[n].places = 0

Used(i, no, m) ==
    m + Cardinality(Messages(toMaster, no, "left")) + room[i].curUser
      + Cardinality(Holders(no)) + Cardinality(Returning(no))

(* An open room offers m places beside those that are used; one that takes *)
(* nobody any more offers none, and nobody is on the way to it.            *)
PlacesAt(i) ==
    LET no == room[i].roomNo IN
      /\ Open(i) => \E m \in Nat : Announces(no, m) /\ Used(i, no, m) <= MaxRoomPlayer
      /\ room[i].status # "Close" /\ ~Open(i) =>
           /\ Announces(no, 0)
           /\ Messages(toMaster, no, "left") = {}
           /\ Holders(no) = {}

AdmitInv ==
    /\ Numbered /\ GameLeaverWaits /\ LeaverKnowsRoom /\ NothingLost
    /\ AnnouncedOnce /\ HoldersFinite /\ ClosedOfferNothing
    /\ \A i \in Index : PlacesAt(i)
    /\ AdmissionNeverFails

(* What leaves a room as it is, for the master and for the clients, ...    *)
RoomKept(i) ==
    /\ room'[i].roomNo = room[i].roomNo
    /\ room'[i].status = "Close" <=> room[i].status = "Close"
    /\ Open(i)' <=> Open(i)
    /\ room'[i].curUser = room[i].curUser

(* ... and a step that moves no place.                                     *)
CalmAdmit ==
    /\ UNCHANGED <<toMaster, listed, ticket, linked, announce>>
    /\ \A i \in Index :
         \/ RoomKept(i)
         \/ /\ room'[i].status = "Close" /\ room'[i].roomNo = NoRoomNo
            /\ task["game"].step # "switch"
    /\ \A t \in Thread : task'[t].step = "switch" =>
         task[t].step = "switch" /\ task'[t].player = task[t].player /\ task'[t].room = task[t].room
    /\ \A p \in Player : player'[p].roomNo \in {player[p].roomNo, NoRoomNo}
    /\ GameLeaverWaits'
    /\ AdmissionNeverFails'

(* Packets and handlers can be counted.                                    *)
LEMMA PlacesCounted ==
    /\ \A q \in Seq(Message) : \A no, type :
         IsFiniteSet(Messages(q, no, type)) /\ Cardinality(Messages(q, no, type)) \in Nat
    /\ \A no : IsFiniteSet(Returning(no)) /\ Cardinality(Returning(no)) \in Nat
<1>1. ASSUME NEW q \in Seq(Message), NEW no, NEW type
      PROVE  IsFiniteSet(Messages(q, no, type)) /\ Cardinality(Messages(q, no, type)) \in Nat
  <2>1. Messages(q, no, type) \subseteq 1 .. Len(q) /\ Len(q) \in Nat
    BY LenProperties DEF Messages
  <2>2. IsFiniteSet(1 .. Len(q))
    BY <2>1, FS_Interval
  <2>3. QED
    BY <2>1, <2>2, FS_Subset, FS_CardinalityType
<1>2. ASSUME NEW no
      PROVE  IsFiniteSet(Returning(no)) /\ Cardinality(Returning(no)) \in Nat
  <2>1. IsFiniteSet(Thread)
    <3>1. Thread = {"auth"} \cup {"game"}
      BY DEF Thread
    <3>2. QED
      BY <3>1, FS_Singleton, FS_AddElement
  <2>2. Returning(no) \subseteq Thread
    BY DEF Returning
  <2>3. QED
    BY <2>1, <2>2, FS_Subset, FS_CardinalityType
<1>3. QED
  BY <1>1, <1>2

(* A room whose places stay where they are.                                *)
LEMMA PlacesStay ==
    ASSUME TypeOK, TypeOK', AdmitInv, NEW i \in Index, room[i].status # "Close", RoomKept(i),
           NEW no, no = room[i].roomNo,
           \A m \in Nat : Announces(no, m) => Announces(no, m)',
           Messages(toMaster', no, "left") = {}
             \/ Cardinality(Messages(toMaster', no, "left"))
                  <= Cardinality(Messages(toMaster, no, "left")),
           Holders(no)' = Holders(no),
           Cardinality(Returning(no)') <= Cardinality(Returning(no)),
           IsFiniteSet(Returning(no)')
    PROVE  PlacesAt(i)'
<1>0. /\ toMaster \in Seq(Message) /\ toMaster' \in Seq(Message)
      /\ room[i].curUser \in Int /\ no \in RoomNo /\ no # NoRoomNo
  BY DEF TypeOK, RoomRec, AdmitInv, Numbered
<1>1. room'[i].roomNo = no /\ PlacesAt(i)
  BY DEF RoomKept, AdmitInv
<1>2. /\ Cardinality(Messages(toMaster', no, "left")) \in Nat
      /\ Cardinality(Messages(toMaster, no, "left")) \in Nat
      /\ Cardinality(Returning(no)) \in Nat /\ Cardinality(Returning(no)') \in Nat
      /\ Cardinality(Holders(no)) \in Nat
  BY <1>0, PlacesCounted, FS_CardinalityType DEF AdmitInv, HoldersFinite
<1>3. Cardinality(Messages(toMaster', no, "left")) <= Cardinality(Messages(toMaster, no, "left"))
  BY <1>2, FS_EmptySet
<1>4. ASSUME Open(i) PROVE \E m \in Nat : Announces(no, m)' /\ Used(i, no, m)' <= MaxRoomPlayer
  BY <1>1, <1>4, <1>0, <1>2, <1>3, BattleRoomAssumption DEF PlacesAt, Used, RoomKept
<1>5. ASSUME ~Open(i)
      PROVE  Announces(no, 0)' /\ Messages(toMaster', no, "left") = {} /\ Holders(no)' = {}
  BY <1>1, <1>5, <1>2, <1>3, FS_EmptySet, <1>0, PlacesCounted DEF PlacesAt
<1>6. QED
  BY <1>1, <1>4, <1>5 DEF PlacesAt, RoomKept

(* A calm step keeps the places.                                           *)
LEMMA AdmitCalm ==
    ASSUME TypeOK, TypeOK', HandlersHavePlayer, AdmitInv, CalmAdmit
    PROVE  AdmitInv'
<1>0. /\ task \in [Thread -> TaskRec] /\ task' \in [Thread -> TaskRec]
      /\ toMaster \in Seq(Message) /\ "game" \in Thread
      /\ \A t \in Thread : task[t].step = "switch" => task[t].player \in Player
      /\ \A t \in Thread : task[t].room \in Index
  BY DEF TypeOK, HandlersHavePlayer, Thread, TaskRec
<1>1. Numbered'
  BY DEF AdmitInv, Numbered, CalmAdmit, RoomKept
<1>2. LeaverKnowsRoom'
  BY <1>0 DEF LeaverKnowsRoom, CalmAdmit, AdmitInv, RoomKept, Thread
<1>3. \A no : /\ ListedOf(no)' = ListedOf(no) /\ Holders(no)' = Holders(no)
              /\ \A type : Messages(toMaster', no, type) = Messages(toMaster, no, type)
  BY DEF CalmAdmit, ListedOf, Holders
<1>4. /\ NothingLost' /\ AnnouncedOnce' /\ HoldersFinite' /\ ClosedOfferNothing'
      /\ GameLeaverWaits' /\ AdmissionNeverFails'
  BY <1>3 DEF AdmitInv, CalmAdmit, NothingLost, AnnouncedOnce, HoldersFinite, ClosedOfferNothing
<1>5. \A no \in RoomNo \ {NoRoomNo} : Returning(no)' \subseteq Returning(no)
  BY <1>0 DEF CalmAdmit, Returning
<1>6. ASSUME NEW i \in Index PROVE PlacesAt(i)'
  <2>1. CASE RoomKept(i) /\ room[i].status # "Close"
    <3>1. PICK no : no = room[i].roomNo
      OBVIOUS
    <3>2. no \in RoomNo \ {NoRoomNo}
      BY <2>1, <3>1 DEF TypeOK, RoomRec, AdmitInv, Numbered
    <3>3. \A m \in Nat : Announces(no, m) => Announces(no, m)'
      BY <1>3 DEF Announces, CalmAdmit
    <3>4. IsFiniteSet(Returning(no)') /\ Cardinality(Returning(no)') <= Cardinality(Returning(no))
      BY <1>5, <3>2, PlacesCounted, FS_Subset
    <3>5. /\ toMaster \in Seq(Message)
          /\ Cardinality(Messages(toMaster', no, "left"))
               <= Cardinality(Messages(toMaster, no, "left"))
      BY <1>0, <1>3, PlacesCounted
    <3>6. QED
      BY <1>3, <2>1, <3>1, <3>3, <3>4, <3>5, PlacesStay
  <2>2. CASE ~(RoomKept(i) /\ room[i].status # "Close")
    BY <2>2 DEF CalmAdmit, RoomKept, PlacesAt, Open
  <2>3. QED
    BY <2>1, <2>2
<1>7. QED
  BY <1>1, <1>2, <1>4, <1>6 DEF AdmitInv

(* A client that shows a number of a room in use finds the room open, with *)
(* an empty slot.                                                          *)
LEMMA AdmittedFindsPlace ==
    ASSUME TypeOK, CountsExact, AdmitInv, NEW p \in Player, ticket[p] # NoRoomNo, Found(ticket[p]),
           NEW i, i = ticket[p].index
    PROVE  /\ i \in Index /\ Open(i) /\ room[i].roomNo = ticket[p]
           /\ room[i].curUser < MaxRoomPlayer
           /\ SlotsOf(i, Nobody) # {}
<1>0. PICK no \in RoomNo : no = ticket[p]
  BY DEF TypeOK
<1>1. /\ i \in Index /\ room[i].roomNo = no /\ room[i].curUser \in Int /\ toMaster \in Seq(Message)
      /\ MaxRoomPlayer \in Nat
  BY <1>0, BattleRoomAssumption DEF TypeOK, RoomRec, RoomNo, Found
<1>2. p \in Holders(no) /\ room[i].status # "Close" /\ PlacesAt(i)
  BY <1>0, <1>1 DEF Holders, AdmitInv, Numbered
<1>3. Open(i)
  BY <1>1, <1>2 DEF PlacesAt
<1>4. PICK m \in Nat : Used(i, no, m) <= MaxRoomPlayer
  BY <1>1, <1>2, <1>3 DEF PlacesAt
<1>5. IsFiniteSet(Holders(no)) /\ Cardinality(Holders(no)) \in Nat /\ Cardinality(Holders(no)) # 0
  BY <1>0, <1>2, FS_CardinalityType, FS_EmptySet DEF AdmitInv, HoldersFinite
<1>6. room[i].curUser < MaxRoomPlayer
  BY <1>1, <1>4, <1>5, PlacesCounted DEF Used
<1>7. SlotsOf(i, Nobody) # {}
  <2>1. room[i].curUser = MaxRoomPlayer - Cardinality(SlotsOf(i, Nobody))
    BY <1>1, <1>2 DEF CountsExact, CurUserExact
  <2>2. ASSUME SlotsOf(i, Nobody) = {} PROVE FALSE
    BY <2>2, FS_EmptySet, <1>1, <1>6, <2>1
  <2>3. QED
    BY <2>2
<1>8. QED
  BY <1>0, <1>1, <1>3, <1>6, <1>7

(* A handler that only changes players' modes and flags, or ends.          *)
LEMMA CalmStep ==
    ASSUME TypeOK, HandlersHavePlayer, AdmitInv,
           UNCHANGED <<toMaster, listed, ticket, linked, announce>>,
           \A i \in Index : RoomKept(i),
           \A t \in Thread : task'[t].step = "switch" =>
              task[t].step = "switch" /\ task'[t].player = task[t].player /\ task'[t].room = task[t].room,
           task'["game"].step \in {"leave", "switch"} =>
              \/ task["game"].step \in {"leave", "switch"} /\ task'["game"].player = task["game"].player
              \/ player'[task'["game"].player].mode = "WAIT_LOGOUT",
           \A p \in Player : /\ player'[p].roomNo = player[p].roomNo
                             /\ player[p].mode = "WAIT_LOGOUT" => player'[p].mode = "WAIT_LOGOUT",
           crash' \in {crash, "no_room"}
    PROVE  CalmAdmit
  BY DEF HandlersHavePlayer, Thread, AdmitInv, GameLeaverWaits, CalmAdmit, AdmissionNeverFails

(* The calm handlers of both threads that take players out, ...            *)
LEMMA CalmLeaving ==
    ASSUME TypeOK, HandlersHavePlayer, AdmitInv, NEW t \in Thread,
           \/ Leave_DeletePlayer(t) /\ UNCHANGED room
           \/ Leave_Status(t) /\ ~Open(task[t].room)
           \/ Die_Load(t) \/ Die_Store(t)
    PROVE  CalmAdmit
<1> USE DEF roomVars, clientVars, netVars, envVars
<1>0. /\ room \in [Index -> RoomRec] /\ player \in [Player -> PlayerRec]
      /\ task \in [Thread -> TaskRec] /\ toMaster \in Seq(Message) /\ "game" \in Thread
  BY DEF TypeOK, Thread
<1>1. CASE Leave_DeletePlayer(t) /\ UNCHANGED room
  <2>1. Return(t) \/ \E i : room'[i].curUser # room[i].curUser
    <3> DEFINE p == task[t].player
               i == player[p].roomNo.index
    <3>1. CASE Found(player[p].roomNo) /\ SlotsOf(i, p) # {}
      <4>1. room' = [room EXCEPT ![i] =
                       [room[i] EXCEPT !.roomPlayer[First(SlotsOf(i, p))] = Nobody,
                                       !.curUser = @ - 1]]
        BY <1>1, <3>1 DEF Leave_DeletePlayer
      <4>2. p \in Player
        BY <1>1 DEF Leave_DeletePlayer, At, HandlersHavePlayer
      <4>3. i \in Index /\ room[i].curUser \in Int
        BY <1>0, <4>2, RoomNoIndex DEF PlayerRec, RoomRec
      <4>4. room'[i].curUser = room[i].curUser - 1
        BY <1>0, <4>1, <4>3 DEF RoomRec
      <4>5. QED
        BY <4>3, <4>4
    <3>2. CASE ~(Found(player[p].roomNo) /\ SlotsOf(i, p) # {})
      BY <1>1, <3>2 DEF Leave_DeletePlayer
    <3>3. QED
      BY <3>1, <3>2
  <2>2. task' = [task EXCEPT ![t] = Idle]
    BY <1>1, <2>1 DEF Return
  <2>3. QED
    BY <1>0, <1>1, <2>2, CalmStep DEF Leave_DeletePlayer, Idle, RoomKept, Open
<1>2. CASE Leave_Status(t) /\ ~Open(task[t].room)
  <2>1. toMaster' = toMaster
    BY <1>0, <1>2, ConcatProperties DEF Leave_Status, SendAll, Open
  <2>2. task' = [task EXCEPT ![t].step = "load"] \/ task' = [task EXCEPT ![t] = Idle]
    BY <1>2 DEF Leave_Status, Return
  <2>3. task'[t].step \in {"load", "idle"} /\ \A u \in Thread \ {t} : task'[u] = task[u]
    BY <1>0, <2>2 DEF Idle, TaskRec
  <2>4. QED
    BY <1>0, <1>2, <2>1, <2>3, CalmStep DEF Leave_Status, RoomKept, Open
<1>3. CASE Die_Load(t)
  BY <1>0, <1>3, CalmStep DEF Die_Load, TaskRec, RoomKept, Open
<1>4. CASE Die_Store(t)
  BY <1>0, <1>4, CalmStep DEF Die_Store, Idle, RoomRec, RoomKept, Open, PlayerRec
<1>5. QED
  BY <1>1, <1>2, <1>3, <1>4

(* ... of the Auth thread, ...                                             *)
LEMMA CalmAuth ==
    ASSUME TypeOK, HandlersHavePlayer, AdmitInv,
           \/ \E p \in Player : Auth_PacketProc_Logout(p) \/ Auth_LogoutProc(p) \/ Auth_LeaveProc(p)
           \/ \E i \in Index : Update_Room_Wait(i) \/ Update_Room_Ready(i)
    PROVE  CalmAdmit
<1> USE DEF roomVars, clientVars, netVars, envVars
<1>0. /\ room \in [Index -> RoomRec] /\ player \in [Player -> PlayerRec]
      /\ task \in [Thread -> TaskRec] /\ "game" \in Thread /\ "auth" \in Thread
  BY DEF TypeOK, Thread
<1>1. ASSUME NEW p \in Player, Auth_PacketProc_Logout(p) PROVE CalmAdmit
  BY <1>0, <1>1, CalmStep DEF Auth_PacketProc_Logout, PlayerRec, RoomKept, Open
<1>2. ASSUME NEW p \in Player, Auth_LogoutProc(p) PROVE CalmAdmit
  BY <1>0, <1>2, CalmStep DEF Auth_LogoutProc, PlayerRec, Idle, RoomKept, Open, Thread
<1>3. ASSUME NEW p \in Player, Auth_LeaveProc(p) PROVE CalmAdmit
  BY <1>0, <1>3, CalmStep DEF Auth_LeaveProc, PlayerRec, RoomKept, Open
<1>4. ASSUME NEW i \in Index, Update_Room_Wait(i) PROVE CalmAdmit
  BY <1>0, <1>4, CalmStep DEF Update_Room_Wait, RoomKept, Open, RoomRec
<1>5. ASSUME NEW i \in Index, Update_Room_Ready(i) PROVE CalmAdmit
  <2>1. \A j \in Index : RoomKept(j)
    <3>1. /\ room[i].status = "Ready"
          /\ room' = [room EXCEPT ![i] = [room[i] EXCEPT !.status = "Play",
                                                        !.aliveUser = room[i].curUser]]
      BY <1>5 DEF Update_Room_Ready
    <3>2. /\ room'[i].status = "Play" /\ room'[i].roomNo = room[i].roomNo
          /\ room'[i].curUser = room[i].curUser
          /\ \A j \in Index \ {i} : room'[j] = room[j]
      BY <1>0, <3>1 DEF RoomRec
    <3>3. QED
      BY <3>1, <3>2 DEF RoomKept, Open
  <2>2. \A q \in Player : player'[q].roomNo = player[q].roomNo /\ player'[q].mode = player[q].mode
    <3>1. \A q \in Player : player'[q] \in {player[q], [player[q] EXCEPT !.bAuthToGame = TRUE]}
      BY <1>5 DEF Update_Room_Ready
    <3>2. QED
      BY <1>0, <3>1 DEF PlayerRec
  <2>3. QED
    BY <1>0, <1>5, <2>1, <2>2, CalmStep DEF Update_Room_Ready
<1>6. QED
  BY <1>1, <1>2, <1>3, <1>4, <1>5

(* ... and of the Game thread: a room closes, or a player is released,     *)
(* while that thread takes nobody out.                                     *)
LEMMA CalmGame ==
    ASSUME TypeOK, HandlersInv, AdmitInv,
           \/ \E p \in Player : \/ Game_AuthToGameProc(p) \/ Game_PacketProc_Logout(p)
                                \/ Request_Character_HitDamage(p) \/ Game_LeaveProc(p)
                                \/ Game_ReleaseProc(p)
           \/ \E i \in Index : Update_Room_Play(i) \/ Update_Room_End(i)
           \/ HitDamage_Kill \/ Update_Room_Play_RedZone \/ Update_Room_Play_Result
    PROVE  CalmAdmit
<1> USE DEF roomVars, clientVars, netVars, envVars
<1>0. /\ room \in [Index -> RoomRec] /\ player \in [Player -> PlayerRec]
      /\ task \in [Thread -> TaskRec] /\ "game" \in Thread /\ "auth" \in Thread
      /\ HandlersHavePlayer /\ PlayChecksPlay
  BY DEF TypeOK, Thread, HandlersInv
<1>1. ASSUME NEW p \in Player, Game_AuthToGameProc(p) PROVE CalmAdmit
  BY <1>0, <1>1, CalmStep DEF Game_AuthToGameProc, PlayerRec, CanVisit, RoomKept, Open
<1>2. ASSUME NEW p \in Player, Game_PacketProc_Logout(p) PROVE CalmAdmit
  BY <1>0, <1>2, CalmStep DEF Game_PacketProc_Logout, PlayerRec, RoomKept, Open
<1>3. ASSUME NEW p \in Player, Request_Character_HitDamage(p) PROVE CalmAdmit
  BY <1>0, <1>3, CalmStep DEF Request_Character_HitDamage, Idle, RoomKept, Open, Thread
<1>4. ASSUME NEW p \in Player, Game_LeaveProc(p) PROVE CalmAdmit
  BY <1>0, <1>4, CalmStep DEF Game_LeaveProc, PlayerRec, Idle, RoomKept, Open, Thread
<1>5. ASSUME NEW p \in Player, Game_ReleaseProc(p) PROVE CalmAdmit
  BY <1>0, <1>5 DEF Game_ReleaseProc, PlayerRec, CanVisit, GameLeaverWaits, CalmAdmit, RoomKept,
     Open, AdmitInv, AdmissionNeverFails
<1>6. ASSUME NEW i \in Index, Update_Room_Play(i) PROVE CalmAdmit
  BY <1>0, <1>6, CalmStep DEF Update_Room_Play, Idle, RoomKept, Open, Thread
<1>7. ASSUME NEW i \in Index, Update_Room_End(i) PROVE CalmAdmit
  <2>1. \A j \in Index : \/ RoomKept(j)
                         \/ room'[j].status = "Close" /\ room'[j].roomNo = NoRoomNo
    BY <1>0, <1>7 DEF Update_Room_End, RoomKept, Open, RoomRec
  <2>2. \A q \in Player : player'[q].roomNo = player[q].roomNo
    BY <1>0, <1>7 DEF Update_Room_End, PlayerRec
  <2>3. task["game"].step = "idle" /\ UNCHANGED task
    BY <1>7 DEF Update_Room_End, CanVisit
  <2>4. GameLeaverWaits'
    BY <2>3 DEF GameLeaverWaits
  <2>5. QED
    BY <1>7, <2>1, <2>2, <2>3, <2>4 DEF CalmAdmit, Update_Room_End, AdmitInv, AdmissionNeverFails
<1>8. CASE HitDamage_Kill
  BY <1>0, <1>8, CalmStep DEF HitDamage_Kill, PlayerRec, TaskRec, RoomKept, Open, Thread
<1>9. CASE Update_Room_Play_RedZone
  <2>1. task'["game"].step = "load" /\ task'["auth"] = task["auth"]
    <3>1. PICK v \in Player \cup {Nobody} :
            task' = [task EXCEPT !["game"] = [task["game"] EXCEPT
                       !.step = "load", !.player = v, !.back = "zone"]]
      BY <1>0, Typed, <1>9 DEF TaskRec, Update_Room_Play_RedZone
    <3>2. QED
      BY <1>0, <3>1 DEF TaskRec
  <2>2. QED
    BY <1>0, <1>9, <2>1, CalmStep DEF Update_Room_Play_RedZone, RoomKept, Open, Thread
<1>10. CASE Update_Room_Play_Result
  <2>1. \A j \in Index : RoomKept(j)
    BY <1>0, <1>10 DEF TaskRec, Update_Room_Play_Result, At, PlayChecksPlay, RoomKept, Open,
       RoomRec
  <2>2. task'["game"].step = "idle" /\ task'["auth"] = task["auth"]
    BY <1>0, <1>10 DEF Update_Room_Play_Result, Return, Idle
  <2>3. QED
    BY <1>0, <1>10, <2>1, <2>2, CalmStep DEF Update_Room_Play_Result, Thread
<1>11. QED
  BY <1>1, <1>2, <1>3, <1>4, <1>5, <1>6, <1>7, <1>8, <1>9, <1>10

(* One set differs from another in one element only.                       *)
One(b) == IF b THEN 1 ELSE 0

LEMMA CountOne ==
    ASSUME NEW S, NEW T, NEW c, IsFiniteSet(S), S \ {c} = T \ {c}
    PROVE  /\ IsFiniteSet(T)
           /\ Cardinality(S) \in Nat /\ Cardinality(T) \in Nat
           /\ Cardinality(T) = Cardinality(S) + One(c \in T) - One(c \in S)
<1>1. PICK R : R = S \ {c}
  OBVIOUS
<1>2. /\ IsFiniteSet(R)
      /\ Cardinality(R) = IF c \in S THEN Cardinality(S) - 1 ELSE Cardinality(S)
  BY <1>1, FS_RemoveElement
<1>3. Cardinality(R) \in Nat /\ Cardinality(S) \in Nat
  BY <1>2, FS_CardinalityType
<1>4. c \notin R
  BY <1>1
<1>5. IsFiniteSet(R \cup {c}) /\ Cardinality(R \cup {c}) = Cardinality(R) + 1
  BY <1>2, <1>4, FS_AddElement
<1>6. CASE c \in T
  <2>1. T = R \cup {c}
    BY <1>1, <1>6
  <2>2. QED
    BY <1>2, <1>3, <1>5, <1>6, <2>1 DEF One
<1>7. CASE c \notin T
  <2>1. T = R
    BY <1>1, <1>7
  <2>2. QED
    BY <1>2, <1>3, <1>7, <2>1 DEF One
<1>8. QED
  BY <1>6, <1>7

(* A packet joins the link ...                                             *)
LEMMA MessagesSent ==
    ASSUME toMaster \in Seq(Message), linked, NEW x \in Message, SendAll(<<x>>)
    PROVE  /\ Len(toMaster) + 1 \notin DOMAIN toMaster
           /\ DOMAIN toMaster' = DOMAIN toMaster \cup {Len(toMaster) + 1}
           /\ \A n \in DOMAIN toMaster : toMaster'[n] = toMaster[n]
           /\ toMaster'[Len(toMaster) + 1] = x
           /\ Messages(toMaster', x.roomNo, x.type) =
                Messages(toMaster, x.roomNo, x.type) \cup {Len(toMaster) + 1}
           /\ \A no, type : no # x.roomNo \/ type # x.type =>
                Messages(toMaster', no, type) = Messages(toMaster, no, type)
  BY AppendProperties, LenProperties DEF SendAll, Messages

(* ... and leaves it.                                                      *)
LEMMA MessagesHandled ==
    ASSUME toMaster \in Seq(Message), toMaster # <<>>, toMaster' = Tail(toMaster)
    PROVE  /\ 1 \in DOMAIN toMaster /\ Head(toMaster) = toMaster[1] /\ toMaster' \in Seq(Message)
           /\ \A n \in DOMAIN toMaster' : n + 1 \in DOMAIN toMaster \ {1} /\ toMaster'[n] = toMaster[n + 1]
           /\ \A no, type : \A n \in Messages(toMaster', no, type) :
                n + 1 \in Messages(toMaster, no, type) \ {1} /\ toMaster'[n] = toMaster[n + 1]
           /\ \A no, type : Cardinality(Messages(toMaster', no, type))
                = Cardinality(Messages(toMaster, no, type)) - One(1 \in Messages(toMaster, no, type))
<1>1. /\ Len(toMaster) \in Nat \ {0} /\ DOMAIN toMaster = 1 .. Len(toMaster)
      /\ DOMAIN toMaster' = 1 .. Len(toMaster) - 1 /\ toMaster' \in Seq(Message)
      /\ \A n \in 1 .. Len(toMaster) - 1 : toMaster'[n] = toMaster[n + 1]
      /\ Head(toMaster) = toMaster[1]
  BY HeadTailProperties, LenProperties, EmptySeq
<1>2. \A no, type : \A n \in Messages(toMaster', no, type) :
         n + 1 \in Messages(toMaster, no, type) \ {1} /\ toMaster'[n] = toMaster[n + 1]
  BY <1>1 DEF Messages
<1>3. ASSUME NEW no, NEW type
      PROVE  Cardinality(Messages(toMaster', no, type))
                = Cardinality(Messages(toMaster, no, type)) - One(1 \in Messages(toMaster, no, type))
  <2> DEFINE S == Messages(toMaster, no, type) \ {1}
             T == Messages(toMaster', no, type)
             f == [n \in S |-> n - 1]
  <2>1. f \in Bijection(S, T)
    BY <1>1, <1>2 DEF Messages, Bijection, Injection, Surjection, IsInjective
  <2>2. IsFiniteSet(Messages(toMaster, no, type)) /\ Cardinality(Messages(toMaster, no, type)) \in Nat
    BY PlacesCounted
  <2>3. /\ IsFiniteSet(S)
        /\ Cardinality(S) = Cardinality(Messages(toMaster, no, type))
                              - One(1 \in Messages(toMaster, no, type))
    <3>1. PICK M : M = Messages(toMaster, no, type)
      OBVIOUS
    <3>2. /\ IsFiniteSet(M \ {1})
          /\ Cardinality(M \ {1}) = IF 1 \in M THEN Cardinality(M) - 1 ELSE Cardinality(M)
      BY <2>2, <3>1, FS_RemoveElement
    <3>3. QED
      BY <2>2, <3>1, <3>2 DEF One
  <2>4. Cardinality(T) = Cardinality(S)
    <3>1. ExistsBijection(S, T)
      BY <2>1 DEF ExistsBijection
    <3> HIDE DEF S, T
    <3>2. QED
      BY <2>3, <3>1, FS_Bijection
  <2>5. QED
    BY <2>3, <2>4
<1>4. \A n \in DOMAIN toMaster' : n + 1 \in DOMAIN toMaster \ {1} /\ toMaster'[n] = toMaster[n + 1]
  BY <1>1
<1>5. 1 \in DOMAIN toMaster
  BY <1>1
<1>6. QED
  BY <1>1, <1>2, <1>3, <1>4, <1>5, Zenon

(* What the master does leaves rooms and handlers alone.                   *)
LEMMA AwayFromRooms ==
    ASSUME AdmitInv, UNCHANGED <<room, player, task, linked, announce, crash>>
    PROVE  /\ Numbered' /\ GameLeaverWaits' /\ LeaverKnowsRoom' /\ NothingLost' /\ AdmissionNeverFails'
           /\ \A no : Returning(no)' = Returning(no)
           /\ \A i \in Index : RoomKept(i)
  BY DEF AdmitInv, Numbered, GameLeaverWaits, LeaverKnowsRoom, NothingLost, AdmissionNeverFails,
     Returning, RoomKept, Open, Found

(* A place is given out: it is the client's, and no longer listed.         *)
LEMMA AdmitSendClient ==
    ASSUME TypeOK, TypeOK', AdmitInv, NEW p \in Player, Master_SendClient(p)
    PROVE  AdmitInv'
<1> USE DEF roomVars, clientVars, netVars
<1>0. /\ UNCHANGED <<room, player, task, linked, announce, crash, toMaster>>
      /\ ticket \in [Player -> RoomNo] /\ toMaster \in Seq(Message)
      /\ listed \subseteq [roomNo : RoomNo, places : Int] /\ ticket[p] = NoRoomNo
  BY DEF Master_SendClient, TypeOK
<1>1. PICK e \in listed :
        /\ e.places > 0
        /\ listed' = (listed \ {e}) \cup {[e EXCEPT !.places = @ - 1]}
        /\ ticket' = [ticket EXCEPT ![p] = e.roomNo]
  BY DEF Master_SendClient
<1>2. PICK x : x = e.roomNo
  OBVIOUS
<1>3. /\ x \in RoomNo /\ e.places \in Int
      /\ [e EXCEPT !.places = @ - 1].roomNo = x
      /\ [e EXCEPT !.places = @ - 1].places = e.places - 1
  BY <1>0, <1>1, <1>2
<1>4. /\ ListedOf(x) = {e} /\ Messages(toMaster, x, "created") = {}
  BY <1>1, <1>2, <1>3 DEF AdmitInv, AnnouncedOnce, ListedOf
<1>5. /\ ListedOf(x)' = {[e EXCEPT !.places = @ - 1]}
      /\ \A no : no # x => ListedOf(no)' = ListedOf(no)
      /\ \A no, type : Messages(toMaster', no, type) = Messages(toMaster, no, type)
  BY <1>1, <1>3, <1>2, <1>0, <1>4 DEF ListedOf
<1>6. /\ \A no : no # x /\ no # NoRoomNo => Holders(no)' = Holders(no)
      /\ x # NoRoomNo => p \notin Holders(x) /\ p \in Holders(x)' /\ Holders(x) \ {p} = Holders(x)' \ {p}
  BY <1>0, <1>1, <1>2 DEF Holders
<1>7. x # NoRoomNo => /\ IsFiniteSet(Holders(x)) /\ IsFiniteSet(Holders(x)')
                      /\ Cardinality(Holders(x)) \in Nat /\ Cardinality(Holders(x)') \in Nat
                      /\ Cardinality(Holders(x)') = Cardinality(Holders(x)) + 1
  BY <1>3, <1>6, CountOne DEF AdmitInv, HoldersFinite, One
<1>8. HoldersFinite'
  BY <1>6, <1>7 DEF HoldersFinite, AdmitInv
<1>9. AnnouncedOnce'
  BY <1>4, <1>5 DEF AnnouncedOnce, AdmitInv
<1>10. ClosedOfferNothing'
  BY <1>0 DEF ClosedOfferNothing, AdmitInv
<1>11. ASSUME NEW i \in Index PROVE PlacesAt(i)'
  <2>1. RoomKept(i)
    BY <1>0, AwayFromRooms
  <2>2. PICK no : no = room[i].roomNo
    OBVIOUS
  <2>3. CASE room[i].status # "Close" /\ no # x
    BY <2>2, <2>3, <1>0, <1>5, <1>6, AwayFromRooms, PlacesCounted, <2>1, PlacesStay DEF AdmitInv,
       Numbered, Announces
  <2>4. CASE room[i].status # "Close" /\ no = x
    <3>1. x # NoRoomNo /\ room'[i].roomNo = x /\ room[i].roomNo = x
      BY <2>1, <2>2, <2>4 DEF AdmitInv, Numbered, RoomKept
    <3>2. \A m \in Nat : Announces(x, m) => m = e.places
      BY <1>4 DEF Announces
    <3>3. Open(i)
      BY <1>1, <2>4, <3>1, <3>2 DEF AdmitInv, PlacesAt
    <3>4. PICK m \in Nat : Announces(x, m) /\ Used(i, x, m) <= MaxRoomPlayer
      BY <3>1, <3>3 DEF AdmitInv, PlacesAt
    <3>5. m - 1 \in Nat /\ Announces(x, m - 1)'
      BY <1>1, <1>3, <1>4, <1>5, <3>2, <3>4 DEF Announces
    <3>6. Used(i, x, m - 1)' = Used(i, x, m)
      <4>1. /\ room[i].curUser \in Int /\ Cardinality(Returning(x)) \in Nat
            /\ Cardinality(Messages(toMaster, x, "left")) \in Nat
        BY <1>0, PlacesCounted DEF TypeOK, RoomRec
      <4>2. Returning(x)' = Returning(x) /\ room' = room
        BY <1>0, AwayFromRooms
      <4>3. QED
        BY <1>0, <1>7, <3>1, <4>1, <4>2 DEF Used
    <3>7. QED
      BY <2>1, <3>1, <3>3, <3>4, <3>5, <3>6 DEF PlacesAt, RoomKept
  <2>5. CASE room[i].status = "Close"
    BY <2>1, <2>5 DEF PlacesAt, RoomKept, Open
  <2>6. QED
    BY <2>3, <2>4, <2>5
<1>12. QED
  BY <1>0, <1>8, <1>9, <1>10, <1>11, AwayFromRooms DEF AdmitInv

(* The master takes up a packet: an announced room is listed, a closed one *)
(* is not any more, and a place on the way back is listed again.           *)
LEMMA AdmitHandle ==
    ASSUME TypeOK, TypeOK', AdmitInv, Master_Handle
    PROVE  AdmitInv'
<1> USE DEF roomVars, clientVars
<1>0. /\ UNCHANGED <<room, player, task, linked, announce, crash, ticket>>
      /\ toMaster \in Seq(Message) /\ toMaster # <<>> /\ toMaster' = Tail(toMaster)
      /\ listed \subseteq [roomNo : RoomNo, places : Int]
  BY DEF Master_Handle, TypeOK
<1>1. PICK x \in Message : x = Head(toMaster)
  BY <1>0, HeadTailProperties
<1>2. /\ 1 \in DOMAIN toMaster /\ x = toMaster[1] /\ x.roomNo \in RoomNo /\ x.places \in Int
      /\ x.type \in {"created", "closed", "left"}
  BY <1>0, <1>1, MessagesHandled DEF Message
<1>3. /\ \A no, type : \A n \in Messages(toMaster', no, type) :
           n + 1 \in Messages(toMaster, no, type) \ {1} /\ toMaster'[n] = toMaster[n + 1]
      /\ \A no, type : Cardinality(Messages(toMaster', no, type))
           = Cardinality(Messages(toMaster, no, type)) - One(1 \in Messages(toMaster, no, type))
      /\ \A n \in DOMAIN toMaster' : n + 1 \in DOMAIN toMaster /\ toMaster'[n] = toMaster[n + 1]
  BY <1>0, MessagesHandled
<1>4. \A no, type : 1 \in Messages(toMaster, no, type) <=> x.roomNo = no /\ x.type = type
  BY <1>2 DEF Messages
<1>5. ClosedOfferNothing'
  BY <1>3 DEF ClosedOfferNothing, AdmitInv
<1>6. \A no : Holders(no)' = Holders(no)
  BY <1>0 DEF Holders
<1>7. \A no \in RoomNo :
        /\ \A k, n \in Messages(toMaster', no, "created") : k = n
        /\ ListedOf(no) = {} \/ Messages(toMaster', no, "created") = {}
  <2>1. \A no, type : \A n \in Messages(toMaster', no, type) : n \in Nat
    BY LenProperties DEF TypeOK, Messages
  <2>2. \A no \in RoomNo : /\ \A k, n \in Messages(toMaster, no, "created") : k = n
                           /\ ListedOf(no) = {} \/ Messages(toMaster, no, "created") = {}
    BY DEF AdmitInv, AnnouncedOnce
  <2>3. QED
    BY <1>3, <2>1, <2>2
<1>8. /\ AnnouncedOnce'
      /\ \A no : \/ \A m : Announces(no, m) => Announces(no, m)'
                 \/ /\ x.type = "left" /\ x.roomNo = no
                    /\ \A m \in Int : Announces(no, m) => Announces(no, m + 1)'
  <2>1. CASE x.type = "created" /\ \E e \in listed : e.roomNo = x.roomNo
    BY <1>2, <1>4, <2>1 DEF AdmitInv, AnnouncedOnce, ListedOf
  <2>2. CASE x.type = "created" /\ ~\E e \in listed : e.roomNo = x.roomNo
    <3>1. listed' = listed \cup {[roomNo |-> x.roomNo, places |-> x.places]}
      BY <1>1, <2>2 DEF Master_Handle
    <3>2. /\ ListedOf(x.roomNo)' = {[roomNo |-> x.roomNo, places |-> x.places]}
          /\ \A no : no # x.roomNo => ListedOf(no)' = ListedOf(no)
      BY <2>2, <3>1 DEF ListedOf
    <3>3. Messages(toMaster', x.roomNo, "created") = {}
      BY <1>2, <1>4, <2>2, <1>3 DEF AdmitInv, AnnouncedOnce
    <3>4. 1 \in Messages(toMaster, x.roomNo, "created")
      BY <1>4, <2>2
    <3>5. \A no, m : Announces(no, m) => Announces(no, m)'
      BY <1>2, <1>3, <3>2, <3>3, <3>4 DEF Announces
    <3>6. AnnouncedOnce'
      BY <1>7, <3>2, <3>3 DEF AdmitInv, AnnouncedOnce
    <3>7. QED
      BY <3>5, <3>6
  <2>3. CASE x.type = "closed" \/ (x.type = "left" /\ seat[x.player] # x.roomNo)
    <3>1. listed' \subseteq listed
      BY <1>1, <2>3 DEF Master_Handle
    <3>2. \A no : ListedOf(no)' \subseteq ListedOf(no)
      BY <3>1 DEF ListedOf
    <3>3. \A no, m : Announces(no, m) => Announces(no, m)'
      BY <1>3, <3>2 DEF Announces
    <3>4. AnnouncedOnce'
      BY <1>7, <3>2 DEF AdmitInv, AnnouncedOnce
    <3>5. QED
      BY <3>3, <3>4
  <2>4. CASE x.type = "left" /\ seat[x.player] = x.roomNo
    <3>1. listed' = {IF e.roomNo = x.roomNo THEN [e EXCEPT !.places = @ + 1] ELSE e : e \in listed}
      BY <1>1, <2>4 DEF Master_Handle, GiveBack
    <3>2. \A e \in listed : /\ [e EXCEPT !.places = @ + 1].roomNo = e.roomNo
                            /\ [e EXCEPT !.places = @ + 1].places = e.places + 1
      BY <1>0
    <3>3. /\ ListedOf(x.roomNo)' = {[e EXCEPT !.places = @ + 1] : e \in ListedOf(x.roomNo)}
          /\ \A no : no # x.roomNo => ListedOf(no)' = ListedOf(no)
      BY <3>1, <3>2 DEF ListedOf
    <3>4. AnnouncedOnce'
      <4>1. /\ \A d, e \in ListedOf(x.roomNo)' : d = e
            /\ ListedOf(x.roomNo)' = {} <=> ListedOf(x.roomNo) = {}
        <5>1. \A d, e \in ListedOf(x.roomNo) : d = e
          BY <1>2 DEF AdmitInv, AnnouncedOnce
        <5>2. QED
          BY <3>3, <5>1
      <4>2. QED
        BY <1>7, <3>3, <4>1 DEF AdmitInv, AnnouncedOnce
    <3>5. \A no, m : no # x.roomNo /\ Announces(no, m) => Announces(no, m)'
      BY <1>3, <3>3 DEF Announces
    <3>6. CASE ListedOf(x.roomNo) = {}
      BY <1>3, <3>3, <3>6, <3>4, <3>5 DEF Announces
    <3>7. CASE ListedOf(x.roomNo) # {}
      <4>1. Messages(toMaster, x.roomNo, "created") = {}
        BY <1>2, <3>7 DEF AdmitInv, AnnouncedOnce
      <4>2. \A e \in ListedOf(x.roomNo)' :
               \E d \in ListedOf(x.roomNo) : e.places = d.places + 1
        BY <3>2, <3>3 DEF ListedOf
      <4>3. \A m \in Int : Announces(x.roomNo, m) => Announces(x.roomNo, m + 1)'
        BY <1>3, <4>1, <4>2 DEF Announces
      <4>4. QED
        BY <2>4, <3>4, <3>5, <4>3
    <3>8. QED
      BY <3>6, <3>7
  <2>5. QED
    BY <1>2, <2>1, <2>2, <2>3, <2>4
<1>9. HoldersFinite'
  BY <1>6 DEF HoldersFinite, AdmitInv
<1>10. ASSUME NEW i \in Index PROVE PlacesAt(i)'
  <2>1. RoomKept(i)
    BY <1>0, AwayFromRooms
  <2>2. CASE room[i].status = "Close"
    BY <2>1, <2>2 DEF PlacesAt, RoomKept, Open
  <2>3. CASE room[i].status # "Close"
    <3>1. PICK no : no = room[i].roomNo
      OBVIOUS
    <3>2. /\ Returning(no)' = Returning(no) /\ IsFiniteSet(Returning(no))
          /\ Cardinality(Returning(no)) \in Nat
          /\ Cardinality(Messages(toMaster, no, "left")) \in Nat
      BY <1>0, AwayFromRooms, PlacesCounted
    <3>3. CASE \A m : Announces(no, m) => Announces(no, m)'
      BY <1>3, <3>2, <1>6, <2>1, <2>3, <3>1, <3>3, PlacesStay DEF One
    <3>4. CASE /\ x.type = "left" /\ x.roomNo = no
               /\ \A m \in Int : Announces(no, m) => Announces(no, m + 1)'
      <4>1. 1 \in Messages(toMaster, no, "left")
        BY <1>4, <3>4
      <4>2. Open(i)
        BY <2>3, <3>1, <4>1 DEF AdmitInv, PlacesAt
      <4>3. PICK m \in Nat : Announces(no, m) /\ Used(i, no, m) <= MaxRoomPlayer
        BY <3>1, <4>2 DEF AdmitInv, PlacesAt
      <4>4. m + 1 \in Nat /\ Announces(no, m + 1)'
        BY <3>4, <4>3
      <4>5. Used(i, no, m + 1)' = Used(i, no, m)
        BY <2>3, <3>1, FS_CardinalityType, <1>3, <4>1, <1>0, <1>6, <3>2, <4>3 DEF TypeOK, RoomRec,
           AdmitInv, HoldersFinite, Numbered, One, Used
      <4>6. QED
        BY <2>1, <3>1, <4>2, <4>3, <4>4, <4>5 DEF PlacesAt, RoomKept
    <3>5. QED
      BY <1>8, <3>3, <3>4
  <2>4. QED
    BY <2>2, <2>3
<1>11. QED
  BY <1>0, <1>5, <1>8, <1>9, <1>10, AwayFromRooms DEF AdmitInv

(* A room is opened and announced: nothing refers to its number yet.       *)
LEMMA AdmitOpen ==
    ASSUME TypeOK, TypeOK', HandlersHavePlayer, CountsExact, AdmitInv, Update_RoomCount
    PROVE  AdmitInv'
<1> USE DEF roomVars, clientVars, envVars
<1>0. /\ room \in [Index -> RoomRec] /\ indexQueue \in Seq(Index) /\ indexQueue # <<>>
      /\ toMaster \in Seq(Message) /\ task["auth"].step = "idle" /\ linked
      /\ UNCHANGED <<player, task, linked, announce, listed, ticket, crash>>
      /\ MaxRoomPlayer \in Nat \ {0}
      /\ \A t \in Thread : task[t].step = "switch" => task[t].player \in Player /\ task[t].room \in Index
      /\ player \in [Player -> PlayerRec]
  BY BattleRoomAssumption DEF TypeOK, Update_RoomCount, CanVisit, AdmitInv, NothingLost, HandlersHavePlayer,
     TaskRec
<1>1. PICK i \in Index : i = Head(indexQueue)
  BY <1>0, HeadTailProperties
<1>2. PICK no \in RoomNo :
        /\ no # NoRoomNo /\ no.index = i
        /\ Unused(no)
        /\ room' = [room EXCEPT ![i] = InitRoom(no, "Wait")]
        /\ SendAll(<<[type |-> "created", roomNo |-> no,
                      places |-> MaxRoomPlayer, player |-> Nobody]>>)
  <2>1. PICK id \in 1 .. MaxRoomID :
          LET no == [id |-> id, index |-> i] IN
            /\ Unused(no)
            /\ room' = [room EXCEPT ![i] = InitRoom(no, "Wait")]
            /\ SendAll(<<[type |-> "created", roomNo |-> no,
                          places |-> MaxRoomPlayer, player |-> Nobody]>>)
    BY <1>1 DEF Update_RoomCount
  <2>2. [id |-> id, index |-> i] \in RoomNo /\ [id |-> id, index |-> i] # NoRoomNo
    BY BattleRoomAssumption DEF RoomNo, NoRoomNo
  <2>3. QED
    BY <2>1, <2>2
<1>3. PICK x \in Message : x = [type |-> "created", roomNo |-> no,
                                places |-> MaxRoomPlayer, player |-> Nobody]
  <2>1. [type |-> "created", roomNo |-> no, places |-> MaxRoomPlayer, player |-> Nobody] \in Message
    BY <1>0 DEF Message
  <2>2. QED
    BY <2>1
<1>4. x.type = "created" /\ x.roomNo = no /\ x.places = MaxRoomPlayer
  BY <1>3
<1>5. PICK k : k = Len(toMaster) + 1
  OBVIOUS
<1>6. /\ k \notin DOMAIN toMaster /\ DOMAIN toMaster' = DOMAIN toMaster \cup {k}
      /\ \A n \in DOMAIN toMaster : toMaster'[n] = toMaster[n]
      /\ toMaster'[k] = x
      /\ Messages(toMaster', no, "created") = Messages(toMaster, no, "created") \cup {k}
      /\ \A o, type : o # no \/ type # "created" =>
           Messages(toMaster', o, type) = Messages(toMaster, o, type)
  <2>1. SendAll(<<x>>)
    BY <1>2, <1>3
  <2>2. QED
    BY <1>0, <1>4, <1>5, <2>1, MessagesSent
<1>7. /\ room'[i] = InitRoom(no, "Wait") /\ \A j \in Index \ {i} : room'[j] = room[j]
      /\ room'[i].status = "Wait" /\ ~room'[i].bReady /\ room'[i].roomNo = no /\ room'[i].curUser = 0
  BY <1>0, <1>2 DEF InitRoom
<1>8. room[i].status = "Close"
  BY <1>0, <1>1, HeadTailProperties, LenProperties, EmptySeq DEF CountsExact, IndexQueueExact
<1>9. /\ \A j \in Index : room[j].roomNo # no
      /\ ListedOf(no) = {} /\ \A type : Messages(toMaster, no, type) = {}
      /\ Holders(no) = {} /\ Returning(no) = {}
  BY <1>0, <1>2 DEF Unused, ListedOf, Messages, Holders, Returning
<1>10. \A o : ListedOf(o)' = ListedOf(o) /\ Holders(o)' = Holders(o) /\ Returning(o)' = Returning(o)
  BY <1>0 DEF ListedOf, Holders, Returning
<1>11. Numbered'
  BY <1>2, <1>7 DEF AdmitInv, Numbered
<1>12. GameLeaverWaits' /\ NothingLost' /\ HoldersFinite' /\ AdmissionNeverFails'
  BY <1>0, <1>10 DEF AdmitInv, GameLeaverWaits, NothingLost, HoldersFinite, AdmissionNeverFails
<1>13. LeaverKnowsRoom'
  <2> SUFFICES ASSUME NEW t \in Thread, task[t].step = "switch",
                      player[task[t].player].roomNo # NoRoomNo
               PROVE  room'[task[t].room].roomNo = player[task[t].player].roomNo
    BY <1>0 DEF LeaverKnowsRoom
  <2>1. t # "auth" /\ task[t].room \in Index
    BY <1>0
  <2>2. room[task[t].room].roomNo = player[task[t].player].roomNo
    BY <2>1 DEF AdmitInv, LeaverKnowsRoom
  <2>3. task[t].room # i
    BY <1>8, <2>2 DEF AdmitInv, Numbered
  <2>4. QED
    BY <1>7, <2>1, <2>2, <2>3
<1>14. AnnouncedOnce'
  BY <1>6, <1>9, <1>10 DEF AdmitInv, AnnouncedOnce
<1>15. ClosedOfferNothing'
  BY <1>4, <1>6 DEF AdmitInv, ClosedOfferNothing
<1>16. PlacesAt(i)'
  <2>1. Announces(no, MaxRoomPlayer)'
    BY <1>4, <1>6, <1>9, <1>10 DEF Announces
  <2>2. Messages(toMaster', no, "left") = {}
    BY <1>6, <1>9
  <2>3. Used(i, no, MaxRoomPlayer)' = MaxRoomPlayer
    <3>1. /\ Cardinality(Holders(no)') = 0 /\ Cardinality(Returning(no)') = 0
          /\ Cardinality(Messages(toMaster', no, "left")) = 0
      BY <1>9, <1>10, <2>2, FS_EmptySet
    <3>2. QED
      BY <1>0, <1>7, <3>1 DEF Used
  <2>4. QED
    BY <1>0, <1>7, <2>1, <2>3 DEF PlacesAt, Open
<1>17. ASSUME NEW j \in Index \ {i} PROVE PlacesAt(j)'
  <2>1. room'[j] = room[j] /\ RoomKept(j)
    BY <1>7 DEF RoomKept, Open
  <2>2. CASE room[j].status = "Close"
    BY <2>1, <2>2 DEF PlacesAt, RoomKept, Open
  <2>3. CASE room[j].status # "Close"
    <3>1. PICK o : o = room[j].roomNo
      OBVIOUS
    <3>2. o # no
      BY <1>9, <3>1
    <3>3. \A type : Messages(toMaster', o, type) = Messages(toMaster, o, type)
      BY <1>6, <3>2
    <3>4. \A n \in Messages(toMaster, o, "created") : toMaster'[n] = toMaster[n]
      BY <1>6 DEF Messages
    <3>5. \A m \in Nat : Announces(o, m) => Announces(o, m)'
      BY <1>10, <3>3, <3>4 DEF Announces
    <3>6. /\ Cardinality(Messages(toMaster, o, "left")) \in Nat
          /\ Cardinality(Returning(o)) \in Nat /\ IsFiniteSet(Returning(o))
      BY <1>0, PlacesCounted
    <3>7. QED
      BY <1>10, <2>1, <2>3, <3>1, <3>3, <3>5, <3>6, PlacesStay
  <2>4. QED
    BY <2>2, <2>3
<1>18. QED
  BY <1>11, <1>12, <1>13, <1>14, <1>15, <1>16, <1>17 DEF AdmitInv

(* A client that enters is taken out by no handler.                        *)
LEMMA EntererStays ==
    ASSUME HandlersHavePlayer, AdmitInv, NEW p \in Player, EntersNow(p), NEW t \in Thread,
           task[t].step = "switch" \/ task[t].step = "leave"
    PROVE  t = "game" /\ task[t].player \in Player \ {p}
  BY DEF HandlersHavePlayer, AdmitInv, GameLeaverWaits, EntersNow, CanVisit, Thread

(* A client shows a number it had: the number is the client's no more.     *)
LEMMA TicketUsed ==
    ASSUME TypeOK, AdmitInv, NEW p \in Player, NEW no \in RoomNo, no = ticket[p], no # NoRoomNo,
           ticket' = [ticket EXCEPT ![p] = NoRoomNo]
    PROVE  /\ \A o : o # no /\ o # NoRoomNo => Holders(o)' = Holders(o)
           /\ Holders(no)' = Holders(no) \ {p} /\ p \in Holders(no)
           /\ Cardinality(Holders(no)) \in Nat /\ Cardinality(Holders(no)') \in Nat
           /\ Cardinality(Holders(no)') = Cardinality(Holders(no)) - 1
           /\ IsFiniteSet(Holders(no))
           /\ HoldersFinite'
<1>0. ticket \in [Player -> RoomNo]
  BY DEF TypeOK
<1>2. /\ \A o : o # no /\ o # NoRoomNo => Holders(o)' = Holders(o)
      /\ Holders(no)' = Holders(no) \ {p} /\ p \in Holders(no)
  BY <1>0 DEF Holders
<1>3. IsFiniteSet(Holders(no))
  BY DEF AdmitInv, HoldersFinite
<1>4. /\ IsFiniteSet(Holders(no)') /\ Cardinality(Holders(no)) \in Nat
      /\ Cardinality(Holders(no)') \in Nat
      /\ Cardinality(Holders(no)') = Cardinality(Holders(no)) - 1
  BY <1>2, <1>3, FS_RemoveElement, FS_CardinalityType
<1>5. HoldersFinite'
  BY <1>2, <1>4 DEF AdmitInv, HoldersFinite
<1>6. QED
  BY <1>2, <1>3, <1>4, <1>5

(* A room the step is not about.                                           *)
LEMMA OtherRoom ==
    ASSUME TypeOK, TypeOK', AdmitInv, NEW i \in Index, RoomKept(i), NEW o, o = room[i].roomNo,
           room[i].status # "Close" =>
             /\ ListedOf(o)' = ListedOf(o)
             /\ \A type \in {"created", "left"} : Messages(toMaster', o, type) = Messages(toMaster, o, type)
             /\ \A n \in DOMAIN toMaster : toMaster'[n] = toMaster[n]
             /\ Holders(o)' = Holders(o)
             /\ Returning(o)' \subseteq Returning(o)
    PROVE  PlacesAt(i)'
<1>1. CASE room[i].status = "Close"
  BY <1>1 DEF PlacesAt, RoomKept, Open
<1>2. CASE room[i].status # "Close"
  <2>1. \A n \in Messages(toMaster, o, "created") : toMaster'[n] = toMaster[n]
    BY <1>2 DEF Messages
  <2>2. \A m \in Nat : Announces(o, m) => Announces(o, m)'
    BY <1>2, <2>1 DEF Announces
  <2>3. IsFiniteSet(Returning(o)') /\ Cardinality(Returning(o)') <= Cardinality(Returning(o))
    BY <1>2, PlacesCounted, FS_Subset
  <2>4. /\ Messages(toMaster', o, "left") = Messages(toMaster, o, "left")
        /\ Cardinality(Messages(toMaster', o, "left")) <= Cardinality(Messages(toMaster, o, "left"))
    BY <1>2, PlacesCounted DEF TypeOK
  <2>5. QED
    BY <1>2, <2>2, <2>3, <2>4, PlacesStay
<1>3. QED
  BY <1>1, <1>2

(* A client enters: its place is the one of its ticket.  The client that   *)
(* fills the room finds that nobody else is on the way to it.              *)
LEMMA AdmitEnter ==
    ASSUME TypeOK, TypeOK', HandlersHavePlayer, CountsExact, AdmitInv, NEW p \in Player,
           Request_EnterRoom(p)
    PROVE  AdmitInv'
<1>0. /\ room \in [Index -> RoomRec] /\ player \in [Player -> PlayerRec]
      /\ ticket \in [Player -> RoomNo] /\ toMaster \in Seq(Message) /\ toMaster' \in Seq(Message)
      /\ linked /\ EntersNow(p) /\ Found(ticket[p])
      /\ UNCHANGED <<task, linked, announce, listed, crash>>
      /\ player' = [player EXCEPT ![p].roomNo = ticket[p]]
      /\ ticket' = [ticket EXCEPT ![p] = NoRoomNo]
  BY DEF TypeOK, Request_EnterRoom, AdmitInv, NothingLost, clientVars
<1>1. PICK no \in RoomNo : no = ticket[p] /\ no # NoRoomNo
  BY <1>0 DEF EntersNow
<1>2. PICK i \in Index : i = no.index
  BY RoomNoIndex
<1>3. /\ room[i].roomNo = no /\ Open(i) /\ room[i].curUser < MaxRoomPlayer
      /\ room[i].status = "Wait" /\ ~room[i].bReady
      /\ room[i].curUser \in Int /\ MaxRoomPlayer \in Nat \ {0}
  BY <1>0, <1>1, <1>2, AdmittedFindsPlace, BattleRoomAssumption DEF Open, RoomRec
<1>4. PICK full \in BOOLEAN : full <=> room[i].curUser + 1 = MaxRoomPlayer
  OBVIOUS
<1>5. /\ room'[i].status = "Wait" /\ room'[i].roomNo = no /\ room'[i].curUser = room[i].curUser + 1
      /\ room'[i].bReady <=> full
      /\ \A j \in Index \ {i} : room'[j] = room[j]
  BY <1>1, <1>2, <1>4, <1>0, <1>3 DEF Request_EnterRoom, RoomRec
<1>6. /\ \A o : \A type \in {"created", "left"} : Messages(toMaster', o, type) = Messages(toMaster, o, type)
      /\ \A n \in DOMAIN toMaster : toMaster'[n] = toMaster[n]
      /\ \A n \in DOMAIN toMaster' \ DOMAIN toMaster : toMaster'[n].places = 0
  <2>1. CASE full
    <3>1. PICK x \in Message : x = Closed(no)
      <4>1. Closed(no) \in Message
        BY <1>1 DEF Closed, Message
      <4>2. QED
        BY <4>1
    <3>2. SendAll(<<x>>)
      BY <1>1, <1>2, <1>3, <1>4, <2>1, <3>1 DEF Request_EnterRoom
    <3>3. x.type = "closed" /\ x.places = 0
      BY <3>1 DEF Closed
    <3>4. /\ DOMAIN toMaster' = DOMAIN toMaster \cup {Len(toMaster) + 1}
          /\ toMaster'[Len(toMaster) + 1] = x
          /\ \A n \in DOMAIN toMaster : toMaster'[n] = toMaster[n]
          /\ \A o, type : o # x.roomNo \/ type # x.type =>
                Messages(toMaster', o, type) = Messages(toMaster, o, type)
      BY <1>0, <3>2, MessagesSent
    <3>5. QED
      BY <3>3, <3>4
  <2>2. CASE ~full
    <3>1. SendAll(<<>>)
      BY <1>1, <1>2, <1>3, <1>4, <2>2 DEF Request_EnterRoom
    <3>2. toMaster' = toMaster
      BY <1>0, <3>1, ConcatProperties DEF SendAll
    <3>3. QED
      BY <3>2
  <2>3. QED
    BY <2>1, <2>2
<1>7. /\ \A o : o # no /\ o # NoRoomNo => Holders(o)' = Holders(o)
      /\ Holders(no)' = Holders(no) \ {p} /\ p \in Holders(no)
      /\ Cardinality(Holders(no)) \in Nat /\ Cardinality(Holders(no)') \in Nat
      /\ Cardinality(Holders(no)') = Cardinality(Holders(no)) - 1
      /\ IsFiniteSet(Holders(no))
      /\ HoldersFinite'
  BY <1>0, <1>1, TicketUsed
<1>8. \A t \in Thread : task[t].step \in {"switch", "leave"} => t = "game" /\ task[t].player \in Player \ {p}
  BY <1>0, EntererStays
<1>9. /\ \A q \in Player \ {p} : player'[q] = player[q]
      /\ player'[p].mode = player[p].mode
  BY <1>0 DEF PlayerRec
<1>10. \A o : Returning(o)' = Returning(o) /\ ListedOf(o)' = ListedOf(o)
  BY <1>0, <1>8, <1>9 DEF Returning, ListedOf
<1>11. Numbered'
  BY <1>3, <1>5 DEF AdmitInv, Numbered
<1>12. NothingLost' /\ AdmissionNeverFails' /\ AnnouncedOnce' /\ GameLeaverWaits'
  BY <1>0, <1>6, <1>10, <1>8, <1>9 DEF AdmitInv, NothingLost, AdmissionNeverFails, AnnouncedOnce,
     GameLeaverWaits, Thread
<1>13. LeaverKnowsRoom'
  <2>1. \A t \in Thread : task[t].room \in Index
    BY DEF TypeOK, TaskRec
  <2>2. \A j \in Index : room'[j].roomNo = room[j].roomNo /\ (room[j].status = "Close" => room'[j].status = "Close")
    BY <1>3, <1>5
  <2>3. QED
    BY <1>0, <1>8, <1>9, <2>1, <2>2 DEF AdmitInv, LeaverKnowsRoom
<1>14. ClosedOfferNothing'
  BY <1>6 DEF AdmitInv, ClosedOfferNothing
<1>15. PlacesAt(i)'
  <2>1. PICK m \in Nat : Announces(no, m) /\ Used(i, no, m) <= MaxRoomPlayer
    BY <1>3 DEF AdmitInv, PlacesAt
  <2>2. /\ Cardinality(Messages(toMaster, no, "left")) \in Nat
        /\ Cardinality(Returning(no)) \in Nat
    BY <1>0, PlacesCounted
  <2>3. \A k : Announces(no, k) => Announces(no, k)'
    BY <1>6, <1>10 DEF Messages, Announces
  <2>4. CASE ~full
    BY <1>5, <2>4, <1>6, <1>3, <1>7, <1>10, <2>2, <2>1, <2>3 DEF Open, Used, PlacesAt
  <2>5. CASE full
    <3>1. /\ m = 0 /\ Cardinality(Messages(toMaster, no, "left")) = 0
          /\ Cardinality(Holders(no)') = 0
      BY <1>7, <1>4, <2>5, <1>3, <2>1, <2>2 DEF Used
    <3>2. Announces(no, 0)'
      BY <2>1, <2>3, <3>1
    <3>3. Messages(toMaster', no, "left") = {}
      BY <1>0, <1>6, <3>1, PlacesCounted, FS_EmptySet
    <3>4. Holders(no)' = {}
      BY <1>1, <1>7, <3>1, FS_EmptySet DEF HoldersFinite
    <3>5. ~Open(i)'
      BY <1>5, <2>5 DEF Open
    <3>6. QED
      BY <1>5, <3>2, <3>3, <3>4, <3>5 DEF PlacesAt
  <2>6. QED
    BY <2>4, <2>5
<1>16. ASSUME NEW j \in Index \ {i} PROVE PlacesAt(j)'
  BY <1>5, <1>2, <1>6, <1>7, <1>10, OtherRoom DEF RoomKept, Open, AdmitInv, Numbered
<1>17. QED
  BY <1>7, <1>11, <1>12, <1>13, <1>14, <1>15, <1>16 DEF AdmitInv

(* A client comes too late: its room is gone, and its ticket with it.      *)
LEMMA AdmitNoRoom ==
    ASSUME TypeOK, TypeOK', HandlersHavePlayer, AdmitInv, NEW p \in Player,
           Request_EnterRoom_NoExistRoom(p)
    PROVE  AdmitInv'
<1>0. /\ player \in [Player -> PlayerRec] /\ ticket \in [Player -> RoomNo]
      /\ EntersNow(p) /\ ~Found(ticket[p])
      /\ UNCHANGED <<room, task, linked, announce, listed, crash, toMaster>>
      /\ player' = [player EXCEPT ![p].roomNo = ticket[p]]
      /\ ticket' = [ticket EXCEPT ![p] = NoRoomNo]
  BY DEF TypeOK, Request_EnterRoom_NoExistRoom, roomVars, clientVars, netVars
<1>1. PICK no \in RoomNo : no = ticket[p] /\ no # NoRoomNo
  BY <1>0 DEF EntersNow
<1>2. /\ \A o : o # no /\ o # NoRoomNo => Holders(o)' = Holders(o)
      /\ HoldersFinite'
  BY <1>0, <1>1, TicketUsed
<1>3. \A t \in Thread : task[t].step \in {"switch", "leave"} => t = "game" /\ task[t].player \in Player \ {p}
  BY <1>0, EntererStays
<1>4. \A q \in Player \ {p} : player'[q] = player[q]
  BY <1>0
<1>5. \A o : Returning(o)' = Returning(o) /\ ListedOf(o)' = ListedOf(o)
  BY <1>0, <1>3, <1>4 DEF Returning, ListedOf
<1>6. \A i \in Index : room[i].status # "Close" => room[i].roomNo # no /\ room[i].roomNo # NoRoomNo
  BY <1>0, <1>1 DEF AdmitInv, Numbered, Found
<1>7. /\ Numbered' /\ NothingLost' /\ AdmissionNeverFails' /\ AnnouncedOnce' /\ GameLeaverWaits'
      /\ ClosedOfferNothing'
  BY <1>0, <1>5, <1>3, <1>4 DEF AdmitInv, Numbered, NothingLost, AdmissionNeverFails,
     ClosedOfferNothing, AnnouncedOnce, GameLeaverWaits, Thread
<1>8. LeaverKnowsRoom'
  BY <1>0, <1>3, <1>4 DEF AdmitInv, LeaverKnowsRoom
<1>9. ASSUME NEW i \in Index PROVE PlacesAt(i)'
  BY <1>0, <1>2, <1>5, <1>6, OtherRoom DEF RoomKept, Open
<1>10. QED
  BY <1>2, <1>7, <1>8, <1>9 DEF AdmitInv

(* A player is taken out: its place is the handler's.                      *)
LEMMA AdmitLeave ==
    ASSUME TypeOK, TypeOK', HandlersHavePlayer, AdmitInv, NEW t \in Thread,
           Leave_DeletePlayer(t), room' # room
    PROVE  AdmitInv'
<1> DEFINE p == task[t].player
<1>0. /\ room \in [Index -> RoomRec] /\ player \in [Player -> PlayerRec]
      /\ task \in [Thread -> TaskRec] /\ toMaster \in Seq(Message)
      /\ task[t].step = "leave" /\ p \in Player
      /\ UNCHANGED <<player, linked, announce, listed, ticket, crash, toMaster>>
  BY DEF TypeOK, Leave_DeletePlayer, HandlersHavePlayer, At, clientVars, netVars, envVars
<1>1. PICK no \in RoomNo : no = player[p].roomNo
  BY <1>0 DEF PlayerRec
<1>2. PICK i \in Index : i = no.index
  BY RoomNoIndex
<1>3. /\ room[i].roomNo = no
      /\ room' = [room EXCEPT ![i] =
                    [room[i] EXCEPT !.roomPlayer[First(SlotsOf(i, p))] = Nobody, !.curUser = @ - 1]]
      /\ task' = [task EXCEPT ![t] = [task[t] EXCEPT !.step = "switch", !.room = i]]
  BY <1>1, <1>2 DEF Leave_DeletePlayer, Found
<1>4. /\ room'[i].status = room[i].status /\ room'[i].roomNo = no /\ room'[i].bReady = room[i].bReady
      /\ room'[i].curUser = room[i].curUser - 1 /\ room[i].curUser \in Int
      /\ \A j \in Index \ {i} : room'[j] = room[j]
  BY <1>0, <1>3 DEF RoomRec
<1>5. /\ task'[t].step = "switch" /\ task'[t].player = p /\ task'[t].room = i
      /\ \A u \in Thread \ {t} : task'[u] = task[u]
  BY <1>0, <1>3 DEF TaskRec
<1>6. \A o : ListedOf(o)' = ListedOf(o) /\ Holders(o)' = Holders(o)
  BY <1>0 DEF ListedOf, Holders
<1>7. /\ \A o : o # no => Returning(o)' = Returning(o)
      /\ t \notin Returning(no) /\ t \in Returning(no)' /\ Returning(no) \ {t} = Returning(no)' \ {t}
  BY <1>0, <1>1, <1>5 DEF Returning
<1>8. Numbered'
  BY <1>3, <1>4 DEF AdmitInv, Numbered
<1>9. NothingLost' /\ AdmissionNeverFails' /\ AnnouncedOnce' /\ HoldersFinite' /\ ClosedOfferNothing'
  BY <1>0, <1>6 DEF AdmitInv, NothingLost, AdmissionNeverFails, AnnouncedOnce, HoldersFinite,
     ClosedOfferNothing
<1>10. GameLeaverWaits'
  BY <1>0, <1>5 DEF AdmitInv, GameLeaverWaits, Thread
<1>11. LeaverKnowsRoom'
  BY <1>0, <1>3, <1>4, <1>1, <1>5 DEF TaskRec, AdmitInv, LeaverKnowsRoom
<1>12. PlacesAt(i)'
  <2>1. CASE room[i].status = "Close"
    BY <1>4, <2>1 DEF PlacesAt, Open
  <2>2. CASE room[i].status # "Close" /\ ~Open(i)
    BY <1>3, <2>2, <1>0, <1>4, <1>6 DEF AdmitInv, PlacesAt, Open, Announces
  <2>3. CASE Open(i)
    <3>1. no # NoRoomNo
      BY <1>3, <2>3 DEF AdmitInv, Numbered, Open
    <3>2. PICK m \in Nat : Announces(no, m) /\ Used(i, no, m) <= MaxRoomPlayer
      BY <1>3, <2>3 DEF AdmitInv, PlacesAt
    <3>3. Cardinality(Holders(no)) \in Nat /\ Cardinality(Messages(toMaster, no, "left")) \in Nat
      BY <1>0, <3>1, PlacesCounted, FS_CardinalityType DEF AdmitInv, HoldersFinite
    <3>4. /\ Cardinality(Returning(no)) \in Nat /\ Cardinality(Returning(no)') \in Nat
          /\ Cardinality(Returning(no)') = Cardinality(Returning(no)) + 1
      BY PlacesCounted, <1>7, CountOne DEF One
    <3>5. Used(i, no, m)' = Used(i, no, m)
      <4>1. /\ Cardinality(Holders(no)') = Cardinality(Holders(no))
            /\ Cardinality(Messages(toMaster', no, "left")) = Cardinality(Messages(toMaster, no, "left"))
        BY <1>0, <1>6
      <4>2. QED
        BY <1>4, <3>2, <3>3, <3>4, <4>1 DEF Used
    <3>6. Announces(no, m)' /\ Open(i)'
      BY <1>0, <1>4, <1>6, <2>3, <3>2 DEF Announces, Open
    <3>7. QED
      BY <1>4, <3>2, <3>5, <3>6 DEF PlacesAt
  <2>4. QED
    BY <2>1, <2>2, <2>3
<1>13. ASSUME NEW j \in Index \ {i} PROVE PlacesAt(j)'
  BY <1>4, <1>2, <1>0, <1>6, <1>7, OtherRoom DEF RoomKept, Open, AdmitInv, Numbered
<1>14. QED
  BY <1>8, <1>9, <1>10, <1>11, <1>12, <1>13 DEF AdmitInv

(* The handler gives the place back: it is the packet's.                   *)
LEMMA AdmitStatus ==
    ASSUME TypeOK, TypeOK', HandlersHavePlayer, AdmitInv, NEW t \in Thread,
           Leave_Status(t), Open(task[t].room)
    PROVE  AdmitInv'
<1> DEFINE p == task[t].player
<1>0. /\ room \in [Index -> RoomRec] /\ player \in [Player -> PlayerRec]
      /\ task \in [Thread -> TaskRec] /\ toMaster \in Seq(Message) /\ toMaster' \in Seq(Message)
      /\ task[t].step = "switch" /\ p \in Player /\ linked
      /\ UNCHANGED <<room, player, linked, announce, listed, ticket, crash>>
  BY DEF TypeOK, Leave_Status, HandlersHavePlayer, At, roomVars, clientVars, envVars, AdmitInv, NothingLost
<1>1. PICK no \in RoomNo : no = player[p].roomNo
  BY <1>0 DEF PlayerRec
<1>2. PICK i \in Index : i = task[t].room
  BY <1>0 DEF TaskRec
<1>3. /\ room[i].status = "Wait" /\ ~room[i].bReady /\ Open(i)
      /\ no = NoRoomNo \/ room[i].roomNo = no
  BY <1>2, <1>0, <1>1 DEF Open, AdmitInv, LeaverKnowsRoom
<1>4. PICK x \in Message : x = Left(no, p)
  <2>1. Left(no, p) \in Message
    BY <1>0, <1>1 DEF Left, Message
  <2>2. QED
    BY <2>1
<1>5. x.type = "left" /\ x.roomNo = no
  BY <1>4 DEF Left
<1>6. SendAll(<<x>>) /\ task' = [task EXCEPT ![t] = Idle]
  BY <1>1, <1>2, <1>3, <1>4 DEF Leave_Status, Return
<1>7. PICK k : k = Len(toMaster) + 1
  OBVIOUS
<1>8. /\ k \notin DOMAIN toMaster /\ DOMAIN toMaster' = DOMAIN toMaster \cup {k}
      /\ \A n \in DOMAIN toMaster : toMaster'[n] = toMaster[n]
      /\ toMaster'[k] = x
      /\ Messages(toMaster', no, "left") = Messages(toMaster, no, "left") \cup {k}
      /\ \A o, type : o # no \/ type # "left" =>
           Messages(toMaster', o, type) = Messages(toMaster, o, type)
  BY <1>0, <1>5, <1>6, <1>7, MessagesSent
<1>9. \A o : ListedOf(o)' = ListedOf(o) /\ Holders(o)' = Holders(o)
  BY <1>0 DEF ListedOf, Holders
<1>10. /\ task'[t].step = "idle" /\ \A u \in Thread \ {t} : task'[u] = task[u]
  BY <1>0, <1>6 DEF Idle
<1>11. /\ \A o : Returning(o)' \subseteq Returning(o)
       /\ t \in Returning(no) /\ t \notin Returning(no)' /\ Returning(no) \ {t} = Returning(no)' \ {t}
  BY <1>0, <1>1, <1>10 DEF Returning
<1>12. Numbered' /\ NothingLost' /\ AdmissionNeverFails' /\ HoldersFinite' /\ ClosedOfferNothing'
  BY <1>0, <1>5, <1>8, <1>9 DEF AdmitInv, Numbered, NothingLost, AdmissionNeverFails, HoldersFinite,
     ClosedOfferNothing
<1>13. AnnouncedOnce'
  BY <1>8, <1>9 DEF AdmitInv, AnnouncedOnce
<1>14. GameLeaverWaits' /\ LeaverKnowsRoom'
  BY <1>0, <1>10 DEF AdmitInv, GameLeaverWaits, LeaverKnowsRoom, Thread
<1>15. \A j \in Index : RoomKept(j)
  BY <1>0 DEF RoomKept, Open
<1>16. ASSUME NEW j \in Index, ~(j = i /\ room[i].roomNo = no) PROVE PlacesAt(j)'
  BY <1>3, <1>16, <1>8, <1>9, <1>11, <1>15, OtherRoom DEF AdmitInv, Numbered
<1>17. ASSUME room[i].roomNo = no PROVE PlacesAt(i)'
  <2>1. no # NoRoomNo
    BY <1>3, <1>17 DEF AdmitInv, Numbered
  <2>2. PICK m \in Nat : Announces(no, m) /\ Used(i, no, m) <= MaxRoomPlayer
    BY <1>3, <1>17 DEF AdmitInv, PlacesAt
  <2>3. Cardinality(Holders(no)) \in Nat /\ room[i].curUser \in Int
    BY <1>0, <2>1, FS_CardinalityType DEF AdmitInv, HoldersFinite, RoomRec
  <2>4. /\ Cardinality(Returning(no)) \in Nat /\ Cardinality(Returning(no)') \in Nat
        /\ Cardinality(Returning(no)') = Cardinality(Returning(no)) - 1
    BY PlacesCounted, <1>11, CountOne DEF One
  <2>5. /\ Cardinality(Messages(toMaster, no, "left")) \in Nat
        /\ Cardinality(Messages(toMaster', no, "left")) = Cardinality(Messages(toMaster, no, "left")) + 1
    <3>1. PICK S : S = Messages(toMaster, no, "left")
      OBVIOUS
    <3>2. k \notin S /\ IsFiniteSet(S) /\ Cardinality(S) \in Nat
      <4>1. k \notin S
        BY <1>8, <3>1 DEF Messages
      <4>2. QED
        BY <1>0, <3>1, <4>1, PlacesCounted
    <3>3. Cardinality(S \cup {k}) = Cardinality(S) + 1
      BY <3>2, FS_AddElement
    <3>4. QED
      BY <1>8, <3>1, <3>2, <3>3
  <2>6. Used(i, no, m)' = Used(i, no, m)
    BY <1>0, <1>9, <2>2, <2>3, <2>4, <2>5 DEF Used
  <2>7. Announces(no, m)' /\ Open(i)'
    BY <1>8, <1>9, <2>2, <1>0, <1>3 DEF Messages, Announces, Open
  <2>8. QED
    BY <1>0, <1>17, <2>2, <2>6, <2>7 DEF PlacesAt
<1>18. QED
  BY <1>12, <1>13, <1>14, <1>16, <1>17 DEF AdmitInv

(* Nobody is turned away by a crash.                                       *)
LEMMA NobodyCrashes ==
    ASSUME TypeOK, CountsExact, AdmitInv, NEW p \in Player
    PROVE  ~Request_EnterRoom_Crash(p)
  BY AdmittedFindsPlace, BattleRoomAssumption DEF Request_EnterRoom_Crash, EntersNow, Open, TypeOK,
     RoomRec

(* Every step keeps the places, when the environment loses nothing.        *)
LEMMA AdmitNext ==
    ASSUME IInv, IInv', AdmitInv, [Next]_vars, drops' = 0, losses' = 0
    PROVE  AdmitInv'
<1> USE DEF roomVars, clientVars, netVars, envVars
<1>0. /\ TypeOK /\ TypeOK' /\ HandlersInv /\ HandlersHavePlayer /\ CountsExact
      /\ linked /\ announce.step = "idle"
  BY DEF IInv, HandlersInv, AdmitInv, NothingLost
<1>1. ASSUME CalmAdmit PROVE AdmitInv'
  BY <1>0, <1>1, AdmitCalm
<1>2. ASSUME NEW t \in Thread, Leaving(t) PROVE AdmitInv'
  BY <1>0, <1>1, CalmLeaving, AdmitLeave, AdmitStatus, <1>2 DEF Leaving
<1>3. CASE AuthThread
  BY <1>0, AdmitOpen, AdmitEnter, AdmitNoRoom, <1>1, CalmAuth, <1>2, <1>3, NobodyCrashes DEF
     AuthThread, Thread
<1>4. CASE GameThread
  BY <1>0, <1>1, <1>2, <1>4, CalmGame DEF GameThread, Thread
<1>5. CASE LanClient
  <2>1. PICK no \in closeReply : Receive_MasterRequest_CloseRoom(no)
    BY <1>0, <1>5 DEF LanClient, Connect, Response_Master_Login, Receive_MasterRequest_Login_Created,
       Receive_MasterRequest_Login_Full, Receive_MasterRequest_Login_Done, Announcing
  <2>2. \A i \in Index : RoomKept(i)
    BY <1>0, <2>1 DEF Receive_MasterRequest_CloseRoom, RoomKept, Open, TypeOK, RoomRec
  <2>3. UNCHANGED <<task, player, toMaster, listed, ticket, linked, announce, crash>>
    BY <2>1 DEF Receive_MasterRequest_CloseRoom
  <2>4. QED
    BY <1>0, <1>1, <2>2, <2>3, CalmStep
<1>6. CASE Environment
  <2>1. CASE Master_Handle
    BY <1>0, <2>1, AdmitHandle
  <2>2. ASSUME NEW p \in Player, Master_SendClient(p) PROVE AdmitInv'
    BY <1>0, <2>2, AdmitSendClient
  <2>3. ASSUME NEW p \in Player, Accept_Complete(p) PROVE AdmitInv'
    BY <1>0, <2>3, <1>1, CalmStep DEF Accept_Complete, TypeOK, PlayerRec, RoomKept, Open
  <2>4. ASSUME NEW p \in Player, ConnectionLost(p) PROVE AdmitInv'
    BY <1>0, <2>4, <1>1, CalmStep DEF ConnectionLost, TypeOK, PlayerRec, RoomKept, Open
  <2>5. drops \in Nat /\ losses \in Nat
    BY <1>0, BattleRoomAssumption DEF TypeOK
  <2>6. ~OnLeaveServer /\ \A p \in Player : ~Master_ClientLost(p)
    BY <2>5 DEF OnLeaveServer, Master_ClientLost
  <2>7. QED
    BY <1>6, <2>1, <2>2, <2>3, <2>4, <2>6 DEF Environment
<1>7. CASE UNCHANGED vars
  BY <1>0, <1>1, <1>7, CalmStep DEF vars, RoomKept, Open
<1>8. QED
  BY <1>3, <1>4, <1>5, <1>6, <1>7 DEF Next

(* At first there is neither room nor client.                              *)
LEMMA AdmitInit == Init => AdmitInv
<1> SUFFICES ASSUME Init PROVE AdmitInv
  OBVIOUS
<1>1. \A i \in Index : room[i].status = "Close" /\ room[i].roomNo = NoRoomNo
  BY DEF Init, InitRoom
<1>2. \A t \in Thread : task[t].step = "idle"
  BY DEF Init, Idle
<1>3. \A no : no # NoRoomNo => Holders(no) = {}
  BY DEF Init, Holders
<1>4. \A no : ListedOf(no) = {} /\ \A type : Messages(toMaster, no, type) = {}
  BY DEF Init, ListedOf, Messages
<1>5. HoldersFinite
  BY <1>3, FS_EmptySet DEF HoldersFinite
<1>6. Numbered /\ GameLeaverWaits /\ LeaverKnowsRoom
  BY <1>1, <1>2 DEF Numbered, GameLeaverWaits, LeaverKnowsRoom, Thread
<1>7. NothingLost /\ AnnouncedOnce /\ ClosedOfferNothing /\ AdmissionNeverFails
  BY <1>4 DEF Init, NothingLost, AnnouncedOnce, ClosedOfferNothing, AdmissionNeverFails
<1>8. \A i \in Index : PlacesAt(i)
  BY <1>1 DEF PlacesAt, Open
<1>9. QED
  BY <1>5, <1>6, <1>7, <1>8 DEF AdmitInv

-----------------------------------------------------------------------------
(* What Offered adds up, with the folds of the library written out: a      *)
(* choice of one element after another.                                    *)

Pick(T) == CHOOSE x \in T : TRUE

(* f adds up the weights w of the elements of every subset of S.           *)
AddsUp(f, w, S) ==
    f = [T \in SUBSET S |-> IF T = {} THEN 0 ELSE w[Pick(T)] + f[T \ {Pick(T)}]]

(* Two functions that add up the same weights agree: a smallest set on     *)
(* which they differ would be empty.                                       *)
LEMMA OneSum ==
    ASSUME NEW S, IsFiniteSet(S), NEW w, NEW f, NEW g, AddsUp(f, w, S), AddsUp(g, w, S)
    PROVE  f[S] = g[S]
<1> DEFINE Bad == {T \in SUBSET S : f[T] # g[T]}
           R == StrictSubsetOrdering(S)
<1>1. SUFFICES ASSUME S \in Bad PROVE FALSE
  OBVIOUS
<1>2. Bad \subseteq FiniteSubsetsOf(S)
  BY FS_Subset DEF FiniteSubsetsOf
<1>3. PICK T \in Bad : \A U \in Bad : ~(<<U, T>> \in R)
  <2>1. IsWellFoundedOn(R, FiniteSubsetsOf(S))
    BY FS_StrictSubsetOrderingWellFounded
  <2> HIDE DEF Bad, R
  <2>2. QED
    BY <1>1, <1>2, <2>1, WFMin
<1>4. T \in SUBSET S /\ f[T] # g[T]
  OBVIOUS
<1>5. T # {}
  BY <1>4 DEF AddsUp
<1>6. PICK x \in T : x = Pick(T)
  BY <1>5 DEF Pick
<1>7. T \ {x} \in SUBSET S /\ f[T \ {x}] # g[T \ {x}]
  BY <1>4, <1>5, <1>6 DEF AddsUp
<1>8. <<T \ {x}, T>> \in R
  BY <1>4, <1>6 DEF StrictSubsetOrdering
<1>9. QED
  BY <1>3, <1>7, <1>8

(* Elements of L weigh 1, k weighs m and everything else nothing.          *)
Weighs(w, S, L, k, m) ==
    \A n \in S : w[n] = IF n \in L THEN 1 ELSE IF n = k THEN m ELSE 0

LEMMA SumOfPlaces ==
    ASSUME NEW S, IsFiniteSet(S), NEW L \in SUBSET S, NEW k, k \notin L, NEW m \in Int, NEW w,
           Weighs(w, S, L, k, m)
    PROVE  \E f : AddsUp(f, w, S) /\ f[S] = Cardinality(L) + IF k \in S THEN m ELSE 0
<1> DEFINE f == [T \in SUBSET S |-> Cardinality(T \cap L) + IF k \in T THEN m ELSE 0]
<1>1. ASSUME NEW T \in SUBSET S
      PROVE  f[T] = IF T = {} THEN 0 ELSE w[Pick(T)] + f[T \ {Pick(T)}]
  <2>1. CASE T = {}
    BY <2>1, FS_EmptySet
  <2>2. CASE T # {}
    <3>1. PICK x \in T : x = Pick(T)
      BY <2>2 DEF Pick
    <3>2. PICK A : A = T \cap L
      OBVIOUS
    <3>3. IsFiniteSet(A)
      BY <3>2, FS_Subset
    <3>4. /\ (T \ {x}) \cap L = A \ {x}
          /\ x \in A <=> x \in L
      BY <3>1, <3>2
    <3>5. /\ Cardinality(A \ {x}) = IF x \in A THEN Cardinality(A) - 1 ELSE Cardinality(A)
          /\ Cardinality(A) \in Nat
      BY <3>3, FS_RemoveElement, FS_CardinalityType
    <3>6. f[T] = Cardinality(A) + IF k \in T THEN m ELSE 0
      BY <3>2
    <3>7. f[T \ {x}] = Cardinality(A \ {x}) + IF k \in T \ {x} THEN m ELSE 0
      BY <3>4
    <3>8. w[x] = IF x \in A THEN 1 ELSE IF x = k THEN m ELSE 0
      BY <3>4 DEF Weighs
    <3> HIDE DEF f
    <3>9. f[T] = w[x] + f[T \ {x}]
      BY <3>4, <3>5, <3>6, <3>7, <3>8, <3>1
    <3>10. QED
      BY <2>2, <3>1, <3>9
  <2>3. QED
    BY <2>1, <2>2
<1>2. AddsUp(f, w, S)
  BY <1>1 DEF AddsUp
<1>3. f[S] = Cardinality(L) + IF k \in S THEN m ELSE 0
  OBVIOUS
<1>4. QED
  BY <1>2, <1>3

SentOf(no) == {n \in DOMAIN toMaster : toMaster[n].roomNo = no}
Weight(n)  == IF toMaster[n].type = "left" THEN 1 ELSE toMaster[n].places

ListedSum(no) == CHOOSE f : f = [T \in SUBSET ListedOf(no) |->
    IF T = {} THEN 0 ELSE Pick(T).places + f[T \ {Pick(T)}]]
SentSum(no) == CHOOSE f : f = [T \in SUBSET SentOf(no) |->
    IF T = {} THEN 0 ELSE Weight(Pick(T)) + f[T \ {Pick(T)}]]

(* The two sums of Offered.                                                *)
LEMMA OfferedSums ==
    \A no : Offered(no) = ListedSum(no)[ListedOf(no)] + SentSum(no)[SentOf(no)]
  BY Zenon DEF Offered, MapThenSumSet, MapThenFoldSet, ListedSum, SentSum, Pick, ListedOf, SentOf, Weight

(* A sum that has a closed form is it.                                     *)
LEMMA ListedAdded ==
    ASSUME NEW no, IsFiniteSet(ListedOf(no)), NEW w, \A e \in ListedOf(no) : w[e] = e.places,
           NEW g, AddsUp(g, w, ListedOf(no))
    PROVE  ListedSum(no)[ListedOf(no)] = g[ListedOf(no)]
<1> DEFINE S == ListedOf(no)
           Sums(f) == f = [T \in SUBSET S |-> IF T = {} THEN 0 ELSE Pick(T).places + f[T \ {Pick(T)}]]
<1>1. \A f : Sums(f) <=> AddsUp(f, w, S)
  BY DEF Pick, AddsUp
<1>2. Sums(ListedSum(no))
  BY <1>1 DEF ListedSum
<1>3. QED
  BY <1>1, <1>2, OneSum

LEMMA SentAdded ==
    ASSUME NEW no, IsFiniteSet(SentOf(no)), NEW w, \A n \in SentOf(no) : w[n] = Weight(n),
           NEW g, AddsUp(g, w, SentOf(no))
    PROVE  SentSum(no)[SentOf(no)] = g[SentOf(no)]
<1> DEFINE S == SentOf(no)
           Sums(f) == f = [T \in SUBSET S |-> IF T = {} THEN 0 ELSE Weight(Pick(T)) + f[T \ {Pick(T)}]]
<1>1. \A f : Sums(f) <=> AddsUp(f, w, S)
  <2>1. \A T \in SUBSET S : T # {} => Pick(T) \in S
    BY DEF Pick
  <2>2. ASSUME NEW f
        PROVE  [T \in SUBSET S |-> IF T = {} THEN 0 ELSE Weight(Pick(T)) + f[T \ {Pick(T)}]]
                 = [T \in SUBSET S |-> IF T = {} THEN 0 ELSE w[Pick(T)] + f[T \ {Pick(T)}]]
    BY <2>1
  <2>3. QED
    BY <2>2 DEF AddsUp
<1>2. Sums(SentSum(no))
  BY <1>1 DEF SentSum
<1>3. QED
  BY <1>1, <1>2, OneSum

(* What an open room offers is what it has announced and what is on the    *)
(* way back to it.                                                         *)
LEMMA OfferedCounted ==
    ASSUME TypeOK, AdmitInv, NEW no \in RoomNo, NEW m \in Nat, Announces(no, m)
    PROVE  /\ Offered(no) \in Int
           /\ Offered(no) <= m + Cardinality(Messages(toMaster, no, "left"))
<1>0. /\ toMaster \in Seq(Message) /\ listed \subseteq [roomNo : RoomNo, places : Int]
  BY DEF TypeOK
<1>1. PICK S, L : S = SentOf(no) /\ L = Messages(toMaster, no, "left")
  OBVIOUS
<1>2. /\ IsFiniteSet(S) /\ L \in SUBSET S /\ IsFiniteSet(L) /\ Cardinality(L) \in Nat
  <2>1. S \subseteq 1 .. Len(toMaster) /\ Len(toMaster) \in Nat
    BY <1>0, <1>1, LenProperties DEF SentOf
  <2>2. IsFiniteSet(1 .. Len(toMaster))
    BY <2>1, FS_Interval
  <2>3. IsFiniteSet(S)
    BY <2>1, <2>2, FS_Subset
  <2>4. L \in SUBSET S
    BY <1>1 DEF SentOf, Messages
  <2>5. QED
    BY <2>3, <2>4, FS_Subset, FS_CardinalityType
<1>3. PICK w : \A n \in S : w[n] = Weight(n)
  <2> WITNESS [n \in S |-> Weight(n)]
  <2>1. QED
    OBVIOUS
<1>4. \A n \in S : \/ n \in L /\ Weight(n) = 1
                   \/ n \notin L /\ n \in Messages(toMaster, no, "created") /\ Weight(n) = m
                   \/ n \notin L /\ n \notin Messages(toMaster, no, "created") /\ Weight(n) = 0
  <2>1. \A n \in S : n \in DOMAIN toMaster /\ toMaster[n].roomNo = no
                     /\ toMaster[n].type \in {"created", "closed", "left"}
    <3>1. \A n \in DOMAIN toMaster : toMaster[n] \in Message
      BY <1>0, LenProperties
    <3>2. QED
      BY <1>1, <3>1 DEF SentOf, Message
  <2>2. \A n \in S : toMaster[n].type = "closed" => toMaster[n].places = 0
    BY <2>1 DEF AdmitInv, ClosedOfferNothing
  <2>3. \A n \in Messages(toMaster, no, "created") : toMaster[n].places = m
    BY DEF Announces
  <2>4. QED
    BY <1>1, <2>1, <2>2, <2>3 DEF Messages, Weight
<1>5. PICK k : /\ k \notin L
               /\ \A n \in Messages(toMaster, no, "created") : n = k
               /\ Messages(toMaster, no, "created") = {} => k \notin S
               /\ Messages(toMaster, no, "created") # {} => k \in Messages(toMaster, no, "created")
  <2>1. CASE Messages(toMaster, no, "created") = {}
    <3>1. 0 \notin S /\ 0 \notin L
      BY <1>0, <1>1, LenProperties DEF SentOf, Messages
    <3>2. QED
      BY <2>1, <3>1
  <2>2. CASE Messages(toMaster, no, "created") # {}
    BY <2>2, <1>1 DEF Messages, AdmitInv, AnnouncedOnce
  <2>3. QED
    BY <2>1, <2>2
<1>6. Weighs(w, S, L, k, m)
  BY <1>3, <1>4, <1>5 DEF Weighs
<1>7. SentSum(no)[SentOf(no)] = Cardinality(L) + IF k \in S THEN m ELSE 0
  BY <1>2, <1>5, <1>6, SumOfPlaces, <1>1, <1>3, SentAdded
<1>8. PICK E : E = ListedOf(no)
  OBVIOUS
<1>9. PICK e : \A d \in E : d = e
  BY <1>8 DEF AdmitInv, AnnouncedOnce
<1>10. E \subseteq {e} /\ IsFiniteSet(E)
  <2>1. E \in SUBSET {e} /\ IsFiniteSet({e})
    BY <1>9, FS_Singleton
  <2>2. QED
    BY <2>1, FS_Subset
<1>11. \A d \in E : d.places = m
  BY <1>8 DEF Announces
<1>12. ListedSum(no)[ListedOf(no)] = IF e \in E THEN m ELSE 0
  <2>1. PICK v : \A d \in E : v[d] = d.places
    <3> WITNESS [d \in E |-> d.places]
    <3>1. QED
      OBVIOUS
  <2>2. PICK Z : Z = {}
    OBVIOUS
  <2>3. PICK g : AddsUp(g, v, E) /\ g[E] = Cardinality(Z) + IF e \in E THEN m ELSE 0
    <3>1. Z \in SUBSET E
      BY <2>2
    <3>2. e \notin Z
      BY <2>2
    <3>3. m \in Int
      BY <1>0
    <3>4. Weighs(v, E, Z, e, m)
      BY <1>9, <1>11, <2>1, <2>2 DEF Weighs
    <3>5. IsFiniteSet(E)
      BY <1>10
    <3>6. QED
      BY <3>1, <3>2, <3>3, <3>4, <3>5, SumOfPlaces
  <2>4. g[E] = IF e \in E THEN m ELSE 0
    BY <2>2, <2>3, FS_EmptySet
  <2>5. QED
    BY <1>8, <1>10, <2>1, <2>3, <2>4, ListedAdded
<1>13. Offered(no) = (IF e \in E THEN m ELSE 0) + (Cardinality(L) + IF k \in S THEN m ELSE 0)
  BY <1>7, <1>12, OfferedSums
<1>14. ~(e \in E /\ k \in S)
  BY <1>5, <1>8 DEF AdmitInv, AnnouncedOnce
<1>15. QED
  BY <1>1, <1>2, <1>13, <1>14

(* The invariant says what the property does.                              *)
LEMMA AdmitSound ==
    ASSUME TypeOK, AdmitInv
    PROVE  PlacesNotOverbooked /\ AdmissionNeverFails
<1>1. ASSUME NEW i \in Index, room[i].status = "Wait", ~room[i].bReady
      PROVE  Offered(room[i].roomNo) + room[i].curUser
               + Cardinality({p \in Player : ticket[p] = room[i].roomNo}) <= MaxRoomPlayer
  <2>1. PICK no \in RoomNo : no = room[i].roomNo /\ no # NoRoomNo
    BY <1>1 DEF TypeOK, RoomRec, AdmitInv, Numbered
  <2>2. PICK m \in Nat : Announces(no, m) /\ Used(i, no, m) <= MaxRoomPlayer
    BY <1>1, <2>1 DEF AdmitInv, PlacesAt, Open
  <2>3. /\ Cardinality(Messages(toMaster, no, "left")) \in Nat /\ Cardinality(Returning(no)) \in Nat
        /\ Cardinality(Holders(no)) \in Nat
        /\ room[i].curUser \in Int /\ MaxRoomPlayer \in Int
    BY <2>1, PlacesCounted, FS_CardinalityType, BattleRoomAssumption
    DEF TypeOK, RoomRec, AdmitInv, HoldersFinite
  <2>4. Offered(no) \in Int /\ Offered(no) <= m + Cardinality(Messages(toMaster, no, "left"))
    BY <2>2, OfferedCounted
  <2>5. Offered(no) + room[i].curUser + Cardinality(Holders(no)) <= MaxRoomPlayer
    BY <2>2, <2>3, <2>4 DEF Used
  <2>6. QED
    BY <2>1, <2>5 DEF Holders
<1>2. PlacesNotOverbooked
  BY <1>1 DEF PlacesNotOverbooked
<1>3. QED
  BY <1>2 DEF AdmitInv

(* When nothing is lost on the way to the master, no room is overbooked    *)
(* and no client that was sent to one is turned away: for any number of    *)
(* rooms, players and places, with both threads taking players out.        *)
THEOREM AdmissionSoundAlways == MCSpec => []AdmissionSound
<1> DEFINE Admit == reliable => AdmitInv
<1>1. MCInit => Admit
  BY AdmitInit DEF MCInit
<1>2. MCSpec => Spec
  <2>1. MCInit => Init
    BY DEF MCInit
  <2>2. [MCNext]_<<vars, reliable>> => [Next]_vars
    BY DEF MCNext
  <2>3. QED
    BY <2>1, <2>2, PTL DEF MCSpec, Spec
<1>3. IInv /\ IInv' /\ Admit /\ [MCNext]_<<vars, reliable>> => Admit'
  <2>1. ASSUME IInv, IInv', Admit, MCNext, reliable' PROVE AdmitInv'
    BY <2>1, AdmitNext DEF MCNext, Reliable
  <2>2. ASSUME IInv, IInv', Admit, UNCHANGED <<vars, reliable>>, reliable' PROVE AdmitInv'
    BY <2>2, CalmStep, AdmitCalm DEF vars, roomVars, clientVars, netVars, envVars, RoomKept, Open,
       IInv
  <2>3. QED
    BY <2>1, <2>2
<1>4. IInv /\ Admit => AdmissionSound
  BY AdmitSound DEF IInv, AdmissionSound
<1>5. QED
  BY <1>1, <1>2, <1>3, <1>4, Inductive, PTL DEF MCSpec
=============================================================================
