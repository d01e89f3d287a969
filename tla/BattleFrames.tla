---------------------------- MODULE BattleFrames ----------------------------
(***************************************************************************)
(* The frames of the battle server's Auth and Game threads                 *)
(* (src/Source/Library/CMMOServer.cpp, Update_AuthThread and               *)
(* Update_GameUpdateThread): BattleRoom with the loops that visit every    *)
(* session and every room in turn, so that it can be said what must happen *)
(* in the end.  Forgetting turn gives a behaviour of BattleRoom.           *)
(***************************************************************************)
EXTENDS BattleRoom

CONSTANT SessionArray   \* _pSessionArray: the order of the sessions

ASSUME SessionArrayAssumption ==
    /\ SessionArray \in Seq(Player)
    /\ Player = {SessionArray[n] : n \in DOMAIN SessionArray}

VARIABLE turn           \* what each thread visits next

SessionCount == Len(SessionArray)
Turns        == 1 .. SessionCount + MaxRoom

AtSession(t, p) == turn[t] <= SessionCount /\ SessionArray[turn[t]] = p
AtRoom(t, i)    == turn[t] = SessionCount + 1 + i
NextTurn(t)     == turn' = [turn EXCEPT ![t] = IF @ = SessionCount + MaxRoom
                                               THEN 1 ELSE @ + 1]

FrameInit == Init /\ turn = [t \in Thread |-> 1]

-----------------------------------------------------------------------------
(* Auth_PacketProc, OnAuth_Update, Auth_LogoutProc and Auth_LeaveProc      *)
(* visit a session; which of them does something depends on its mode.      *)
Auth_Session(p) ==
    \/ Request_EnterRoom(p)
    \/ Request_EnterRoom_NoExistRoom(p)
    \/ Request_EnterRoom_Crash(p)
    \/ Auth_PacketProc_Logout(p)
    \/ Auth_LogoutProc(p)
    \/ Auth_LeaveProc(p)

(* A visit that finds work to do does it; packets may not have come yet.   *)
Auth_SessionIdle(p) ==
    /\ player[p].mode # "LOGOUT_IN_AUTH"
    /\ player[p].mode = "AUTH" => /\ ~player[p].bAuthToGame
                                  /\ player[p].bLogout => ~FrameStart

Auth_Room(i) == Update_Room_Wait(i) \/ Update_Room_Ready(i)

(* The timers of a room may not have run out.                              *)
Auth_Visit ==
    /\ \/ \E p \in Player : /\ AtSession("auth", p)
                            /\ \/ Auth_Session(p)
                               \/ /\ CanVisit("auth")
                                  /\ Auth_SessionIdle(p)
                                  /\ UNCHANGED vars
       \/ \E i \in Index : /\ AtRoom("auth", i)
                           /\ \/ Auth_Room(i)
                              \/ CanVisit("auth") /\ UNCHANGED vars
    /\ NextTurn("auth")

(* Update_RoomCount comes first in OnAuth_Update and loops by itself.      *)
Auth_Step ==
    /\ Leaving("auth") \/ (AtRoom("auth", 0) /\ Update_RoomCount)
    /\ UNCHANGED turn

Game_Session(p) ==
    \/ Game_AuthToGameProc(p)
    \/ Game_PacketProc_Logout(p)
    \/ Request_Character_HitDamage(p)
    \/ Game_LeaveProc(p)
    \/ Game_ReleaseProc(p)

Game_SessionIdle(p) ==
    /\ player[p].mode \notin {"AUTH_TO_GAME", "LOGOUT_IN_GAME", "WAIT_LOGOUT"}
    /\ player[p].mode = "GAME" => ~player[p].bLogout

Game_Room(i) == Update_Room_Play(i) \/ Update_Room_End(i)

Game_Visit ==
    /\ \/ \E p \in Player : /\ AtSession("game", p)
                            /\ \/ Game_Session(p)
                               \/ /\ CanVisit("game")
                                  /\ Game_SessionIdle(p)
                                  /\ UNCHANGED vars
       \/ \E i \in Index : /\ AtRoom("game", i)
                           /\ \/ Game_Room(i)
                              \/ /\ CanVisit("game")
                                 /\ room[i].status # "Play"
                                 /\ UNCHANGED vars
    /\ NextTurn("game")

Game_Step ==
    /\ Leaving("game") \/ HitDamage_Kill \/ Update_Room_Play_RedZone
                       \/ Update_Room_Play_Result
    /\ UNCHANGED turn

Update_AuthThread       == Auth_Visit \/ Auth_Step
Update_GameUpdateThread == Game_Visit \/ Game_Step

FrameNext ==
    \/ Update_AuthThread
    \/ Update_GameUpdateThread
    \/ (LanClient \/ Environment) /\ UNCHANGED turn

(* The threads never stop: whenever the other one is between two visits,   *)
(* each goes on.  Packets are delivered, a connection that was shut down is*)
(* lost in the end, and timers run out: a room that stays as it is is seen *)
(* again after its time.  Clients need do nothing and nobody need be hit.  *)
FrameSpec ==
    /\ FrameInit
    /\ [][FrameNext]_<<vars, turn>>
    /\ SF_<<vars, turn>>(Update_AuthThread)
    /\ SF_<<vars, turn>>(Update_GameUpdateThread)
    /\ WF_vars(LanClient)
    /\ WF_vars(Master_Handle)
    /\ WF_vars(\E p \in Player : player[p].bShutdown /\ ConnectionLost(p))
    /\ \A i \in Index :
         /\ SF_vars(Update_Room_Wait(i))
         /\ SF_vars(Update_Room_Ready(i))
         /\ SF_vars(Update_Room_End(i))

-----------------------------------------------------------------------------
(* Claimed by the comment at CBattleSnake_Battle_MMOServer.cpp:270: a room *)
(* that is full gets ready; it does not keep its players waiting for ever. *)
FullRoomStarts ==
    \A i \in Index :
        room[i].status = "Wait" /\ room[i].curUser = MaxRoomPlayer ~>
            \/ room[i].status # "Wait"
            \/ room[i].curUser # MaxRoomPlayer
            \/ crash # "none"

(* A game with one player left alive, or none, does not go on for ever     *)
(* (line 303), whichever thread took the others out.                       *)
LastSurvivorWins ==
    \A i \in Index :
        room[i].status = "Play" /\ Cardinality(Survivors(i)) <= 1 ~>
            room[i].status # "Play" \/ crash # "none"

(* A room whose game ended is closed and can be opened again, whatever its *)
(* players do.                                                             *)
EndedRoomCloses ==
    \A i \in Index : room[i].status = "End" ~> room[i].status # "End" \/ crash # "none"
=============================================================================
