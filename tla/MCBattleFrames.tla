--------------------------- MODULE MCBattleFrames ---------------------------
(* Instances of BattleFrames for TLC. *)
EXTENDS BattleFrames

CONSTANTS p1, p2

OneSession  == <<p1>>
TwoSessions == <<p1, p2>>

(* A room that is full starts, a game that is decided ends, and a room that*)
(* has ended is closed. (Update_Room_Ready, Update_Room_Play,              *)
(* Update_Room_End)                                                        *)
RoomsRunTheirCourse == FullRoomStarts /\ LastSurvivorEndsGame /\ EndedRoomCloses
=============================================================================
