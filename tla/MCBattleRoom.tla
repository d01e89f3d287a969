---------------------------- MODULE MCBattleRoom ----------------------------
(* Instances of BattleRoom for TLC.  One run explores two of them, told    *)
(* apart by reliable: three clients for two places, where nothing is lost, *)
(* and two clients, where the link to the master is lost once or a client  *)
(* once reported lost that still comes.                                    *)
EXTENDS BattleRoom, TLC

CONSTANTS p1, p2, p3

VARIABLE reliable

PlayerSymmetry == Permutations(Player)

Comes(p) == ticket'[p] # NoRoomNo \/ player'[p] # NewPlayer

Reliable   == drops' = 0 /\ losses' = 0
Unreliable == /\ drops' + losses' <= 1
              /\ Cardinality({p \in Player : Comes(p)}) <= 2
              /\ \A i \in Index : room'[i].roomNo.id <= 1

MCNext == /\ Next /\ UNCHANGED reliable
          /\ IF reliable THEN Reliable ELSE Unreliable
MCInit == Init /\ reliable \in BOOLEAN
MCSpec == MCInit /\ [][MCNext]_<<vars, reliable>>

(* InitRoom overwrites what a closed room holds, Accept_Complete the flags *)
(* of a free session: states that differ there only are one state to TLC.  *)
RoomView ==
    <<reliable, [i \in Index |-> IF room[i].status = "Close" THEN InitRoom(NoRoomNo, "Close")
                       ELSE room[i]],
      [p \in Player |-> IF player[p].mode = "NONE"
                        THEN [NewPlayer EXCEPT !.isDead = player[p].isDead]
                        ELSE player[p]],
      indexQueue, curOpenRoom, task, clientVars, netVars, envVars, crash>>

(* When nothing is lost, no place is announced twice and no client is sent *)
(* to a room that cannot take it, though both threads take players out.    *)
(* (Request_EnterRoom, Request_Character_LeavePlayer)                      *)
AdmissionSound == TypeOK /\ (reliable => PlacesNotOverbooked /\ AdmissionNeverFails)
=============================================================================
