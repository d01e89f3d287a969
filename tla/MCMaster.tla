------------------------------ MODULE MCMaster ------------------------------
(* Instances of Master for TLC.  One run explores two of them, told apart  *)
(* by serial: one worker with two battle servers and larger rooms, where   *)
(* handlers do not interleave, and two workers with one battle server,     *)
(* where they interleave at every lock region.                             *)
EXTENDS Master, TLC

CONSTANTS m1, b1, b2, k1, k2, a1, o1, o2, p1, p2

VARIABLE serial  \* is there one worker

OneAccount  == [k \in Key |-> a1]
PoolSymmetry == Permutations(Room) \cup Permutations(Session)

Serial   == Cardinality(Busy') <= 1 /\ \A o \in Room : room'[o].roomNo <= 1
Parallel == b2 \notin serverList' /\ curBattleID' <= 1 /\ \A o \in Room : room'[o].maxUser <= 1

MCNext == /\ Next /\ UNCHANGED serial
          /\ serial => Serial
          /\ ~serial => Parallel
MCInit == Init /\ serial \in BOOLEAN
MCSpec == MCInit /\ [][MCNext]_<<vars, serial>>

LeaveInit == Init /\ serial = TRUE

(* A worker that took a packet runs its handler to the end.                *)
LeaveSpec == /\ LeaveInit /\ [][MCNext]_<<vars, serial>>
             /\ \A c \in Conn : WF_vars(Handler(c))

(* What a pool object holds while neither a list nor a handler refers to it*)
(* is overwritten before anything reads it: states that differ there only  *)
(* are one state to TLC.                                                   *)
HeldRooms    == roomList \cup {task[c].room : c \in Conn}
HeldSessions == {sessionMap[k] : k \in Key} \cup {task[c].session : c \in Conn}
PoolView ==
    <<serial, serverVars, roomList, roomLock, sessionMap, freeSession, task, crash, envVars,
      [o \in Room |-> IF o \in HeldRooms THEN room[o] ELSE EmptyRoom],
      [p \in Session |-> IF p \in HeldSessions THEN session[p] ELSE NewSession(NoKey)]>>

(* When handlers run one at a time, no place of a room is given out twice, *)
(* and no session outlives its room.                                       *)
PlacesSound == serial => SlotsNotOverbooked /\ SessionHasListedRoom
=============================================================================
