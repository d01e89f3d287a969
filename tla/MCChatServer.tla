---------------------------- MODULE MCChatServer ----------------------------
(* A small instance of ChatServer: two slots, in which rooms follow each   *)
(* other while the link is lost or the chat server starts again.           *)
EXTENDS ChatServer

CONSTANT MaxEntry   \* bound on the entries of all lists and the requests to enter

(* Few packets at a time; either a loss of the link or a restart, or a     *)
(* second slot, or a second client (who enters the only room there is).    *)
(* Clients come for rooms, and log in once; memory is fresh only for a     *)
(* first client.                                                           *)
(*                                                                         *)
(* What fairness asks for is never forbidden for good, so that no fair     *)
(* behaviour is cut off: a full queue can be emptied, or wakes the thread; *)
(* and what the battle server has begun to send it sends, though the chat  *)
(* server, once it has crashed, does nothing but start again.              *)
Limits ==
    /\ \/ Len(msgQueue') <= 2 \/ Len(msgQueue') < Len(msgQueue) \/ thread = "asleep"
    /\ Len(toChat') <= 2 \/ crash /= "none"
    /\ LET second == room'[2].roomNo /= 0
       IN  \/ drops' = 0 /\ ~second /\ curRoomID' <= 1
           \/ arrived' <= 1 /\ (drops' = 0 \/ ~second)
    /\ arrived' > arrived => roomMap /= <<>>
    /\ \A i \in DOMAIN msgQueue' : LET msg == msgQueue'[i] IN
          msg.type = "LOGIN" => msg.client \in DOMAIN playerMap /\ playerMap[msg.client].accountNo = 0
    /\ FoldFunctionOnSet(LAMBDA r, n : n + Len(r.playerList), 0, roomMap', DOMAIN roomMap')
          + Cardinality({i \in DOMAIN msgQueue' : msgQueue'[i].type = "ENTER"}) <= MaxEntry
    /\ (\E c \in DOMAIN playerMap' : playerMap'[c].bEnter /\ playerMap'[c].roomNo = 0)
          => curRoomID' <= 1 /\ drops' = 0 /\ arrived' <= 1
    /\ crash = "none" \/ drops' > drops \/ Open_Room_Send \/ Update_Room_End_Send

MCNext == Next /\ Limits
MCSpec == Init /\ [][MCNext]_vars /\ Fairness
=============================================================================
