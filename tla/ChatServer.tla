----------------------------- MODULE ChatServer -----------------------------
(***************************************************************************)
(* The chat server (src/Source/Chat) and its link to the battle server     *)
(* (CBattleSnake_Battle_LanServer.cpp).  The battle server tells the chat  *)
(* server which rooms there are; clients enter the chat of a room over     *)
(* connections of their own.  In the chat server everything goes through   *)
(* one queue to one message thread, which alone touches rooms and players; *)
(* WakeConditionVariable is called without the thread's lock.  In the      *)
(* battle server the Auth thread opens rooms, the Game thread closes them, *)
(* and a worker tells a chat server that logs in of the rooms there are,   *)
(* all without a lock.                                                     *)
(*                                                                         *)
(* A room number stands for its token too: who knows one knows both.       *)
(* CBattleSnake_Battle_LanServer is configured for one client: the link is *)
(* accepted again only after OnClientLeave.                                *)
(***************************************************************************)
EXTENDS Integers, Sequences, FiniteSets, SequencesExt

CONSTANTS
    MaxRoom,         \* _maxRoom
    DefaultWaitRoom, \* _defaultWaitRoom
    MaxRoomID,       \* bound on the rooms opened; none gets a number again
    MaxClient,       \* bound on the clients of the chat server
    MaxDrop          \* bound on losses of the link and restarts of the chat server

ASSUME ChatServerAssumption ==
    MaxRoom \in Nat /\ DefaultWaitRoom \in Nat /\ MaxRoomID \in Nat
    /\ MaxClient \in Nat /\ MaxDrop \in Nat

VARIABLES
    room,        \* _roomArray of the battle server
    curRoomID,   \* _curRoomID
    auth, game,  \* what the Auth and the Game thread are doing
    bLogin,      \* _chatServer.bLogin
    login,       \* the slot a chat server that logs in is told of next; 0: none
    peer,        \* has CBattleSnake_Battle_LanServer the link's connection
    link,        \* is the chat server connected
    asked,       \* its login request is under way
    toChat,      \* packets under way to it
    roomMap,     \* _roomMap of the chat server
    playerMap,   \* _playerMap
    connectToken,\* has it been told _connectToken
    msgQueue,    \* _msgQueue
    thread,      \* the message thread
    client,      \* the clients and their connections
    arrived, drops,  \* how many clients came, how often the link was lost
    crash,       \* why the chat server crashed, or "none"
    (* History: the rooms the chat server was told of over this link, what *)
    (* it was told wrongly, and the clients whose places are not exact.    *)
    told, wrong, again

battleVars == <<room, curRoomID, auth, game, bLogin, login, peer>>
linkVars   == <<link, asked, toChat, told, wrong>>
chatVars   == <<roomMap, playerMap, connectToken, again>>
vars == <<battleVars, linkVars, chatVars, msgQueue, thread, client, arrived, drops, crash>>

Slot   == 1 .. MaxRoom
RoomID == 1 .. MaxRoomID
Client == 1 .. MaxClient

(* Play: full, or playing.                                                 *)
Room_Status == {"Close", "Wait", "Play", "End"}

(* A client has one packet under way.                                      *)
ClientRec == [conn : {"none", "up", "shut", "gone"}, busy : BOOLEAN]
PlayerRec == [accountNo : Client \cup {0}, bEnter : BOOLEAN, roomNo : RoomID \cup {0}]
RoomRec   == [curUser : Int, playerList : Seq(Client)]
Message   == [type : {"JOIN", "LEAVE", "LOGIN", "ENTER", "CHAT"}, client : Client, room : RoomID \cup {0}]
             \cup [type : {"CREATE", "DELETE"}, room : RoomID]
             \cup [type : {"TOKEN", "DISCONNECTED"}]

Init ==
    /\ room = [s \in Slot |-> [status |-> "Close", roomNo |-> 0]]
    /\ curRoomID = 0 /\ auth = "idle" /\ game = 0
    /\ bLogin = FALSE /\ login = 0 /\ peer = FALSE
    /\ link = FALSE /\ asked = FALSE /\ toChat = <<>>
    /\ roomMap = <<>> /\ playerMap = <<>> /\ connectToken = FALSE
    /\ msgQueue = <<>> /\ thread = "test"
    /\ client = [c \in Client |-> [conn |-> "none", busy |-> FALSE]]
    /\ arrived = 0 /\ drops = 0 /\ crash = "none"
    /\ told = {} /\ wrong = {} /\ again = {}

Open == {room[s].roomNo : s \in {t \in Slot : room[t].status /= "Close"}}
Waiting == {s \in Slot : room[s].status = "Wait"}

-----------------------------------------------------------------------------
(* The battle server.  sendPacket drops what it has no connection for.     *)

Send(msg) == toChat' = IF link THEN Append(toChat, msg) ELSE toChat

Send_CreateRoom(no) ==
    /\ Send([type |-> "CREATE", room |-> no])
    /\ told' = IF link THEN told \cup {no} ELSE told
    /\ wrong' = IF link /\ no \in told THEN wrong \cup {"twice"} ELSE wrong

Send_CloseRoom(no) ==
    /\ Send([type |-> "DELETE", room |-> no])
    /\ told' = told \ {no}
    /\ wrong' = IF link /\ no \notin told THEN wrong \cup {"unknown"} ELSE wrong

(* Update_RoomCount looks once whether the chat server is logged in, and   *)
(* opens rooms until enough of them wait.  (That the master server is too  *)
(* is left open.)                                                          *)
Update_RoomCount ==
    /\ auth = "idle" /\ bLogin
    /\ auth' = "loop"
    /\ UNCHANGED <<room, curRoomID, game, bLogin, login, peer, linkVars, chatVars, msgQueue,
                   thread, client, arrived, drops, crash>>

Open_Room(s) ==
    /\ auth = "loop" /\ Cardinality(Waiting) < DefaultWaitRoom
    /\ room[s].status = "Close" /\ game /= s
    /\ curRoomID < MaxRoomID
    /\ curRoomID' = curRoomID + 1
    /\ room' = [room EXCEPT ![s] = [status |-> "Wait", roomNo |-> curRoomID + 1]]
    /\ auth' = "send"
    /\ UNCHANGED <<game, bLogin, login, peer, linkVars, chatVars, msgQueue,
                   thread, client, arrived, drops, crash>>

Open_Room_Send ==
    /\ auth = "send"
    /\ Send_CreateRoom(curRoomID)
    /\ auth' = "loop"
    /\ UNCHANGED <<room, curRoomID, game, bLogin, login, peer, link, asked, chatVars, msgQueue,
                   thread, client, arrived, drops, crash>>

Update_RoomCount_End ==
    /\ auth = "loop"
    /\ \/ Cardinality(Waiting) >= DefaultWaitRoom \/ curRoomID = MaxRoomID
       \/ \A s \in Slot : room[s].status /= "Close" \/ game = s
    /\ auth' = "idle"
    /\ UNCHANGED <<room, curRoomID, game, bLogin, login, peer, linkVars, chatVars, msgQueue,
                   thread, client, arrived, drops, crash>>

(* A room fills, or its game ends (see BattleRoom).                        *)
Update_Room(s) ==
    /\ \/ room[s].status = "Wait" /\ auth /= "send"
          /\ room' = [room EXCEPT ![s].status = "Play"]
       \/ room[s].status = "Play"
          /\ room' = [room EXCEPT ![s].status = "End"]
    /\ UNCHANGED <<curRoomID, auth, game, bLogin, login, peer, linkVars, chatVars, msgQueue,
                   thread, client, arrived, drops, crash>>

Update_Room_End(s) ==
    /\ game = 0 /\ room[s].status = "End"
    /\ room' = [room EXCEPT ![s].status = "Close"]
    /\ game' = s
    /\ UNCHANGED <<curRoomID, auth, bLogin, login, peer, linkVars, chatVars, msgQueue,
                   thread, client, arrived, drops, crash>>

Update_Room_End_Send ==
    /\ game /= 0
    /\ Send_CloseRoom(room[game].roomNo)
    /\ game' = 0
    /\ UNCHANGED <<room, curRoomID, auth, bLogin, login, peer, link, asked, chatVars, msgQueue,
                   thread, client, arrived, drops, crash>>

(* The login request comes: Receive_ChatResponse_Login sends the token and *)
(* goes through the rooms; then the chat server is logged in.              *)
Request_Chat_Login ==
    /\ peer /\ asked
    /\ asked' = FALSE
    /\ login' = 1
    /\ Send([type |-> "TOKEN"])
    /\ UNCHANGED <<room, curRoomID, auth, game, bLogin, peer, link, told, wrong, chatVars,
                   msgQueue, thread, client, arrived, drops, crash>>

Receive_ChatResponse_Login ==
    /\ login \in Slot
    /\ IF room[login].status \in {"Wait", "Play"}
       THEN Send_CreateRoom(room[login].roomNo)
       ELSE UNCHANGED <<toChat, told, wrong>>
    /\ login' = login + 1
    /\ UNCHANGED <<room, curRoomID, auth, game, bLogin, peer, link, asked, chatVars,
                   msgQueue, thread, client, arrived, drops, crash>>

Request_Chat_Login_End ==
    /\ login > MaxRoom
    /\ login' = 0
    /\ bLogin' = TRUE
    /\ UNCHANGED <<room, curRoomID, auth, game, peer, linkVars, chatVars,
                   msgQueue, thread, client, arrived, drops, crash>>

Battle_OnClientLeave ==
    /\ peer /\ ~link /\ login = 0
    /\ bLogin' = FALSE /\ peer' = FALSE /\ asked' = FALSE
    /\ UNCHANGED <<room, curRoomID, auth, game, login, link, toChat, told, wrong, chatVars,
                   msgQueue, thread, client, arrived, drops, crash>>

-----------------------------------------------------------------------------
(* The chat server: what comes in over its connections.                    *)

Enqueue(msg) ==
    /\ msgQueue' = Append(msgQueue, msg)
    /\ thread' = IF thread = "asleep" THEN "test" ELSE thread

(* The monitor thread connects; OnEnterJoinServer, and OnClientJoin on the *)
(* other side.                                                             *)
Connect_Chat_LanClient ==
    /\ crash = "none" /\ ~link /\ ~peer
    /\ link' = TRUE /\ peer' = TRUE /\ asked' = TRUE
    /\ toChat' = <<>> /\ told' = {}
    /\ UNCHANGED <<room, curRoomID, auth, game, bLogin, login, wrong, chatVars, msgQueue,
                   thread, client, arrived, drops, crash>>

(* OnRecv of the lan client.                                               *)
Receive_BattleRequest ==
    /\ crash = "none" /\ toChat /= <<>>
    /\ Enqueue(Head(toChat))
    /\ toChat' = Tail(toChat)
    /\ UNCHANGED <<battleVars, link, asked, told, wrong, chatVars, client, arrived, drops, crash>>

(* The link is lost with what was under way to the chat server; its login  *)
(* request may still arrive.                                               *)
OnLeaveServer ==
    /\ crash = "none" /\ link
    /\ drops < MaxDrop /\ drops' = drops + 1
    /\ link' = FALSE /\ toChat' = <<>>
    /\ Enqueue([type |-> "DISCONNECTED"])
    /\ UNCHANGED <<battleVars, asked, told, wrong, chatVars, client, arrived, crash>>

OnClientJoin(c) ==
    /\ crash = "none"
    /\ c = arrived + 1 /\ arrived' = c
    /\ client' = [client EXCEPT ![c].conn = "up"]
    /\ Enqueue([type |-> "JOIN", client |-> c, room |-> 0])
    /\ UNCHANGED <<battleVars, linkVars, chatVars, drops, crash>>

(* A client may send anything, and enter a room while it is in one.  It    *)
(* knows of rooms that were opened.                                        *)
OnRecv(c, type, no) ==
    /\ crash = "none"
    /\ client[c].conn = "up" /\ ~client[c].busy
    /\ no \in IF type = "ENTER" THEN 1 .. curRoomID ELSE {0}
    /\ client' = [client EXCEPT ![c].busy = TRUE]
    /\ Enqueue([type |-> type, client |-> c, room |-> no])
    /\ UNCHANGED <<battleVars, linkVars, chatVars, arrived, drops, crash>>

PeerClose(c) ==
    /\ client[c].conn = "up"
    /\ client' = [client EXCEPT ![c].conn = "shut"]
    /\ UNCHANGED <<battleVars, linkVars, chatVars, msgQueue, thread, arrived, drops, crash>>

OnClientLeave(c) ==
    /\ crash = "none"
    /\ client[c].conn = "shut"
    /\ client' = [client EXCEPT ![c] = [conn |-> "gone", busy |-> FALSE]]
    /\ Enqueue([type |-> "LEAVE", client |-> c, room |-> 0])
    /\ UNCHANGED <<battleVars, linkVars, chatVars, arrived, drops, crash>>

-----------------------------------------------------------------------------
(* The message thread.                                                     *)

Disconnect_None(cs, conns) == conns
Disconnect(cs, conns) ==
    [c \in Client |-> [conns[c] EXCEPT !.conn = IF c \in cs /\ @ = "up" THEN "shut" ELSE @]]

Answered(c) == [client EXCEPT ![c].busy = FALSE]

Listed(nos) == UNION {ToSet(roomMap[no].playerList) : no \in nos}

(* A list may hold players that were freed.  Their memory is the pool's,   *)
(* or that of a client who came later.                                     *)
Heirs(cs) == {d \in DOMAIN playerMap : \E c \in cs \ DOMAIN playerMap : c < d}

(* Clear_Room for each of the rooms, and Free_Room.                        *)
ClearEnter_Never(p) == p
ClearEnter(p) == [p EXCEPT !.bEnter = FALSE]

Clear_Rooms(nos) ==
    \E heirs \in SUBSET Heirs(Listed(nos)) :
        LET out == Listed(nos) \cup heirs IN
        /\ roomMap' = [no \in DOMAIN roomMap \ nos |-> roomMap[no]]
        /\ playerMap' = [c \in DOMAIN playerMap |->
                            IF c \in out THEN ClearEnter(playerMap[c]) ELSE playerMap[c]]
        /\ client' = Disconnect(out, client)
        /\ again' = again \cup heirs

Free_Player(c) == playerMap' = [d \in DOMAIN playerMap \ {c} |-> playerMap[d]]

(* Whether the player is in a room already is not looked at.               *)
AddPlayer_Room(c, no) ==
    /\ roomMap' = [roomMap EXCEPT ![no] = [curUser |-> @.curUser + 1,
                                           playerList |-> Append(@.playerList, c)]]
    /\ playerMap' = [playerMap EXCEPT ![c].roomNo = no, ![c].bEnter = TRUE]
    /\ again' = again \cup ({c} \cap Listed(DOMAIN roomMap))

(* DeletePlayer_Room counts the user off before it looks for it, and takes *)
(* one entry out of the list of the room entered last.                     *)
DeletePlayer_Room(c, no) ==
    roomMap' = IF no \in DOMAIN roomMap
               THEN [roomMap EXCEPT ![no] = [curUser |-> @.curUser - 1,
                                             playerList |-> RemoveFirst(@.playerList, c)]]
               ELSE roomMap

(* Alloc_Player initialises nothing: a player whose memory was not used    *)
(* before may be marked as entered, in no room there is (roomNo 0).        *)
Join(c) ==
    /\ \E bEnter \in BOOLEAN :
          playerMap' = [d \in DOMAIN playerMap \cup {c} |->
                           IF d = c THEN [accountNo |-> 0, bEnter |-> bEnter, roomNo |-> 0] ELSE playerMap[d]]
    /\ UNCHANGED <<roomMap, connectToken, again, client, crash>>

Leave(c) ==
    /\ IF playerMap[c].bEnter THEN DeletePlayer_Room(c, playerMap[c].roomNo) ELSE UNCHANGED roomMap
    /\ Free_Player(c)
    /\ UNCHANGED <<connectToken, again, client, crash>>

(* Whatever the token, the account is set; the status tells the client.    *)
Request_Player_Login(c) ==
    /\ playerMap' = [playerMap EXCEPT ![c].accountNo = c]
    /\ client' = Answered(c)
    /\ UNCHANGED <<roomMap, connectToken, again, crash>>

(* Another's account, or none yet: the account number, not the client, is  *)
(* disconnected, and there is no answer.                                   *)
Request_Player_EnterRoom_Refuse(c) ==
    /\ playerMap[c].accountNo /= c
    /\ UNCHANGED <<chatVars, client, crash>>

Request_Player_EnterRoom(c, no) ==
    /\ playerMap[c].accountNo = c
    /\ IF no \in DOMAIN roomMap THEN AddPlayer_Room(c, no) ELSE UNCHANGED <<roomMap, playerMap, again>>
    /\ client' = Answered(c)
    /\ UNCHANGED <<connectToken, crash>>

(* Without a room, with another's account or a length that does not fit,   *)
(* the sender has to go (as for a packet that is not understood).          *)
RoomGone_Free(c) == client' = Answered(c) /\ Free_Player(c)
RoomGone(c) == client' = Disconnect({c}, Answered(c)) /\ UNCHANGED playerMap

(* The message goes to playerList.                                         *)
Request_Player_SendChat(c) ==
    /\ \/ /\ playerMap[c].accountNo = c /\ playerMap[c].roomNo \in DOMAIN roomMap
          /\ client' = Answered(c) /\ UNCHANGED playerMap
       \/ RoomGone(c)
    /\ UNCHANGED <<roomMap, connectToken, again, crash>>

Alloc_Room(no) ==
    roomMap' = [n \in DOMAIN roomMap \cup {no} |->
                   IF n = no THEN [curUser |-> 0, playerList |-> <<>>] ELSE roomMap[n]]

Request_Server_CreateRoom(no) ==
    /\ IF no \in DOMAIN roomMap
       THEN crash' = "create" /\ UNCHANGED roomMap
       ELSE Alloc_Room(no) /\ UNCHANGED crash
    /\ UNCHANGED <<playerMap, connectToken, again, client>>

Request_Server_DeleteRoom(no) ==
    /\ IF no \in DOMAIN roomMap
       THEN Clear_Rooms({no}) /\ UNCHANGED crash
       ELSE crash' = "delete" /\ UNCHANGED <<roomMap, playerMap, again, client>>
    /\ UNCHANGED connectToken

Request_Server_ReissueToken ==
    /\ connectToken' = TRUE
    /\ UNCHANGED <<roomMap, playerMap, again, client, crash>>

Disconnected_Keep(nos) == {}
Disconnected(nos) == nos

Request_Server_Disconnected ==
    /\ Clear_Rooms(Disconnected(DOMAIN roomMap))
    /\ UNCHANGED <<connectToken, crash>>

Player_PacketProc(msg) ==
    \/ msg.type = "LOGIN" /\ Request_Player_Login(msg.client)
    \/ msg.type = "ENTER" /\ Request_Player_EnterRoom_Refuse(msg.client)
    \/ msg.type = "ENTER" /\ Request_Player_EnterRoom(msg.client, msg.room)
    \/ msg.type = "CHAT"  /\ Request_Player_SendChat(msg.client)
    \/ msg.type = "LEAVE" /\ Leave(msg.client)

(* A packet or a leave of a player that is not there: the null pointer is  *)
(* dereferenced for the log.                                               *)
NoPlayer(msg) ==
    /\ crash' = "player"
    /\ UNCHANGED <<chatVars, client>>

Handle(msg) ==
    \/ msg.type = "JOIN" /\ Join(msg.client)
    \/ /\ msg.type \in {"LOGIN", "ENTER", "CHAT", "LEAVE"}
       /\ IF msg.client \in DOMAIN playerMap THEN Player_PacketProc(msg) ELSE NoPlayer(msg)
    \/ msg.type = "CREATE" /\ Request_Server_CreateRoom(msg.room)
    \/ msg.type = "DELETE" /\ Request_Server_DeleteRoom(msg.room)
    \/ msg.type = "TOKEN"  /\ Request_Server_ReissueToken
    \/ msg.type = "DISCONNECTED" /\ Request_Server_Disconnected

Update_MessageThread ==
    /\ crash = "none" /\ thread = "test" /\ msgQueue /= <<>>
    /\ Handle(Head(msgQueue))
    /\ msgQueue' = Tail(msgQueue)
    /\ UNCHANGED <<battleVars, linkVars, thread, arrived, drops>>

(* The queue was empty, and the thread goes to sleep: a wake-up in between *)
(* is lost.                                                                *)
Update_MessageThread_Empty ==
    /\ crash = "none" /\ thread = "test" /\ msgQueue = <<>>
    /\ thread' = "drowsy"
    /\ UNCHANGED <<battleVars, linkVars, chatVars, msgQueue, client, arrived, drops, crash>>

Update_MessageThread_Sleep ==
    /\ thread = "drowsy"
    /\ thread' = "asleep"
    /\ UNCHANGED <<battleVars, linkVars, chatVars, msgQueue, client, arrived, drops, crash>>

(* The chat server ends, crashed or not, and starts again.                 *)
Restart ==
    /\ drops < MaxDrop /\ drops' = drops + 1
    /\ link' = FALSE /\ toChat' = <<>>
    /\ roomMap' = <<>> /\ playerMap' = <<>> /\ connectToken' = FALSE
    /\ msgQueue' = <<>> /\ thread' = "test"
    /\ client' = [c \in Client |-> [conn |-> IF c <= arrived THEN "gone" ELSE "none",
                                    busy |-> FALSE]]
    /\ crash' = "none" /\ wrong' = {} /\ again' = {}
    /\ UNCHANGED <<battleVars, asked, told, arrived>>

Battle ==
    \/ Update_RoomCount \/ Open_Room_Send \/ Update_RoomCount_End \/ Update_Room_End_Send
    \/ \E s \in Slot : Open_Room(s) \/ Update_Room(s) \/ Update_Room_End(s)
    \/ Request_Chat_Login \/ Receive_ChatResponse_Login \/ Request_Chat_Login_End
    \/ Battle_OnClientLeave

MessageThread == Update_MessageThread \/ Update_MessageThread_Empty \/ Update_MessageThread_Sleep

Next ==
    \/ Battle
    \/ Connect_Chat_LanClient \/ Receive_BattleRequest \/ OnLeaveServer
    \/ \E c \in Client :
          \/ OnClientJoin(c) \/ PeerClose(c) \/ OnClientLeave(c)
          \/ \E type \in {"LOGIN", "ENTER", "CHAT"}, no \in RoomID \cup {0} : OnRecv(c, type, no)
    \/ MessageThread
    \/ Restart

Spec == Init /\ [][Next]_vars

(* Every thread goes on, and what was sent arrives while the link is up.   *)
(* Games may last, and nobody has to connect or to send anything.          *)
Fairness ==
    /\ WF_vars(Open_Room_Send) /\ WF_vars(Update_Room_End_Send)
    /\ WF_vars(Receive_BattleRequest)
    /\ \A c \in Client : WF_vars(OnClientLeave(c))
    /\ WF_vars(MessageThread)

FairSpec == Spec /\ Fairness

-----------------------------------------------------------------------------
(* Properties.                                                             *)

TypeOK ==
    /\ room \in [Slot -> [status : Room_Status, roomNo : RoomID \cup {0}]]
    /\ curRoomID \in 0 .. MaxRoomID
    /\ auth \in {"idle", "loop", "send"} /\ game \in Slot \cup {0}
    /\ bLogin \in BOOLEAN /\ login \in 0 .. MaxRoom + 1 /\ peer \in BOOLEAN
    /\ link \in BOOLEAN /\ asked \in BOOLEAN /\ connectToken \in BOOLEAN
    /\ toChat \in Seq(Message) /\ msgQueue \in Seq(Message)
    /\ DOMAIN roomMap \subseteq RoomID /\ \A no \in DOMAIN roomMap : roomMap[no] \in RoomRec
    /\ DOMAIN playerMap \subseteq Client /\ \A c \in DOMAIN playerMap : playerMap[c] \in PlayerRec
    /\ thread \in {"test", "drowsy", "asleep"}
    /\ client \in [Client -> ClientRec]
    /\ arrived \in 0 .. MaxClient /\ drops \in 0 .. MaxDrop
    /\ crash \in {"none", "create", "delete", "player"}
    /\ told \subseteq RoomID /\ wrong \subseteq {"twice", "unknown"} /\ again \subseteq Client

(* The two sides of being in a room agree: curUser counts the list, every  *)
(* player that is marked as entered is in the list of the room it has the  *)
(* number of, and whoever is in a list is there once, is still there, is   *)
(* marked and has that room's number -- through rooms closed under their   *)
(* players, a link lost and rooms announced again.  The entries, though    *)
(* never the counts, are left open for a client that enters a room while   *)
(* it is in one: its leave takes one entry only, and a player that was     *)
(* freed stays in a list; and for a client with the memory of such a       *)
(* player, which loses its mark when that list is cleared.                 *)
(* (AddPlayer_Room, DeletePlayer_Room, Clear_Room)                         *)
RoomListsExact ==
    /\ TypeOK
    /\ \A no \in DOMAIN roomMap :
          LET list    == roomMap[no].playerList
              members == {c \in DOMAIN playerMap : playerMap[c].bEnter /\ playerMap[c].roomNo = no}
          IN  /\ roomMap[no].curUser = Len(list)
              /\ members \subseteq ToSet(list) /\ ToSet(list) \ again \subseteq members
              /\ \A i, j \in DOMAIN list : list[i] = list[j] => i = j \/ list[i] \in again
    /\ \A c \in DOMAIN playerMap : playerMap[c].bEnter => playerMap[c].roomNo \in DOMAIN roomMap \cup {0}

(* A packet or a leave in the queue will find its player when its turn     *)
(* comes: the null pointer of Update_MessageThread is not dereferenced.    *)
PlayersKnown ==
    /\ crash /= "player"
    /\ \A i \in DOMAIN msgQueue : msgQueue[i].type \in {"LOGIN", "ENTER", "CHAT", "LEAVE"} =>
          LET before(type) == \E j \in 1 .. i - 1 : msgQueue[j].type = type /\ msgQueue[j].client = msgQueue[i].client
          IN  /\ msgQueue[i].client \in DOMAIN playerMap \/ before("JOIN")
              /\ ~before("LEAVE")

(* The rooms the chat server will have when it has handled what is under   *)
(* way: one that is to be created with nothing behind that ends it, or one *)
(* it has that nothing ends.                                               *)
Create(no) == [type |-> "CREATE", room |-> no]
Delete(no) == [type |-> "DELETE", room |-> no]
Ends(no)   == {Delete(no), [type |-> "DISCONNECTED"]}

RoomsAfter ==
    LET q == msgQueue \o toChat
    IN  {no \in RoomID :
            \/ \E i \in DOMAIN q : /\ q[i] = Create(no)
                                   /\ \A j \in DOMAIN q : j > i => q[j] \notin Ends(no)
            \/ no \in DOMAIN roomMap /\ \A j \in DOMAIN q : q[j] \notin Ends(no)}

(* Unless it was told of a room twice, or to delete one it was not told of *)
(* (both happen, see the next property but one), the chat server has the   *)
(* rooms it was told of over this link and no others, whatever was lost    *)
(* before; it does not crash; and once it is logged in these are the rooms *)
(* of the battle server that wait or play, and at most some that have      *)
(* ended.                                                                  *)
RoomsMirrored ==
    wrong = {} =>
        /\ crash = "none"
        /\ RoomsAfter = IF link THEN told ELSE {}
        /\ link /\ bLogin /\ auth /= "send" /\ game = 0 =>
              /\ told \subseteq Open
              /\ {room[s].roomNo : s \in {t \in Slot : room[t].status \in {"Wait", "Play"}}} \subseteq told

(* Who is in a room that has closed, or whose link was lost, is gone       *)
(* before long, unless the chat server crashed or its thread sleeps over a *)
(* lost wake-up.  (Clear_Room)                                             *)
ClosedRoomsEmptied ==
    \A c \in Client :
        (/\ c \in DOMAIN playerMap /\ playerMap[c].bEnter /\ playerMap[c].roomNo /= 0
         /\ ~link \/ playerMap[c].roomNo \notin Open)
            ~> \/ c \notin DOMAIN playerMap
               \/ crash /= "none"
               \/ thread = "asleep" /\ msgQueue /= <<>>

(* The assertion of Request_Server_DeleteRoom: a room to be deleted is one *)
(* the chat server has.  A room that had ended, or ended before the chat   *)
(* server was logged in, is not.                                           *)
DeletedRoomsKnown == crash /= "delete"

=============================================================================
