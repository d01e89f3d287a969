----------------------------- MODULE HttpLogin ------------------------------
(***************************************************************************)
(* The message threads of the Match and the Battle server                  *)
(* (CBattleSnake_Match_Http.cpp, CBattleSnake_Battle_Http.cpp) and what    *)
(* they do to a client that logs in.  A login is one request to the        *)
(* account service at the Match server, and two at the Battle server,      *)
(* for the account and for the record; the last answer logs the player in. *)
(* A request that failed is put into the queue again.                      *)
(*                                                                         *)
(* side says which of the two servers this is: they share the library and  *)
(* the structure of the thread, not the code.  At the Match server each    *)
(* client has a session of its own, found under its key; at the Battle     *)
(* server one player object, Seat 1, serves one client after another.      *)
(***************************************************************************)
EXTENDS HttpAsync

CONSTANTS
    MaxClient,    \* bound on the clients, 1 .. MaxClient in order of arrival
    FailLimit,    \* failures before a client is disconnected: 3 and 20
    MaxLogin,     \* bound on the login packets of a client
    Side          \* the servers to look at, of {"Match", "Battle"}

ASSUME HttpLoginAssumption ==
    /\ MaxClient \in Nat \ {0}
    /\ FailLimit \in Nat
    /\ MaxLogin \in Nat
    /\ Side \subseteq {"Match", "Battle"}

VARIABLES
    side,         \* "Match" or "Battle"
    infoList,     \* _requestInfoList
    seat,         \* the sessions or players that clients have
    arrived       \* how many clients came so far

vars == <<httpVars, msgQueue, thread, faults, side, infoList, seat, arrived>>

Client == 1 .. MaxClient
ReqType == {"account", "contents", "update"}

(* clientID 0: nobody.  asked: how many login packets came; played: has it *)
(* ended a game.  History: answers counts the results sent to this client, *)
(* had holds its requests that were answered with success, excused what    *)
(* happened to it of the exceptions of LoginNeedsBothAnswers: a request    *)
(* was repeated twice, it logged in again, or an answer or a failure of    *)
(* another client (a stray) was counted for its object.                    *)
Exception == {"twice", "again", "stray"}
SeatRec == [clientID : Client \cup {0}, asked : Nat, played : BOOLEAN,
            failCount : Nat, selectCount : Nat, bSendLoginResult : BOOLEAN,
            bLogin : BOOLEAN, disconnect : BOOLEAN,
            answers : Nat, had : SUBSET ReqType, excused : SUBSET Exception]
EmptySeat == [clientID |-> 0, asked |-> 0, played |-> FALSE, failCount |-> 0,
              selectCount |-> 0, bSendLoginResult |-> FALSE, bLogin |-> FALSE,
              disconnect |-> FALSE, answers |-> 0, had |-> {}, excused |-> {}]

(* A request of the Battle server may name nobody (MessageThread_Fail): 0  *)
(* belongs to the first player object, whose clientID it is while it is    *)
(* free.                                                                   *)
Named == Client \cup {0}
Seat == IF side = "Match" THEN Client ELSE {1}
SeatOf(c) == IF side = "Match" THEN c ELSE 1
Present(c) == seat[SeatOf(c)].clientID = c
Own(c) == c # 0 /\ Present(c)
InfoOf(id) == {info \in infoList : info.requestID = id}

Init ==
    /\ HttpInit
    /\ side \in Side
    /\ infoList = {}
    /\ seat = [p \in Seat |-> EmptySeat]
    /\ arrived = 0

(* Send_Select_Account and its like put a SEND message into the queue.     *)
(* young: its 20 ms have not passed yet.                                   *)
Send_Message(c, req) == [type |-> "SEND", clientID |-> c, req |-> req, young |-> TRUE]

-----------------------------------------------------------------------------
(* Clients.                                                                *)

OnClientJoin ==
    LET c == arrived + 1 IN
    /\ arrived < MaxClient
    /\ seat[SeatOf(c)].clientID = 0
    /\ seat' = [seat EXCEPT ![SeatOf(c)].clientID = c, ![SeatOf(c)].answers = 0]
    /\ arrived' = c
    /\ UNCHANGED <<httpVars, msgQueue, thread, faults, side, infoList>>

(* Response_Session_Login: any result is passed on.                        *)
Receive_HttpRequest_SessionKey(s) == [s EXCEPT !.answers = @ + 1]

Response_Player_Login(s, ok) ==
    IF s.bSendLoginResult THEN s
    ELSE [s EXCEPT !.bSendLoginResult = TRUE, !.bLogin = ok, !.answers = @ + 1]

(* A login packet is taken however often it comes.  At the Battle server   *)
(* one that names the account of the first finds its own player and        *)
(* disconnects it; what it asks for is asked for all the same.             *)
Asks(s, itself) == [s EXCEPT !.asked = @ + 1, !.disconnect = @ \/ itself,
                             !.excused = @ \cup IF s.asked > 0 THEN {"again"} ELSE {}]

(* The wrong version or connect token is answered at once, without a       *)
(* request.                                                                *)
Request_Session_Login(c, right) ==
    /\ side = "Match"
    /\ IF right THEN Post(Send_Message(c, "account")) ELSE UNCHANGED <<msgQueue, thread>>
    /\ seat' = [seat EXCEPT ![c] =
                   IF right THEN Asks(@, FALSE)
                   ELSE Receive_HttpRequest_SessionKey(Asks(@, FALSE))]

(* Handled in AUTH mode only, that is not after a game.                    *)
Request_Player_Login(c, right) ==
    /\ side = "Battle" /\ ~seat[1].played
    /\ IF right
       THEN Enqueue(<<Send_Message(c, "account"), Send_Message(c, "contents")>>) /\ Wake
       ELSE UNCHANGED <<msgQueue, thread>>
    /\ \E itself \in BOOLEAN :
           /\ itself => seat[1].asked > 0
           /\ seat' = [seat EXCEPT ![1] =
                         IF right THEN Asks(@, itself)
                         ELSE Response_Player_Login(Asks(@, itself), FALSE)]

Login(c) ==
    /\ Present(c) /\ seat[SeatOf(c)].asked < MaxLogin
    /\ \E right \in BOOLEAN : Request_Session_Login(c, right) \/ Request_Player_Login(c, right)
    /\ UNCHANGED <<httpVars, faults, side, infoList, arrived>>

(* Response_Player_Record: once a game, here once a player.                *)
Response_Player_Record(c) ==
    /\ side = "Battle" /\ Present(c)
    /\ seat[1].bLogin /\ ~seat[1].played
    /\ Post(Send_Message(c, "update"))
    /\ seat' = [seat EXCEPT ![1].failCount = 0, ![1].played = TRUE]
    /\ UNCHANGED <<httpVars, faults, side, infoList, arrived>>

(* OnClientLeave frees the session.  OnGame_ClientRelease clears the       *)
(* player with InitPlayer before ReleaseSession takes its clientID (one    *)
(* step here): nothing is cleared for the next client, who finds what was  *)
(* counted in the meantime.                                                *)
InitPlayer_KeepCount(s) == [EmptySeat EXCEPT !.selectCount = s.selectCount]
InitPlayer(s) == EmptySeat

OnClientLeave(c) ==
    /\ Present(c)
    /\ seat' = [seat EXCEPT ![SeatOf(c)] = InitPlayer(@)]
    /\ UNCHANGED <<httpVars, msgQueue, thread, faults, side, infoList, arrived>>

-----------------------------------------------------------------------------
(* What an answer or a failure does to the seat of a client.               *)

Stray(own) == IF own THEN {} ELSE {"stray"}

Twice(s, twice) == [s EXCEPT !.excused = @ \cup IF twice THEN {"twice"} ELSE {}]

(* Disconnect does nothing to a free player.                               *)
Again(s, own) ==
    [s EXCEPT !.failCount = @ + 1,
              !.disconnect = @ \/ (s.clientID # 0 /\ s.failCount + 1 > FailLimit),
              !.excused = @ \cup Stray(own)]
Resends(s) == s.failCount + 1 <= FailLimit

(* Fail_HttpRequest: the request once more, until there were too many.     *)
(* The session of the Match server is found and used under the rules of    *)
(* Matchmaking.tla.  At the Battle server the client is compared (101)     *)
(* before the player is used (102-118): MessageThread_Fail is the rest.    *)
Fail_HttpRequest(c, req, twice, left) ==
    /\ seat' = IF Own(c)
               THEN [seat EXCEPT ![SeatOf(c)] =
                        IF side = "Match" THEN Again(Twice(@, twice), TRUE) ELSE Twice(@, twice)]
               ELSE seat
    /\ msgQueue' = Tail(msgQueue) \o left
                   \o IF side = "Match" /\ Own(c) /\ Resends(seat[SeatOf(c)])
                      THEN <<Send_Message(c, req)>> ELSE <<>>
    /\ thread' = IF side = "Battle" /\ Present(c)
                 THEN [pc |-> "failing", clientID |-> c, req |-> req]
                 ELSE thread

(* The second success of the two requests logs the player in.              *)
Receive_HttpRequest_Search(s, req, ok, own) ==
    LET marked  == [s EXCEPT !.excused = @ \cup Stray(own)]
        counted == [marked EXCEPT !.selectCount = @ + 1,
                                  !.had = IF own THEN @ \cup {req} ELSE @]
    IN IF ~ok THEN Response_Player_Login(marked, FALSE)
       ELSE IF counted.selectCount = 2 THEN Response_Player_Login(counted, TRUE)
       ELSE counted

-----------------------------------------------------------------------------
(* The message thread.  It holds the lock from the test of the queue to    *)
(* the end of the message, but nobody else takes it.                       *)

MessageThread_Empty ==
    /\ thread.pc = "check" /\ msgQueue = <<>>
    /\ thread' = [pc |-> "drowsy"]
    /\ UNCHANGED <<httpVars, msgQueue, faults, side, infoList, seat, arrived>>

MessageThread_Sleep ==
    /\ thread.pc = "drowsy"
    /\ thread' = [pc |-> "asleep"]
    /\ UNCHANGED <<httpVars, msgQueue, faults, side, infoList, seat, arrived>>

Receives(type) ==
    /\ thread.pc = "check" /\ msgQueue /= <<>>
    /\ Head(msgQueue).type = type

Done == msgQueue' = Tail(msgQueue) /\ UNCHANGED <<seat, thread>>

(* A SEND younger than 20 ms, or that finds no slot, goes to the end of    *)
(* the queue (it is taken to be old enough when it comes up again).  The   *)
(* Battle server drops it first if its player is gone.                     *)
MessageThread_PutBack ==
    LET msg == Head(msgQueue) IN
    /\ Receives("SEND")
    /\ side = "Match" \/ Present(msg.clientID)
    /\ msg.young \/ indexQueue = <<>>
    /\ msgQueue' = Append(Tail(msgQueue), [msg EXCEPT !.young = FALSE])
    /\ UNCHANGED <<httpVars, thread, faults, side, infoList, seat, arrived>>

MessageThread_Drop ==
    /\ Receives("SEND")
    /\ side = "Battle" /\ ~Present(Head(msgQueue).clientID)
    /\ Done
    /\ UNCHANGED <<httpVars, faults, side, infoList, arrived>>

(* When DirectRequestbyHttp fails the request fails here and, if the slot  *)
(* was released, a second time when its LEAVE comes up.                    *)
MessageThread_Send(how) ==
    LET msg  == Head(msgQueue)
        left == IF LeftAtOnce(how) THEN <<[type |-> "LEAVE", requestID |-> curID + 1]>>
                ELSE <<>>
    IN
    /\ Receives("SEND") /\ ~msg.young
    /\ side = "Match" \/ Present(msg.clientID)
    /\ DirectRequestbyHttp(how)
    /\ infoList' = infoList \cup
           {[requestID |-> curID + 1, slot |-> Head(indexQueue), clientID |-> msg.clientID,
             type |-> msg.req, bRecv |-> FALSE, late |-> FALSE]}
    /\ IF how = "connecting" THEN Done
       ELSE Fail_HttpRequest(msg.clientID, msg.req, LeftAtOnce(how), left)
    /\ UNCHANGED <<side, arrived>>

MarkReceived(id) ==
    infoList' = {IF info.requestID = id THEN [info EXCEPT !.bRecv = TRUE] ELSE info :
                 info \in infoList}

(* The Match server answers the session of the client, if it is there; it  *)
(* is found and used under the rules of Matchmaking.tla.                   *)
MessageThread_Recv_Match ==
    LET msg == Head(msgQueue) IN
    /\ side = "Match" /\ Receives("RECV")
    /\ MarkReceived(msg.requestID)
    /\ \E info \in InfoOf(msg.requestID) :
           IF msg.code = "error"
           THEN Fail_HttpRequest(info.clientID, info.type, FALSE, <<>>)
           ELSE /\ msgQueue' = Tail(msgQueue)
                /\ IF Present(info.clientID)
                   THEN seat' = [seat EXCEPT ![SeatOf(info.clientID)] =
                                    Receive_HttpRequest_SessionKey(@)]
                   ELSE UNCHANGED seat
                /\ UNCHANGED thread
    /\ UNCHANGED <<httpVars, faults, side, arrived>>

(* The Battle server finds the player (258) and then calls it (261): the   *)
(* object may have a new client by then.                                   *)
MessageThread_Recv_Battle ==
    LET msg == Head(msgQueue) IN
    /\ side = "Battle" /\ Receives("RECV")
    /\ MarkReceived(msg.requestID)
    /\ \E info \in InfoOf(msg.requestID) :
           IF msg.code = "error"
           THEN Fail_HttpRequest(info.clientID, info.type, FALSE, <<>>)
           ELSE /\ msgQueue' = Tail(msgQueue) /\ UNCHANGED seat
                /\ thread' = IF Present(info.clientID)
                             THEN [pc |-> "found", clientID |-> info.clientID,
                                   req |-> info.type, ok |-> msg.code = "ok"]
                             ELSE thread
    /\ UNCHANGED <<httpVars, faults, side, arrived>>

MessageThread_Answer ==
    /\ thread.pc = "found"
    /\ seat' = IF thread.req = "update" THEN seat
               ELSE [seat EXCEPT ![1] =
                       Receive_HttpRequest_Search(@, thread.req, thread.ok, Own(thread.clientID))]
    /\ thread' = [pc |-> "check"]
    /\ UNCHANGED <<httpVars, msgQueue, faults, side, infoList, arrived>>

(* It is the client that has the player now whose failures are counted and *)
(* for whom the request is sent again; nobody's while the player is free.  *)
MessageThread_Fail ==
    /\ thread.pc = "failing"
    /\ seat' = [seat EXCEPT ![1] = Again(@, Own(thread.clientID))]
    /\ msgQueue' = msgQueue \o IF Resends(seat[1])
                               THEN <<Send_Message(seat[1].clientID, thread.req)>> ELSE <<>>
    /\ thread' = [pc |-> "check"]
    /\ UNCHANGED <<httpVars, faults, side, infoList, arrived>>

Forget_Received(id) ==
    infoList' = {info \in infoList : info.requestID = id => ~info.bRecv}
Forget(id) == infoList' = infoList \ InfoOf(id)

MessageThread_Leave ==
    LET id == Head(msgQueue).requestID IN
    /\ Receives("LEAVE")
    /\ \E info \in InfoOf(id) :
           IF info.bRecv THEN Done
           ELSE Fail_HttpRequest(info.clientID, info.type, FALSE, <<>>)
    /\ Forget(id)
    /\ UNCHANGED <<httpVars, faults, side, arrived>>

(* Check_HeartBeat shuts down the slot of each request older than 20 s,    *)
(* that is here of each that was in the list at the last heartbeat.        *)
MessageThread_HeartBeat ==
    /\ Receives("HEARTBEAT")
    /\ Free_Session({i \in Slot : \E info \in infoList : info.late /\ info.slot = i})
    /\ infoList' = {[info EXCEPT !.late = TRUE] : info \in infoList}
    /\ Done
    /\ UNCHANGED <<indexQueue, curID, worker, faults, side, arrived>>

(* Send_Http_Heartbeat, every 10 s.  Bound: it comes when the message      *)
(* thread sleeps with messages waiting, or when something went wrong and   *)
(* the thread waits, for messages or for a slot; while one heartbeat is in *)
(* the queue the next only wakes the thread.                               *)
HeartbeatDue ==
    \/ thread.pc = "asleep" /\ msgQueue /= <<>>
    \/ faults > 0 /\ (thread.pc \in {"drowsy", "asleep"} \/ indexQueue = <<>>)

Send_Http_Heartbeat_NoWake ==
    /\ HeartbeatDue
    /\ \A m \in DOMAIN msgQueue : msgQueue[m].type /= "HEARTBEAT"
    /\ Enqueue(<<[type |-> "HEARTBEAT"]>>)
    /\ UNCHANGED <<httpVars, thread, faults, side, infoList, seat, arrived>>

Send_Http_Heartbeat ==
    /\ HeartbeatDue
    /\ IF \E m \in DOMAIN msgQueue : msgQueue[m].type = "HEARTBEAT"
       THEN Wake /\ UNCHANGED msgQueue
       ELSE Post([type |-> "HEARTBEAT"])
    /\ UNCHANGED <<httpVars, faults, side, infoList, seat, arrived>>

MessageThread ==
    \/ MessageThread_Empty
    \/ MessageThread_Sleep
    \/ MessageThread_PutBack
    \/ MessageThread_Drop
    \/ \E how \in {"connecting", "no_socket", "no_connect"} : MessageThread_Send(how)
    \/ MessageThread_Recv_Match
    \/ MessageThread_Recv_Battle
    \/ MessageThread_Answer
    \/ MessageThread_Fail
    \/ MessageThread_Leave
    \/ MessageThread_HeartBeat

Http == HttpNext /\ UNCHANGED <<side, infoList, seat, arrived>>

Next ==
    \/ OnClientJoin
    \/ \E c \in Client : Login(c) \/ OnClientLeave(c) \/ Response_Player_Record(c)
    \/ MessageThread
    \/ Send_Http_Heartbeat
    \/ Http

Spec == Init /\ [][Next]_vars

(* The threads run, posted operations complete, the heartbeat comes again, *)
(* and a client that was disconnected leaves.                              *)
Fairness ==
    /\ WF_vars(MessageThread)
    /\ WF_vars(Send_Http_Heartbeat)
    /\ \A w \in Worker : WF_vars(Http /\ Proceed(w))
    /\ \A i \in Slot : WF_vars(Http /\ \E w \in Worker : Complete(w, i))
    /\ \A c \in Client : WF_vars(seat[SeatOf(c)].disconnect /\ OnClientLeave(c))

FairSpec == Spec /\ Fairness

-----------------------------------------------------------------------------
(* Properties.                                                             *)

Message == [type : {"SEND"}, clientID : Named, req : ReqType, young : BOOLEAN]
           \cup [type : {"RECV"}, requestID : Nat, code : {"ok", "refused", "error"}]
           \cup [type : {"LEAVE"}, requestID : Nat]
           \cup [type : {"HEARTBEAT"}]

TypeOK ==
    /\ slot \in [Slot -> SlotRec]
    /\ indexQueue \in Seq(Slot)
    /\ curID \in Nat
    /\ worker \in [Worker -> [pc : {"idle", "send", "release"}, slot : Slot \cup {NoSlot}]]
    /\ \A m \in DOMAIN msgQueue : msgQueue[m] \in Message
    /\ thread \in [pc : {"check", "drowsy", "asleep"}]
                  \cup [pc : {"found"}, clientID : Named, req : ReqType, ok : BOOLEAN]
                  \cup [pc : {"failing"}, clientID : Named, req : ReqType]
    /\ side \in Side
    /\ infoList \subseteq [requestID : Nat, slot : Slot, clientID : Named, type : ReqType,
                            bRecv : BOOLEAN, late : BOOLEAN]
    /\ seat \in [Seat -> SeatRec]
    /\ arrived \in 0 .. MaxClient

Free(i)    == i \in ToSet(indexQueue)
Handled(i) == \E w \in Worker : worker[w].slot = i /\ worker[w].pc = "release"
Lost(i)    == ~Free(i) /\ slot[i].pending = "none" /\ ~Handled(i)
Leaving(id) == {m \in DOMAIN msgQueue : msgQueue[m].type = "LEAVE" /\ msgQueue[m].requestID = id}

(* A slot is in the index queue once or serves one request.  The only      *)
(* slots that are lost for good had no socket, or part of a status line    *)
(* that the handler would not wait for.  (ReleaseSession, Alloc_Session)   *)
SlotsComeBack ==
    /\ TypeOK
    /\ IsInjective(indexQueue)
    /\ \A i \in Slot :
          /\ Free(i) <=> slot[i].requestID = 0
          /\ Free(i) => slot[i].pending = "none" /\ slot[i].sock = "closed"
          /\ Lost(i) => slot[i].got = "bit" \/ slot[i].sock = "closed"

(* A request in the list is being served by its slot, or its end is in the *)
(* message queue, once: none is forgotten, and no slot serves a request    *)
(* that is not in the list.  (Alloc_RequestInfo, OnLeaveServer)            *)
RequestsEndOnce ==
    /\ \A info \in infoList :
          Cardinality(Leaving(info.requestID)) =
              IF slot[info.slot].requestID = info.requestID THEN 0 ELSE 1
    /\ \A i \in Slot : Free(i) \/ InfoOf(slot[i].requestID) /= {}

(* A player of the Battle server is logged in only when the account        *)
(* service has confirmed both its account and its record, whatever failed  *)
(* and was repeated in between, except in three cases: a connection that   *)
(* failed at once is repeated twice, and a client that logs in again has   *)
(* its requests sent again, so that one kind of request may be answered    *)
(* twice, which counts as both; and what the client that had the object    *)
(* before asked for may be counted for this one.                           *)
(* (Receive_HttpRequest_SearchAccount, 143 and 160)                        *)
LoginNeedsBothAnswers ==
    \A p \in Seat : seat[p].bLogin =>
        {"account", "contents"} \subseteq seat[p].had \/ seat[p].excused # {}

(* A client is told the result of its login once, although each failed     *)
(* request is sent again, unless one of these cases occurred.              *)
(* (Update_MessageThread, bRecv)                                           *)
LoginAnsweredOnce ==
    \A p \in Seat : seat[p].answers > 1 => seat[p].excused # {}

(* A login needs both answers and is answered once, whatever failed and was*)
(* repeated in between, but for the cases named at LoginNeedsBothAnswers.  *)
(* (Receive_HttpRequest_SearchAccount, bRecv)                              *)
LoginSound == LoginNeedsBothAnswers /\ LoginAnsweredOnce

(* A client that logs in is answered, or disconnected after too many       *)
(* failures, though the message thread may miss a wake-up and the web      *)
(* server may not answer: unless a slot was lost, or the answer to a stray *)
(* request has set bSendLoginResult before.  (Send_Http_Heartbeat,         *)
(* Check_HeartBeat, Fail_HttpRequest)                                      *)
LoginSettles ==
    \A c \in Client :
        Present(c) /\ seat[SeatOf(c)].asked > 0
            ~> \/ ~Present(c)
               \/ seat[SeatOf(c)].answers > 0
               \/ "stray" \in seat[SeatOf(c)].excused
               \/ \E i \in Slot : Lost(i)
=============================================================================
