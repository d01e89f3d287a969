----------------------------- MODULE Matchmaking -----------------------------
(***************************************************************************)
(* The sessions of a match server (src/Source/Match), from the login of a  *)
(* client to the room it is sent to, with the link to the master server.   *)
(* Requests of a client run on a worker of CNetServer, answers of the      *)
(* master on the thread of the lan client, answers of the account server   *)
(* on the message thread of Match_Http.  Each looks a session up under     *)
(* _sessionLock, leaves the lock and goes on with the pointer, while       *)
(* another thread may give the object back to its pool.  One action is one *)
(* such stretch; task[t] is what thread t still has to do.                 *)
(*                                                                         *)
(* A connection gets one clientID and one clientKey, neither used twice:   *)
(* both are the client.  Clients follow the protocol (a request after the  *)
(* answer to the one before) but may go at any time.  Of the master this   *)
(* module keeps, per client, whether it has a session and the places taken;*)
(* its handlers run whole here, Master cuts them up.                       *)
(***************************************************************************)
EXTENDS Integers, Sequences, FiniteSets, SequencesExt

CONSTANTS
    Client,      \* the connections clients open
    Object,      \* objects of _sessionPool
    Lan, Http,   \* thread of the link to the master, message thread of http
    MaxHttpFail, \* failed account requests a client survives, 3 in the code
    MaxDrop,     \* bound on how often the link to the master is lost
    NoObject, NoClient

ASSUME MatchmakingAssumption ==
    /\ Lan # Http /\ {Lan, Http} \cap Client = {}
    /\ IsFiniteSet(Object)
    /\ MaxHttpFail \in Nat /\ MaxDrop \in Nat
    /\ NoObject \notin Object
    /\ NoClient \notin Client

VARIABLES
    sessionList,  \* objects in _sessionList
    pool,         \* the others, in the order in which the pool hands them out
    session,      \* what each object holds
    curLogin,     \* _curLogin, unsigned: -1 stands for 2^64 - 1
    task,         \* the handler each thread is in
    http,         \* account requests under way, per client
    link,         \* the lan client: down, up, or up with its login sent
    toMaster,     \* packets on the way to the master ...
    toMatch,      \* ... and back
    placed,       \* master: clients with a session in _sessionMap
    taken,        \* master: places taken for each client
    conn,         \* connection of each client
    phase,        \* what the client is waiting for or was told
    resent,       \* clients whose room request was sent again
    drops,
    overlap       \* may handlers of different threads overlap; never changes

poolVars   == <<sessionList, pool>>
serverVars == <<poolVars, session, curLogin>>
linkVars   == <<link, toMaster, toMatch, drops>>
masterVars == <<placed, taken>>
clientVars == <<conn, phase>>
vars == <<serverVars, task, http, linkVars, masterVars, clientVars, resent, overlap>>

-----------------------------------------------------------------------------
Thread == Client \cup {Lan, Http}

none == 0
Status_Request_Login    == 1
Status_Success_Login    == 2
Status_Request_RoomInfo == 3
Status_Success_RoomInfo == 4
Status_Success_RoomEnter == 6

SessionRec == [client : Client \cup {NoClient}, curStatus : 0 .. 6,
               httpFailCount : Nat]
TaskRec    == [step : {"idle", "roominfo", "free", "offer", "login", "fail"},
               session : Object \cup {NoObject}, ok : BOOLEAN]
Idle       == [step |-> "idle", session |-> NoObject, ok |-> FALSE]

Phase == {"out", "joined", "login", "lobby", "room", "offer", "inside", "denied"}

(* Packets of the link; those of EnterRoomSuccess are left out, the master *)
(* does nothing with them.                                                 *)
ON           == [type |-> "SERVER_ON", client |-> NoClient, ok |-> TRUE]
RoomPacket(c, ok) == [type |-> "GAME_ROOM", client |-> c, ok |-> ok]
FailPacket(c)     == [type |-> "ENTER_FAIL", client |-> c, ok |-> TRUE]
Packet == {ON} \cup {RoomPacket(c, ok) : c \in Client, ok \in BOOLEAN}
               \cup {FailPacket(c) : c \in Client}

Init_Session(c) == [client |-> c, curStatus |-> none, httpFailCount |-> 0]

Init ==
    /\ sessionList = {}
    /\ pool = SetToSeq(Object)
    /\ session = [o \in Object |-> Init_Session(NoClient)]
    /\ curLogin = 0
    /\ task = [t \in Thread |-> Idle]
    /\ http = [c \in Client |-> 0]
    /\ link = "down" /\ toMaster = <<>> /\ toMatch = <<>> /\ drops = 0
    /\ placed = {} /\ taken = [c \in Client |-> 0]
    /\ conn = [c \in Client |-> "out"]
    /\ phase = [c \in Client |-> "out"]
    /\ resent = {}
    /\ overlap \in BOOLEAN

-----------------------------------------------------------------------------
Busy == {t \in Thread : task[t] # Idle}

CanStart(t)    == task[t] = Idle /\ (overlap \/ Busy = {})
At(t, step)    == task[t].step = step
Begin(t, s, o, ok) ==
    task' = [task EXCEPT ![t] = [step |-> s, session |-> o, ok |-> ok]]
Return(t)      == task' = [task EXCEPT ![t] = Idle]

(* Find_SessionByClientID and Find_SessionByClientKey.                     *)
Find_Session(c) == {o \in sessionList : session[o].client = c}

SetStatus(o, s) == session' = [session EXCEPT ![o].curStatus = s]

(* Replies: what the client waits for, and what it is told by each.        *)
Awaits == [LOGIN_OK |-> "login", LOGIN_ERROR |-> "login", ROOM |-> "room", NO_ROOM |-> "room"]
Leads  == [LOGIN_OK |-> "lobby", LOGIN_ERROR |-> "denied", ROOM |-> "offer", NO_ROOM |-> "lobby"]

(* sendPacket: a client that is still there learns what the reply says.    *)
Tell(c, reply) ==
    phase' = IF conn[c] = "up" /\ phase[c] = Awaits[reply]
             THEN [phase EXCEPT ![c] = Leads[reply]] ELSE phase

(* A connection that closes waits for nothing any more; whether the client *)
(* had entered a room is remembered.                                       *)
Close(c) ==
    IF conn[c] = "up"
    THEN /\ conn' = [conn EXCEPT ![c] = "closing"]
         /\ phase' = [phase EXCEPT ![c] = IF @ = "inside" THEN @ ELSE "out"]
    ELSE UNCHANGED <<conn, phase>>

(* SendPacket of the lan client drops its packets while the link is down.  *)
Send(packets) ==
    toMaster' = IF link = "down" THEN toMaster ELSE toMaster \o packets

-----------------------------------------------------------------------------
(* The worker that serves client c.                                        *)

(* Bound: a client that finds the pool empty connects later.               *)
OnClientJoin(c) ==
    /\ CanStart(c)
    /\ conn[c] = "out"
    /\ pool # <<>>
    /\ pool' = Tail(pool)
    /\ session' = [session EXCEPT ![Head(pool)] = Init_Session(c)]
    /\ sessionList' = sessionList \cup {Head(pool)}
    /\ conn' = [conn EXCEPT ![c] = "up"]
    /\ phase' = [phase EXCEPT ![c] = "joined"]
    /\ UNCHANGED <<curLogin, task, http, linkVars, masterVars, resent, overlap>>

(* A packet of c, at a moment when the client sends that packet.           *)
OnRecv(c, at) ==
    /\ CanStart(c)
    /\ conn[c] = "up"
    /\ phase[c] = at

Request_Session_Login(c) ==
    /\ OnRecv(c, "joined")
    /\ \E o \in Find_Session(c) : SetStatus(o, Status_Request_Login)
    /\ http' = [http EXCEPT ![c] = @ + 1]
    /\ phase' = [phase EXCEPT ![c] = "login"]
    /\ UNCHANGED <<poolVars, curLogin, task, linkVars, masterVars, conn,
                   resent, overlap>>

(* A client of another version is refused and counted as logged in.        *)
Request_Session_Login_Version(c) ==
    /\ OnRecv(c, "joined")
    /\ \E o \in Find_Session(c) : SetStatus(o, Status_Success_Login)
    /\ curLogin' = curLogin + 1
    /\ phase' = [phase EXCEPT ![c] = "denied"]
    /\ UNCHANGED <<poolVars, task, http, linkVars, masterVars, conn,
                   resent, overlap>>

Request_Session_RoomInfo(c) ==
    /\ OnRecv(c, "lobby")
    /\ \E o \in Find_Session(c) :
         /\ SetStatus(o, Status_Request_RoomInfo)
         /\ Begin(c, "roominfo", o, TRUE)
    /\ phase' = [phase EXCEPT ![c] = "room"]
    /\ UNCHANGED <<poolVars, curLogin, http, linkVars, masterVars, conn,
                   resent, overlap>>

Send_Master_Roominfo(c) ==
    /\ At(c, "roominfo")
    /\ Send(<<RoomPacket(c, TRUE)>>)
    /\ Return(c)
    /\ UNCHANGED <<serverVars, http, link, toMatch, drops, masterVars,
                   clientVars, resent, overlap>>

(* The client took its place in the battle server; it is answered at once. *)
Request_Session_RoomEnter(c) ==
    /\ OnRecv(c, "offer")
    /\ \E o \in Find_Session(c) : SetStatus(o, Status_Success_RoomEnter)
    /\ phase' = [phase EXCEPT ![c] = "inside"]
    /\ UNCHANGED <<poolVars, curLogin, task, http, linkVars, masterVars,
                   conn, resent, overlap>>

(* A client that was sent to a room and did not enter it gives it back.    *)
(* Fault: one that was told its room does not.                            *)
HasPlace_OnlyAsking(o) == session[o].curStatus = Status_Request_RoomInfo

HasPlace(o) == session[o].curStatus \in {Status_Request_RoomInfo, Status_Success_RoomInfo}

LoggedIn(o) == session[o].curStatus >= Status_Success_Login

OnClientLeave(c) ==
    /\ CanStart(c)
    /\ conn[c] = "closing"
    /\ \E o \in Find_Session(c) :
         /\ curLogin' = IF LoggedIn(o) THEN curLogin - 1 ELSE curLogin
         /\ Send(IF HasPlace(o) THEN <<FailPacket(c)>> ELSE <<>>)
         /\ Begin(c, "free", o, TRUE)
    /\ conn' = [conn EXCEPT ![c] = "leaving"]
    /\ UNCHANGED <<poolVars, session, http, link, toMatch, drops, masterVars,
                   phase, resent, overlap>>

(* Fault: the object goes back to the pool and stays in the list.          *)
Free_Session_KeepListed(c) ==
    /\ At(c, "free")
    /\ pool' = <<task[c].session>> \o pool
    /\ conn' = [conn EXCEPT ![c] = "gone"]
    /\ Return(c)
    /\ UNCHANGED <<sessionList, session, curLogin, http, linkVars, masterVars, phase,
                   resent, overlap>>

(* What an object in the pool holds is overwritten before a find meets it; *)
(* it is kept here only while another thread has a pointer to the object.  *)
Free_Session(c) ==
    LET o == task[c].session
    IN  /\ At(c, "free")
        /\ sessionList' = sessionList \ {o}
        /\ pool' = <<o>> \o pool
        /\ session' = IF \E t \in Thread \ {c} : task[t].session = o THEN session
                      ELSE [session EXCEPT ![o] = Init_Session(NoClient)]
        /\ conn' = [conn EXCEPT ![c] = "gone"]
        /\ Return(c)
        /\ UNCHANGED <<curLogin, http, linkVars, masterVars, phase,
                   resent, overlap>>

-----------------------------------------------------------------------------
(* The thread of the lan client takes the packets of the master in order.  *)

FromMaster(type) ==
    /\ CanStart(Lan)
    /\ toMatch # <<>>
    /\ Head(toMatch).type = type
    /\ toMatch' = Tail(toMatch)

(* Fault: the wrong status, of those that were answered.                   *)
Waiting_Answered == {o \in sessionList : session[o].curStatus = Status_Success_RoomInfo}

(* After a login every request without an answer is sent again, also one   *)
(* that went out after the link came up.  The lock is held all along, so   *)
(* that no session comes or goes.                                          *)

Waiting == {o \in sessionList : session[o].curStatus = Status_Request_RoomInfo}

Recieve_MasterRequest_Login ==
    /\ FromMaster("SERVER_ON")
    /\ \E packets \in SetToSeqs({RoomPacket(session[o].client, TRUE) : o \in Waiting}) :
         Send(packets)
    /\ resent' = resent \cup {session[o].client : o \in Waiting}
    /\ UNCHANGED <<serverVars, task, http, link, drops, masterVars, clientVars,
                   overlap>>

Recieve_MasterRequest_RoomInfo ==
    LET p == Head(toMatch)
    IN  /\ FromMaster("GAME_ROOM")
        /\ \/ \E o \in Find_Session(p.client) : Begin(Lan, "offer", o, p.ok)
           \/ Find_Session(p.client) = {} /\ UNCHANGED task
        /\ UNCHANGED <<serverVars, http, link, toMaster, drops, masterVars,
                       clientVars, resent, overlap>>

(* The object may by now be in the pool or hold another client.            *)
Response_Session_RoomInfo ==
    LET o == task[Lan].session
    IN  /\ At(Lan, "offer")
        /\ SetStatus(o, Status_Success_RoomInfo)
        /\ Tell(session[o].client, IF task[Lan].ok THEN "ROOM" ELSE "NO_ROOM")
        /\ Return(Lan)
        /\ UNCHANGED <<poolVars, curLogin, http, linkVars, masterVars, conn,
                       resent, overlap>>

-----------------------------------------------------------------------------
(* The message thread of Match_Http.                                       *)

(* One account request of c came to its end.                               *)
FromHttp(c, step, ok) ==
    /\ CanStart(Http)
    /\ http[c] > 0
    /\ \/ \E o \in Find_Session(c) : Begin(Http, step, o, ok)
       \/ Find_Session(c) = {} /\ UNCHANGED task

Receive_HttpRequest_SessionKey(c, ok) ==
    /\ FromHttp(c, "login", ok)
    /\ http' = [http EXCEPT ![c] = @ - 1]
    /\ UNCHANGED <<serverVars, linkVars, masterVars, clientVars, resent, overlap>>

(* Counted as logged in whatever the result is.                            *)
Response_Session_Login ==
    LET o == task[Http].session
    IN  /\ At(Http, "login")
        /\ SetStatus(o, Status_Success_Login)
        /\ curLogin' = curLogin + 1
        /\ Tell(session[o].client, IF task[Http].ok THEN "LOGIN_OK" ELSE "LOGIN_ERROR")
        /\ Return(Http)
        /\ UNCHANGED <<poolVars, http, linkVars, masterVars, conn, resent, overlap>>

(* It failed: it is sent again, up to MaxHttpFail times.                   *)
Fail_HttpRequest(c) ==
    /\ FromHttp(c, "fail", TRUE)
    /\ http' = [http EXCEPT ![c] = @ - 1]
    /\ UNCHANGED <<serverVars, linkVars, masterVars, clientVars, resent, overlap>>

(* Fault: after the last failure nothing is done.                          *)
Fail_HttpRequest_GiveUp ==
    LET o == task[Http].session
        n == session[o].httpFailCount + 1
    IN  /\ At(Http, "fail")
        /\ session' = [session EXCEPT ![o].httpFailCount = n]
        /\ http' = IF n > MaxHttpFail THEN http
                   ELSE [http EXCEPT ![session[o].client] = @ + 1]
        /\ Return(Http)
        /\ UNCHANGED <<poolVars, curLogin, linkVars, masterVars, clientVars, resent, overlap>>

Fail_HttpRequest_Retry ==
    LET o == task[Http].session
        c == session[o].client
        n == session[o].httpFailCount + 1
    IN  /\ At(Http, "fail")
        /\ session' = [session EXCEPT ![o].httpFailCount = n]
        /\ IF n > MaxHttpFail
           THEN Close(c) /\ UNCHANGED http
           ELSE http' = [http EXCEPT ![c] = @ + 1] /\ UNCHANGED <<conn, phase>>
        /\ Return(Http)
        /\ UNCHANGED <<poolVars, curLogin, linkVars, masterVars,
                       resent, overlap>>

-----------------------------------------------------------------------------
(* The link.  The monitor thread connects it again when it is down; what   *)
(* was on the way when it broke is lost.                                   *)
Connect ==
    /\ link = "down"
    /\ link' = "up"
    /\ UNCHANGED <<serverVars, task, http, toMaster, toMatch, drops, masterVars,
                   clientVars, resent, overlap>>

OnEnterJoinServer ==
    /\ link = "up"
    /\ link' = "joined"
    /\ Send(<<ON>>)
    /\ UNCHANGED <<serverVars, task, http, toMatch, drops, masterVars,
                   clientVars, resent, overlap>>

ReleaseSession ==
    /\ ~overlap
    /\ link # "down"
    /\ drops < MaxDrop
    /\ link' = "down" /\ toMaster' = <<>> /\ toMatch' = <<>> /\ drops' = drops + 1
    /\ UNCHANGED <<serverVars, task, http, masterVars, clientVars, resent, overlap>>

(* The master serves this connection one packet at a time.                 *)
AtMaster(type) ==
    /\ toMaster # <<>>
    /\ Head(toMaster).type = type
    /\ toMaster' = Tail(toMaster)

Request_Match_Login ==
    /\ AtMaster("SERVER_ON")
    /\ toMatch' = Append(toMatch, ON)
    /\ UNCHANGED <<serverVars, task, http, link, drops, masterVars, clientVars,
                   resent, overlap>>

(* A client keeps its session when it asks again, and takes another place. *)
Request_Match_RoomInfo(found) ==
    LET c == Head(toMaster).client
    IN  /\ AtMaster("GAME_ROOM")
        /\ placed' = placed \cup {c}
        /\ taken' = IF found THEN [taken EXCEPT ![c] = @ + 1] ELSE taken
        /\ toMatch' = Append(toMatch, RoomPacket(c, found))
        /\ UNCHANGED <<serverVars, task, http, link, drops, clientVars, resent,
                       overlap>>

Request_Match_UserEnterFail ==
    LET c == Head(toMaster).client
    IN  /\ AtMaster("ENTER_FAIL")
        /\ placed' = placed \ {c}
        /\ taken' = IF c \in placed /\ taken[c] > 0
                    THEN [taken EXCEPT ![c] = @ - 1] ELSE taken
        /\ UNCHANGED <<serverVars, task, http, link, toMatch, drops, clientVars,
                       resent, overlap>>

(* A client may go at any time.                                            *)
Hangup(c) ==
    /\ conn[c] = "up"
    /\ Close(c)
    /\ UNCHANGED <<serverVars, task, http, linkVars, masterVars,
                   resent, overlap>>

-----------------------------------------------------------------------------
Request(c) ==
    \/ OnClientJoin(c)
    \/ Request_Session_Login(c) \/ Request_Session_Login_Version(c)
    \/ Request_Session_RoomInfo(c) \/ Request_Session_RoomEnter(c)

Worker(c) == Send_Master_Roominfo(c) \/ OnClientLeave(c) \/ Free_Session(c)

LanThread == \/ Recieve_MasterRequest_Login
             \/ Recieve_MasterRequest_RoomInfo \/ Response_Session_RoomInfo

HttpThread ==
    \/ \E c \in Client :
         \/ \E ok \in BOOLEAN : Receive_HttpRequest_SessionKey(c, ok)
         \/ Fail_HttpRequest(c)
    \/ Response_Session_Login \/ Fail_HttpRequest_Retry

Reconnect == Connect \/ OnEnterJoinServer

Master == \/ Request_Match_Login
          \/ \E found \in BOOLEAN : Request_Match_RoomInfo(found)
          \/ Request_Match_UserEnterFail

Next == \/ \E c \in Client : Request(c) \/ Worker(c) \/ Hangup(c)
        \/ LanThread \/ HttpThread \/ Reconnect \/ Master \/ ReleaseSession

Spec == Init /\ [][Next]_vars

-----------------------------------------------------------------------------
(* Properties.                                                             *)

(* Every variable keeps the type of the field it stands for.               *)
TypeOK ==
    /\ sessionList \subseteq Object
    /\ pool \in Seq(Object)
    /\ session \in [Object -> SessionRec]
    /\ curLogin \in Int
    /\ task \in [Thread -> TaskRec]
    /\ http \in [Client -> Nat]
    /\ link \in {"down", "up", "joined"}
    /\ toMaster \in Seq(Packet) /\ toMatch \in Seq(Packet)
    /\ drops \in 0 .. MaxDrop
    /\ placed \subseteq Client /\ taken \in [Client -> Nat]
    /\ conn \in [Client -> {"out", "up", "closing", "leaving", "gone"}]
    /\ phase \in [Client -> Phase]
    /\ resent \subseteq Client
    /\ overlap \in BOOLEAN

(* Whatever the threads do with pointers they kept, a connected client has *)
(* exactly one session in the list, and nobody else has one: the finds of  *)
(* the other threads never meet a client that is gone.                     *)
OneSessionPerClient ==
    \A c \in Client :
        Cardinality(Find_Session(c)) = IF conn[c] \in {"out", "gone"} THEN 0 ELSE 1

(* The list and the pool share out the objects, whichever thread still has *)
(* a pointer to one that its client gave back. (Alloc_Session,             *)
(* Free_Session)                                                           *)
SessionsSound == TypeOK /\ OneSessionPerClient

(* When handlers do not overlap, no client is told what it does not wait   *)
(* for, unless Recieve_MasterRequest_Login sent its room request again.    *)
Expected(t, what) ==
    LET c == session[task[t].session].client
    IN  conn[c] = "up" /\ c \notin resent => phase[c] = what

NoUnaskedReply ==
    ~overlap => /\ At(Lan, "offer") => Expected(Lan, "room")
                /\ At(Http, "login") \/ At(Http, "fail") => Expected(Http, "login")

(* A client that entered a room keeps its place: the match server never    *)
(* tells the master that it failed to enter.                               *)
EnteredKeepsPlace ==
    ~overlap =>
        \A c \in Client \ resent : phase[c] = "inside" => c \in placed /\ taken[c] = 1

(* A client that left without entering is forgotten by the master and its  *)
(* place is free again, as long as the link held and the client was not    *)
(* counted twice.                                                          *)
InTransit(c) == \E i \in DOMAIN toMaster : toMaster[i].client = c

LeaverGivesPlaceBack ==
    ~overlap /\ drops = 0 =>
        \A c \in Client :
            conn[c] = "gone" /\ phase[c] # "inside" /\ ~InTransit(c) =>
                c \notin placed /\ (taken[c] = 0 \/ c \in resent)

(* A client that entered keeps its place, and one that leaves without      *)
(* having entered gives it back. (OnClientLeave)                           *)
PlacesKept == EnteredKeepsPlace /\ LeaverGivesPlaceBack

(* When handlers do not overlap, the request of a client that waits for a  *)
(* room is never lost: it is with its worker, on the way to the master,    *)
(* answered and on the way back, in the hands of the lan thread, or the    *)
(* login that will have it sent again is still to come, though the link to *)
(* the master may break at any moment.                                     *)
LoginToCome == \/ link # "joined"
               \/ \E i \in DOMAIN toMaster : toMaster[i] = ON
               \/ \E i \in DOMAIN toMatch : toMatch[i] = ON

RequestUnderWay(c) ==
    \/ At(c, "roominfo")
    \/ \E i \in DOMAIN toMaster : toMaster[i] = RoomPacket(c, TRUE)
    \/ \E i \in DOMAIN toMatch, ok \in BOOLEAN : toMatch[i] = RoomPacket(c, ok)
    \/ At(Lan, "offer") /\ session[task[Lan].session].client = c

RoomRequestNotLost ==
    ~overlap => \A c \in Client :
        phase[c] = "room" =>
            /\ RequestUnderWay(c) \/ LoginToCome
            /\ \A o \in Find_Session(c) : session[o].curStatus = Status_Request_RoomInfo

(* Whichever handlers overlap, a client that waits for its login has a     *)
(* request with the account server or an answer in the hands of the message*)
(* thread, until it is disconnected after too many failures.               *)
LoginNotLost ==
    \A c \in Client :
        phase[c] = "login" =>
            \/ http[c] > 0
            \/ /\ task[Http].session # NoObject
               /\ session[task[Http].session].client = c

(* A login is under way until it is answered, and no client is told what it*)
(* does not wait for. (Receive_HttpRequest_SessionKey, Fail_HttpRequest)   *)
LoginsAnswered == LoginNotLost /\ NoUnaskedReply
=============================================================================
