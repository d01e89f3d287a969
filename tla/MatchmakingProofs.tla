------------------------- MODULE MatchmakingProofs -------------------------
(***************************************************************************)
(* Theorems about Matchmaking for every number of clients and of session   *)
(* objects.  SessionInv is inductive however handlers overlap: it relates  *)
(* the list, the pool and the pointers the threads keep.  RoomInv is       *)
(* inductive when handlers do not overlap: it follows the room request of  *)
(* a client and the place the master holds for it.                         *)
(***************************************************************************)
EXTENDS Matchmaking, Queues, FiniteSetTheorems, TLAPS

-----------------------------------------------------------------------------
(* What a queue holds when its head is taken or others are added.          *)

(* The tail of a queue is the queue without its first element.             *)
LEMMA TailElements ==
    ASSUME NEW S, NEW s \in Seq(S), s # <<>>
    PROVE  /\ Head(s) \in S /\ Tail(s) \in Seq(S)
           /\ 1 \in DOMAIN s /\ Head(s) = s[1]
           /\ \A i \in DOMAIN Tail(s) : i + 1 \in DOMAIN s /\ Tail(s)[i] = s[i + 1]
           /\ \A i \in DOMAIN s : i # 1 => i - 1 \in DOMAIN Tail(s) /\ Tail(s)[i - 1] = s[i]
  OBVIOUS

(* Two queues joined hold the elements of the first, then of the second.   *)
LEMMA JoinElements ==
    ASSUME NEW S, NEW s \in Seq(S), NEW t \in Seq(S)
    PROVE  /\ s \o t \in Seq(S)
           /\ \A i \in DOMAIN s : i \in DOMAIN (s \o t) /\ (s \o t)[i] = s[i]
           /\ \A i \in DOMAIN t : /\ Len(s) + i \in DOMAIN (s \o t)
                                  /\ (s \o t)[Len(s) + i] = t[i]
           /\ \A i \in DOMAIN (s \o t) :
                i \notin DOMAIN s => i - Len(s) \in DOMAIN t /\ (s \o t)[i] = t[i - Len(s)]
           /\ \A i \in DOMAIN s : i \in 1 .. Len(s)
           /\ \A i \in DOMAIN t : i >= 1
           /\ Len(s) \in Nat
  OBVIOUS

(* The queue holds something of X iff its head or its tail does.           *)
LEMMA HoldsTail ==
    ASSUME NEW S, NEW s \in Seq(S), s # <<>>, NEW X
    PROVE  Holds(s, X) <=> Head(s) \in X \/ Holds(Tail(s), X)
  BY TailElements DEF Holds

LEMMA HoldsJoin ==
    ASSUME NEW S, NEW s \in Seq(S), NEW t \in Seq(S), NEW X
    PROVE  Holds(s \o t, X) <=> Holds(s, X) \/ Holds(t, X)
<1> DEFINE u == s \o t
<1>1. /\ \A i \in DOMAIN s : i \in DOMAIN u /\ u[i] = s[i]
      /\ \A i \in DOMAIN t : Len(s) + i \in DOMAIN u /\ u[Len(s) + i] = t[i]
      /\ \A i \in DOMAIN u :
           i \notin DOMAIN s => i - Len(s) \in DOMAIN t /\ u[i] = t[i - Len(s)]
  BY JoinElements
<1> HIDE DEF u
<1>2. Holds(s, X) \/ Holds(t, X) => Holds(u, X)
  BY <1>1 DEF Holds
<1>3. Holds(u, X) => Holds(s, X) \/ Holds(t, X)
  BY <1>1 DEF Holds
<1> QED
  BY <1>2, <1>3 DEF u

LEMMA HoldsOneElement ==
    ASSUME NEW x, NEW X
    PROVE  /\ Holds(<<x>>, X) <=> x \in X
           /\ ~Holds(<<>>, X)
           /\ HoldsOne(<<x>>, X) /\ HoldsOne(<<>>, X)
  BY DEF Holds, HoldsOne

(* Append is a join with a queue of one.                                   *)
LEMMA AppendIsJoin ==
    ASSUME NEW S, NEW s \in Seq(S), NEW x \in S
    PROVE  /\ Append(s, x) = s \o <<x>>
           /\ Append(s, x) \in Seq(S) /\ <<x>> \in Seq(S)
  OBVIOUS

(* Once the only element of X has been taken none is left.                 *)
LEMMA HoldsOneTail ==
    ASSUME NEW S, NEW s \in Seq(S), s # <<>>, NEW X, HoldsOne(s, X)
    PROVE  /\ HoldsOne(Tail(s), X)
           /\ Head(s) \in X => ~Holds(Tail(s), X)
  BY TailElements DEF HoldsOne, Holds

LEMMA HoldsOneJoin ==
    ASSUME NEW S, NEW s \in Seq(S), NEW t \in Seq(S), NEW X,
           HoldsOne(s, X), HoldsOne(t, X), ~Holds(s, X) \/ ~Holds(t, X)
    PROVE  HoldsOne(s \o t, X)
  BY JoinElements DEF HoldsOne, Holds

(* An element with nothing of X behind it keeps that while the head is     *)
(* taken and other elements are added, until it is the head itself.        *)
LEMMA ClosesTail ==
    ASSUME NEW S, NEW s \in Seq(S), s # <<>>, NEW x, NEW X, Closes(s, x, X)
    PROVE  /\ Head(s) # x => Closes(Tail(s), x, X)
           /\ Closes(Tail(s), x, X) \/ ~Holds(Tail(s), X)
<1>1. \A i \in DOMAIN s : i \in Int /\ i >= 1
  OBVIOUS
<1>2. \A i \in DOMAIN Tail(s) : i \in Int /\ i >= 1
  OBVIOUS
<1>3. PICK k \in DOMAIN s : s[k] = x /\ \A j \in DOMAIN s : j > k => s[j] \notin X
  BY DEF Closes
<1>4. CASE k = 1
  BY <1>1, <1>2, <1>3, <1>4, TailElements DEF Holds
<1>5. CASE k # 1
  <2>1. k - 1 \in DOMAIN Tail(s) /\ Tail(s)[k - 1] = x
    BY <1>3, <1>5, TailElements
  <2>2. \A j \in DOMAIN Tail(s) : j > k - 1 => Tail(s)[j] \notin X
    BY <1>1, <1>2, <1>3, <1>5, TailElements
  <2> QED
    BY <2>1, <2>2 DEF Closes
<1> QED
  BY <1>4, <1>5

LEMMA ClosesJoin ==
    ASSUME NEW S, NEW s \in Seq(S), NEW t \in Seq(S), NEW x, NEW X,
           Closes(s, x, X), ~Holds(t, X)
    PROVE  Closes(s \o t, x, X)
  BY JoinElements DEF Closes, Holds

LEMMA ClosesAtEnd ==
    ASSUME NEW S, NEW s \in Seq(S), NEW x \in S, NEW X
    PROVE  Closes(s \o <<x>>, x, X)
<1>1. Len(s) + 1 \in DOMAIN (s \o <<x>>) /\ (s \o <<x>>)[Len(s) + 1] = x
  OBVIOUS
<1>2. \A j \in DOMAIN (s \o <<x>>) : ~(j > Len(s) + 1)
  OBVIOUS
<1> QED
  BY <1>1, <1>2 DEF Closes

-----------------------------------------------------------------------------

Listed == {"up", "closing", "leaving"}

(* What the thread does goes with the handlers it has.                     *)
TasksOK ==
    /\ \A t \in Thread : task[t] = Idle \/ task[t].session \in Object
    /\ task[Http].step \in {"idle", "login", "fail"}
    /\ task[Lan].step \in {"idle", "offer"}
    /\ \A c \in Client : task[c].step \in {"idle", "roominfo", "free"}

(* An object is listed or in the pool, and there only once.                *)
PoolOK ==
    /\ \A i, j \in DOMAIN pool : pool[i] = pool[j] => i = j
    /\ \A i \in DOMAIN pool : pool[i] \notin sessionList

(* The listed objects are the sessions of the connected clients.           *)
ListOK ==
    /\ \A o \in sessionList : session[o].client \in Client
    /\ \A o, p \in sessionList : session[o].client = session[p].client => o = p
    /\ \A o \in sessionList : conn[session[o].client] \in Listed
    /\ \A c \in Client : conn[c] \in Listed => Find_Session(c) # {}

(* A worker that frees a session frees that of its client, and nobody else *)
(* does.                                                                   *)
FreeOK ==
    \A c \in Client :
        /\ conn[c] = "leaving" <=> At(c, "free")
        /\ At(c, "free") => task[c].session \in Find_Session(c)

(* An object in the pool is not mistaken for that of a client, also when a *)
(* thread still has a pointer to it.                                       *)
PointersOK ==
    /\ \A t \in Thread :
         task[t].session \in Object => session[task[t].session].client \in Client
    /\ \A o \in Object \ sessionList :
         session[o].client = NoClient \/ conn[session[o].client] = "gone"

(* Only a connected client waits.                                          *)
WaitOK ==
    \A c \in Client :
        IF conn[c] = "up" THEN phase[c] # "out" ELSE phase[c] \in {"out", "inside"}

SessionInv ==
    TypeOK /\ TasksOK /\ PoolOK /\ ListOK /\ FreeOK /\ PointersOK /\ WaitOK /\ LoginNotLost

-----------------------------------------------------------------------------
(* What follows holds when handlers do not overlap.                        *)

(* One handler runs at a time, and its session stays in the list.          *)
OneHandler ==
    /\ \A t, u \in Thread : task[t] # Idle /\ task[u] # Idle => t = u
    /\ \A t \in Thread : task[t] # Idle => task[t].session \in sessionList
    /\ \A c \in Client : task[c] # Idle => session[task[c].session].client = c

HttpHolds(c) == task[Http] # Idle /\ session[task[Http].session].client = c

LoginOut(c) == http[c] > 0 \/ HttpHolds(c)

(* A client has at most one login under way, while it waits for it.        *)
OneLogin(c) ==
    /\ http[c] <= 1 /\ (HttpHolds(c) => http[c] = 0)
    /\ LoginOut(c) => /\ conn[c] # "out"
                      /\ phase[c] = IF conn[c] = "up" THEN "login" ELSE "out"

(* Where the room request of a client is.                                  *)
RoomPackets(c) == {RoomPacket(c, TRUE), RoomPacket(c, FALSE)}

InHand(c)  == At(c, "roominfo")
Asked(c)   == Holds(toMaster, RoomPackets(c))
Replied(c) == Holds(toMatch, RoomPackets(c))
Returned(c, ok) == Holds(toMatch, {RoomPacket(c, ok)})
Offered(c) == At(Lan, "offer") /\ session[task[Lan].session].client = c
RoomOut(c) == InHand(c) \/ Asked(c) \/ Replied(c) \/ Offered(c)

(* A request that was not sent again is in one place, while its client     *)
(* waits for it.                                                           *)
OneRequest(c) ==
    /\ HoldsOne(toMaster, RoomPackets(c)) /\ HoldsOne(toMatch, RoomPackets(c))
    /\ InHand(c) => ~Asked(c) /\ ~Replied(c) /\ ~Offered(c)
    /\ Asked(c) => ~Replied(c) /\ ~Offered(c)
    /\ Replied(c) => ~Offered(c)
    /\ RoomOut(c) => /\ conn[c] # "out"
                     /\ phase[c] = IF conn[c] = "up" THEN "room" ELSE "out"

(* Whether the packet that gives its place back is on its way, and whether *)
(* it is so behind all its requests.                                       *)
Failing(c) == Holds(toMaster, {FailPacket(c)})
Closing(c) == Closes(toMaster, FailPacket(c), RoomPackets(c))

Answer(c, ok) ==
    \/ Returned(c, ok)
    \/ Offered(c) /\ task[Lan].ok = ok

(* The place the master holds goes with what the client was told.          *)
OnePlace(c) ==
    /\ taken[c] <= 1 /\ (taken[c] = 1 => c \in placed)
    /\ InHand(c) \/ Asked(c) => taken[c] = 0
    /\ Answer(c, FALSE) => taken[c] = 0
    /\ Answer(c, TRUE) /\ conn[c] = "up" => taken[c] = 1
    /\ phase[c] \in {"joined", "login", "lobby", "denied"} => taken[c] = 0
    /\ phase[c] \in {"offer", "inside"} => taken[c] = 1
    /\ Failing(c) => phase[c] # "inside"

(* The status of a session tells how far its client has come.              *)
NeverAsked(c) ==
    /\ c \notin resent /\ ~RoomOut(c)
    /\ c \notin placed /\ taken[c] = 0

StatusOK(o) ==
    LET c == session[o].client
        s == session[o].curStatus
    IN  /\ s # 5
        /\ s < Status_Request_RoomInfo => NeverAsked(c)
        /\ phase[c] = "joined" => s < Status_Request_RoomInfo
        /\ LoginOut(c) => s < Status_Request_RoomInfo
        /\ phase[c] = "room" => s = Status_Request_RoomInfo
        /\ s = Status_Success_RoomEnter => phase[c] = "inside"
        /\ phase[c] = "inside" /\ c \notin resent => s = Status_Success_RoomEnter

(* A request that is not answered is under way or will be sent again.      *)
RequestKept ==
    /\ link = "down" => toMaster = <<>> /\ toMatch = <<>> /\ (drops = 0 => placed = {})
    /\ \A c \in Client : phase[c] = "room" => RequestUnderWay(c) \/ LoginToCome

(* A client without a session has no place, or the packet that gives it    *)
(* back is on its way, behind all its requests.                            *)
GivenBack(c) ==
    /\ Failing(c) => conn[c] \in {"leaving", "gone"}
    /\ conn[c] = "out" => NeverAsked(c)
    /\ drops = 0 /\ conn[c] \in {"leaving", "gone"} /\ phase[c] # "inside" =>
         \/ c \notin placed /\ ~Asked(c)
         \/ Closing(c)

RoomParts ==
    /\ OneHandler
    /\ \A c \in Client : OneLogin(c)
    /\ \A c \in Client : c \notin resent => OneRequest(c) /\ OnePlace(c)
    /\ \A o \in sessionList : StatusOK(o)
    /\ RequestKept
    /\ \A c \in Client : GivenBack(c)

RoomInv == ~overlap => RoomParts

-----------------------------------------------------------------------------
(* Type correctness.                                                       *)

(* The values the helpers of the handlers store have their types.          *)
LEMMA BeginTyped ==
    ASSUME task \in [Thread -> TaskRec], NEW t \in Thread, NEW o \in Object,
           NEW ok \in BOOLEAN,
           NEW s \in {"roominfo", "free", "offer", "login", "fail"}, Begin(t, s, o, ok)
    PROVE  task' \in [Thread -> TaskRec]
  BY DEF Begin, TaskRec

LEMMA ReturnTyped ==
    ASSUME task \in [Thread -> TaskRec], NEW t \in Thread, Return(t)
    PROVE  task' \in [Thread -> TaskRec]
  BY DEF Return, TaskRec, Idle

LEMMA StatusTyped ==
    ASSUME session \in [Object -> SessionRec], NEW o \in Object, NEW s \in 0 .. 6,
           SetStatus(o, s)
    PROVE  /\ session' \in [Object -> SessionRec]
           /\ \A p \in Object : /\ session'[p].client = session[p].client
                                /\ session'[p].httpFailCount = session[p].httpFailCount
           /\ \A p \in Object :
                session'[p].curStatus = IF p = o THEN s ELSE session[p].curStatus
  BY DEF SetStatus, SessionRec

LEMMA SendTyped ==
    ASSUME toMaster \in Seq(Packet), NEW s \in Seq(Packet), Send(s)
    PROVE  toMaster' \in Seq(Packet)
  BY DEF Send

LEMMA PacketsTyped ==
    ASSUME NEW c \in Client, NEW ok \in BOOLEAN
    PROVE  /\ RoomPacket(c, ok) \in Packet /\ FailPacket(c) \in Packet /\ ON \in Packet
           /\ <<RoomPacket(c, ok)>> \in Seq(Packet) /\ <<FailPacket(c)>> \in Seq(Packet)
           /\ RoomPacket(c, ok).client = c /\ FailPacket(c).client = c
           /\ RoomPacket(c, ok).ok = ok
           /\ RoomPacket(c, ok).type = "GAME_ROOM" /\ FailPacket(c).type = "ENTER_FAIL"
           /\ ON.type = "SERVER_ON"
<1>1. RoomPacket(c, ok) \in Packet /\ FailPacket(c) \in Packet /\ ON \in Packet
  BY DEF Packet
<1> QED
  BY <1>1 DEF RoomPacket, FailPacket, ON

(* A packet about a client names one.                                      *)
LEMMA PacketOf ==
    ASSUME NEW p \in Packet
    PROVE  /\ p.type = "SERVER_ON" => p = ON
           /\ p.type = "GAME_ROOM" => p.client \in Client /\ p.ok \in BOOLEAN
                                      /\ p = RoomPacket(p.client, p.ok)
           /\ p.type = "ENTER_FAIL" => p.client \in Client /\ p = FailPacket(p.client)
  BY DEF Packet, RoomPacket, FailPacket, ON

LEMMA TellTyped ==
    ASSUME phase \in [Client -> Phase], NEW c \in Client,
           NEW reply \in {"LOGIN_OK", "LOGIN_ERROR", "ROOM", "NO_ROOM"}, Tell(c, reply)
    PROVE  phase' \in [Client -> Phase]
  BY DEF Leads, Phase, Tell

LEMMA CloseTyped ==
    ASSUME phase \in [Client -> Phase], NEW c \in Client, Close(c),
           conn \in [Client -> {"out", "up", "closing", "leaving", "gone"}]
    PROVE  /\ phase' \in [Client -> Phase]
           /\ conn' \in [Client -> {"out", "up", "closing", "leaving", "gone"}]
  BY DEF Close, Phase

(* SetToSeqs lists every member of its set once, in some order.           *)
LEMMA SequencesOfSet ==
    ASSUME NEW S, IsFiniteSet(S), NEW T, S \subseteq T, NEW s \in SetToSeqs(S)
    PROVE  /\ s \in Seq(T)
           /\ \A i \in DOMAIN s : s[i] \in S
           /\ \A i, j \in DOMAIN s : s[i] = s[j] => i = j
           /\ \A x \in S : \E i \in DOMAIN s : s[i] = x
<1> DEFINE n == Cardinality(S)
<1>1. n \in Nat
  BY FS_CardinalityType
<1>2. s \in [1 .. n -> S] /\ \A i, j \in 1 .. n : i # j => s[i] # s[j]
  BY DEF SetToSeqs
<1>3. IsFiniteSet(1 .. n) /\ Cardinality(1 .. n) = n
  BY <1>1, FS_Interval
<1>4. s \in Injection(1 .. n, S)
  BY <1>2 DEF Injection, IsInjective
<1>5. s \in Surjection(1 .. n, S)
  BY <1>3, <1>4, FS_Injection
<1>6. \A x \in S : \E i \in 1 .. n : s[i] = x
  BY <1>5 DEF Surjection
<1> HIDE DEF n
<1> QED
  BY <1>1, <1>2, <1>6

(* SetToSeq is one of them.                                                *)
LEMMA SequenceOfSet ==
    ASSUME NEW S, IsFiniteSet(S)
    PROVE  /\ SetToSeq(S) \in Seq(S)
           /\ \A i, j \in DOMAIN SetToSeq(S) : SetToSeq(S)[i] = SetToSeq(S)[j] => i = j
<1> DEFINE n == Cardinality(S)
<1>1. n \in Nat /\ ExistsBijection(1 .. n, S)
  BY FS_CardinalityType
<1>2. PICK f \in [1 .. n -> S] : IsInjective(f)
  BY <1>1 DEF ExistsBijection, Bijection, Injection
<1>3. SetToSeq(S) \in [1 .. n -> S] /\ IsInjective(SetToSeq(S))
  BY <1>2 DEF SetToSeq
<1> HIDE DEF n
<1> QED
  BY <1>1, <1>3 DEF IsInjective

(* What Recieve_MasterRequest_Login sends again: one request for each      *)
(* client that waits.                                                      *)

LEMMA SentAgain ==
    ASSUME TypeOK, \A o \in sessionList : session[o].client \in Client,
           NEW s \in SetToSeqs({RoomPacket(session[o].client, TRUE) : o \in Waiting})
    PROVE  /\ s \in Seq(Packet)
           /\ \A i \in DOMAIN s : \E o \in Waiting : s[i] = RoomPacket(session[o].client, TRUE)
           /\ \A o \in Waiting : \E i \in DOMAIN s : s[i] = RoomPacket(session[o].client, TRUE)
           /\ \A i, j \in DOMAIN s : s[i] = s[j] => i = j
<1> DEFINE f == [o \in Waiting |-> RoomPacket(session[o].client, TRUE)]
           S == {RoomPacket(session[o].client, TRUE) : o \in Waiting}
<1>1. Waiting \subseteq sessionList
  BY DEF Waiting
<1>2. IsFiniteSet(Waiting)
  BY <1>1, MatchmakingAssumption, FS_Subset DEF TypeOK
<1>3. f \in Surjection(Waiting, S)
  BY DEF Surjection
<1>4. IsFiniteSet(S)
  BY <1>2, <1>3, FS_Surjection
<1>5. S \subseteq Packet
  <2>1. \A o \in Waiting : RoomPacket(session[o].client, TRUE) \in Packet
    BY <1>1, PacketsTyped
  <2> QED
    BY <2>1
<1>6. s \in SetToSeqs(S)
  OBVIOUS
<1>7. /\ s \in Seq(Packet)
      /\ \A i \in DOMAIN s : s[i] \in S
      /\ \A i, j \in DOMAIN s : s[i] = s[j] => i = j
      /\ \A x \in S : \E i \in DOMAIN s : s[i] = x
  <2> HIDE DEF S
  <2> QED
    BY <1>4, <1>5, <1>6, SequencesOfSet
<1> QED
  BY <1>7

(* Every step keeps the types.                                             *)
LEMMA TypeStep == SessionInv /\ [Next]_vars => TypeOK'
<1> SUFFICES ASSUME TypeOK, TasksOK, ListOK, PointersOK, [Next]_vars PROVE TypeOK'
  BY DEF SessionInv
<1> USE MatchmakingAssumption
<1>1. ASSUME NEW c \in Client, OnClientJoin(c) PROVE TypeOK'
  BY <1>1 DEF OnClientJoin, TypeOK, linkVars, masterVars, Init_Session, SessionRec, Phase,
              none
<1>2. ASSUME NEW c \in Client, Request_Session_Login(c) PROVE TypeOK'
  BY <1>2, StatusTyped DEF Request_Session_Login, Find_Session, TypeOK, Status_Request_Login,
     poolVars, linkVars, masterVars, Phase
<1>3. ASSUME NEW c \in Client, Request_Session_Login_Version(c) PROVE TypeOK'
  BY <1>3, StatusTyped DEF Request_Session_Login_Version, Find_Session, TypeOK,
     Status_Success_Login, poolVars, linkVars, masterVars, Phase
<1>4. ASSUME NEW c \in Client, Request_Session_RoomInfo(c) PROVE TypeOK'
  <2>1. PICK o \in Object :
          SetStatus(o, Status_Request_RoomInfo) /\ Begin(c, "roominfo", o, TRUE)
    BY <1>4 DEF Request_Session_RoomInfo, Find_Session, TypeOK
  <2>2. session' \in [Object -> SessionRec]
    BY <2>1, StatusTyped DEF TypeOK, Status_Request_RoomInfo
  <2>3. task' \in [Thread -> TaskRec]
    BY <2>1, BeginTyped DEF TypeOK, Thread
  <2> QED
    BY <1>4, <2>2, <2>3 DEF Request_Session_RoomInfo, TypeOK, poolVars, linkVars, masterVars,
                            Phase
<1>5. ASSUME NEW c \in Client, Request_Session_RoomEnter(c) PROVE TypeOK'
  BY <1>5, StatusTyped DEF Request_Session_RoomEnter, Find_Session, TypeOK,
     Status_Success_RoomEnter, poolVars, linkVars, masterVars, Phase
<1>6. ASSUME NEW c \in Client, Send_Master_Roominfo(c) PROVE TypeOK'
  BY PacketsTyped, <1>6, SendTyped, ReturnTyped DEF Send_Master_Roominfo, TypeOK, Thread,
     serverVars, poolVars, masterVars, clientVars
<1>7. ASSUME NEW c \in Client, OnClientLeave(c) PROVE TypeOK'
  <2>1. PICK o \in Object :
          /\ curLogin' = IF LoggedIn(o) THEN curLogin - 1 ELSE curLogin
          /\ Send(IF HasPlace(o) THEN <<FailPacket(c)>> ELSE <<>>)
          /\ Begin(c, "free", o, TRUE)
    BY <1>7 DEF OnClientLeave, Find_Session, TypeOK
  <2>2. toMaster' \in Seq(Packet)
    <3>1. <<FailPacket(c)>> \in Seq(Packet) /\ <<>> \in Seq(Packet)
      <4>1. <<>> \in Seq(Packet)
        OBVIOUS
      <4> QED
        BY <4>1, PacketsTyped
    <3> QED
      BY <2>1, <3>1, SendTyped DEF TypeOK
  <2>3. task' \in [Thread -> TaskRec]
    BY <2>1, BeginTyped DEF TypeOK, Thread
  <2> QED
    BY <1>7, <2>1, <2>2, <2>3 DEF OnClientLeave, TypeOK, poolVars, masterVars
<1>8. ASSUME NEW c \in Client, Free_Session(c) PROVE TypeOK'
  <2>1. task[c].session \in Object
    BY <1>8 DEF Free_Session, TasksOK, At, Idle, Thread
  <2>2. pool' \in Seq(Object) /\ session' \in [Object -> SessionRec]
    BY <1>8, <2>1 DEF Free_Session, TypeOK, Init_Session, SessionRec, none
  <2>3. task' \in [Thread -> TaskRec]
    BY <1>8, ReturnTyped DEF Free_Session, TypeOK, Thread
  <2> QED
    BY <1>8, <2>2, <2>3 DEF Free_Session, TypeOK, linkVars, masterVars
<1>9. ASSUME NEW c \in Client, Hangup(c) PROVE TypeOK'
  BY <1>9, CloseTyped DEF Hangup, TypeOK, serverVars, poolVars, linkVars, masterVars
<1>10. ASSUME Recieve_MasterRequest_Login PROVE TypeOK'
  <2>1. PICK s \in Seq(Packet) : Send(s)
    BY <1>10, SentAgain DEF Recieve_MasterRequest_Login, ListOK
  <2>2. toMaster' \in Seq(Packet)
    BY <2>1, SendTyped DEF TypeOK
  <2>3. resent' \subseteq Client
    BY <1>10 DEF Recieve_MasterRequest_Login, TypeOK, ListOK, Waiting
  <2>4. toMatch' \in Seq(Packet)
    BY <1>10, TailElements DEF Recieve_MasterRequest_Login, FromMaster, TypeOK
  <2> QED
    BY <1>10, <2>2, <2>3, <2>4
       DEF Recieve_MasterRequest_Login, TypeOK, serverVars, poolVars, masterVars, clientVars
<1>11. ASSUME Recieve_MasterRequest_RoomInfo PROVE TypeOK'
  <2>1. Head(toMatch) \in Packet /\ toMatch' \in Seq(Packet)
    BY <1>11, TailElements DEF Recieve_MasterRequest_RoomInfo, FromMaster, TypeOK
  <2>2. Head(toMatch).ok \in BOOLEAN
    BY <1>11, <2>1, PacketOf DEF Recieve_MasterRequest_RoomInfo, FromMaster
  <2>3. task' \in [Thread -> TaskRec]
    <3>1. CASE UNCHANGED task
      BY <3>1 DEF TypeOK
    <3>2. ASSUME NEW o \in Object, Begin(Lan, "offer", o, Head(toMatch).ok)
          PROVE  task' \in [Thread -> TaskRec]
      <4>1. Lan \in Thread
        BY DEF Thread
      <4> QED
        BY <2>2, <3>2, <4>1, BeginTyped DEF TypeOK
    <3> QED
      BY <1>11, <3>1, <3>2 DEF Recieve_MasterRequest_RoomInfo, Find_Session, TypeOK
  <2> QED
    BY <1>11, <2>1, <2>3 DEF Recieve_MasterRequest_RoomInfo, TypeOK, serverVars, poolVars,
                             masterVars, clientVars
<1>12. ASSUME Response_Session_RoomInfo PROVE TypeOK'
  <2> DEFINE o == task[Lan].session
  <2>1. o \in Object
    BY <1>12 DEF Response_Session_RoomInfo, TasksOK, At, Idle, Thread
  <2>2. session' \in [Object -> SessionRec]
    BY <1>12, <2>1, StatusTyped DEF Response_Session_RoomInfo, TypeOK, Status_Success_RoomInfo
  <2>3. task' \in [Thread -> TaskRec]
    BY <1>12, ReturnTyped DEF Response_Session_RoomInfo, TypeOK, Thread
  <2>4. phase' \in [Client -> Phase]
    BY <1>12 DEF Response_Session_RoomInfo, Tell, TypeOK, Phase, Leads
  <2> QED
    BY <1>12, <2>2, <2>3, <2>4 DEF Response_Session_RoomInfo, TypeOK, poolVars, linkVars,
                                   masterVars
<1>13. ASSUME NEW c \in Client, NEW ok \in BOOLEAN, Receive_HttpRequest_SessionKey(c, ok)
       PROVE  TypeOK'
  <2>1. task' \in [Thread -> TaskRec]
    <3>1. ASSUME NEW o \in Object, Begin(Http, "login", o, ok)
          PROVE  task' \in [Thread -> TaskRec]
      <4>1. Http \in Thread
        BY DEF Thread
      <4> QED
        BY <3>1, <4>1, BeginTyped DEF TypeOK
    <3> QED
      BY <1>13, <3>1 DEF Receive_HttpRequest_SessionKey, FromHttp, Find_Session, TypeOK
  <2>2. http' \in [Client -> Nat]
    BY <1>13 DEF Receive_HttpRequest_SessionKey, FromHttp, TypeOK
  <2> QED
    BY <1>13, <2>1, <2>2 DEF Receive_HttpRequest_SessionKey, TypeOK, serverVars, poolVars,
                             linkVars, masterVars, clientVars
<1>14. ASSUME NEW c \in Client, Fail_HttpRequest(c) PROVE TypeOK'
  <2>1. task' \in [Thread -> TaskRec]
    BY BeginTyped, <1>14 DEF Thread, TypeOK, Fail_HttpRequest, FromHttp, Find_Session
  <2>2. http' \in [Client -> Nat]
    BY <1>14 DEF Fail_HttpRequest, FromHttp, TypeOK
  <2> QED
    BY <1>14, <2>1, <2>2 DEF Fail_HttpRequest, TypeOK, serverVars, poolVars, linkVars,
                             masterVars, clientVars
<1>15. ASSUME Response_Session_Login PROVE TypeOK'
  <2> DEFINE o == task[Http].session
  <2>1. o \in Object
    BY <1>15 DEF Response_Session_Login, TasksOK, At, Idle, Thread
  <2>2. session' \in [Object -> SessionRec]
    BY <1>15, <2>1, StatusTyped DEF Response_Session_Login, TypeOK, Status_Success_Login
  <2>3. task' \in [Thread -> TaskRec]
    BY <1>15, ReturnTyped DEF Response_Session_Login, TypeOK, Thread
  <2>4. phase' \in [Client -> Phase]
    BY <1>15 DEF Response_Session_Login, Tell, TypeOK, Phase, Leads
  <2> QED
    BY <1>15, <2>2, <2>3, <2>4 DEF Response_Session_Login, TypeOK, poolVars, linkVars,
                                   masterVars
<1>16. ASSUME Fail_HttpRequest_Retry PROVE TypeOK'
  <2> DEFINE o == task[Http].session
             c == session[o].client
  <2>1. o \in Object
    BY <1>16 DEF Fail_HttpRequest_Retry, TasksOK, At, Idle, Thread
  <2>2. session' \in [Object -> SessionRec]
    <3>1. session[o].httpFailCount + 1 \in Nat
      BY <2>1 DEF TypeOK, SessionRec
    <3>2. session' = [session EXCEPT ![o].httpFailCount = session[o].httpFailCount + 1]
      BY <1>16 DEF Fail_HttpRequest_Retry
    <3> QED
      BY <2>1, <3>1, <3>2 DEF TypeOK, SessionRec
  <2>3. task' \in [Thread -> TaskRec]
    BY <1>16, ReturnTyped DEF Fail_HttpRequest_Retry, TypeOK, Thread
  <2>4. http' \in [Client -> Nat]
    <3>1. c \in Client
      BY <2>1 DEF PointersOK, Thread
    <3>2. http' = http \/ http' = [http EXCEPT ![c] = http[c] + 1]
      BY <1>16 DEF Fail_HttpRequest_Retry
    <3> HIDE DEF c
    <3>3. http \in [Client -> Nat] /\ http[c] + 1 \in Nat
      BY <3>1 DEF TypeOK
    <3> QED
      BY <3>1, <3>2, <3>3
  <2>5. /\ phase' \in [Client -> Phase]
        /\ conn' \in [Client -> {"out", "up", "closing", "leaving", "gone"}]
    BY <1>16 DEF Fail_HttpRequest_Retry, Close, TypeOK, Phase
  <2> QED
    BY <1>16, <2>2, <2>3, <2>4, <2>5 DEF Fail_HttpRequest_Retry, TypeOK, poolVars, linkVars,
                                         masterVars
<1>17. CASE Connect
  BY <1>17 DEF Connect, TypeOK, serverVars, poolVars, masterVars, clientVars
<1>18. CASE OnEnterJoinServer
  <2>1. toMaster' \in Seq(Packet)
    <3>1. <<ON>> \in Seq(Packet)
      BY DEF Packet
    <3> QED
      BY <1>18, <3>1, SendTyped DEF OnEnterJoinServer, TypeOK
  <2> QED
    BY <1>18, <2>1 DEF OnEnterJoinServer, TypeOK, serverVars, poolVars, masterVars, clientVars
<1>19. CASE Request_Match_Login
  BY <1>19, TailElements, AppendIsJoin DEF Request_Match_Login, AtMaster, TypeOK, Packet,
     serverVars, poolVars, masterVars, clientVars
<1>20. ASSUME NEW found \in BOOLEAN, Request_Match_RoomInfo(found) PROVE TypeOK'
  <2> DEFINE c == Head(toMaster).client
  <2>1. toMaster' \in Seq(Packet) /\ Head(toMaster) \in Packet
    BY <1>20, TailElements DEF Request_Match_RoomInfo, AtMaster, TypeOK
  <2>2. c \in Client
    BY <1>20, <2>1, PacketOf DEF Request_Match_RoomInfo, AtMaster
  <2>3. toMatch' \in Seq(Packet)
    BY <1>20, <2>2, PacketsTyped, AppendIsJoin DEF Request_Match_RoomInfo, TypeOK
  <2> QED
    BY <1>20, <2>1, <2>2, <2>3 DEF Request_Match_RoomInfo, TypeOK, serverVars, poolVars,
                                   clientVars
<1>21. CASE Request_Match_UserEnterFail
  <2> DEFINE c == Head(toMaster).client
  <2>1. toMaster' \in Seq(Packet) /\ Head(toMaster) \in Packet
    BY <1>21, TailElements DEF Request_Match_UserEnterFail, AtMaster, TypeOK
  <2> QED
    BY <1>21, <2>1 DEF Request_Match_UserEnterFail, TypeOK, serverVars, poolVars, clientVars
<1>22. CASE ReleaseSession
  BY <1>22 DEF ReleaseSession, TypeOK, serverVars, poolVars, masterVars, clientVars
<1>23. CASE UNCHANGED vars
  BY <1>23 DEF vars, TypeOK, serverVars, poolVars, linkVars, masterVars, clientVars
<1> QED
  BY <1>1, <1>2, <1>3, <1>4, <1>5, <1>6, <1>7, <1>8, <1>9, <1>10, <1>11, <1>12, <1>13,
     <1>14, <1>15, <1>16, <1>17, <1>18, <1>19, <1>20, <1>21, <1>22, <1>23
     DEF Next, Request, Worker, LanThread, HttpThread, Reconnect, Master

-----------------------------------------------------------------------------
(* Which operations change what.                                           *)
PoolVarsChangedBy ==
    \/ UNCHANGED poolVars
    \/ \E c \in Client : OnClientJoin(c) \/ Free_Session(c)

SessionChangedBy ==
    \/ UNCHANGED session
    \/ \E c \in Client :
         \/ OnClientJoin(c) \/ Request_Session_Login(c)
         \/ Request_Session_Login_Version(c) \/ Request_Session_RoomInfo(c)
         \/ Request_Session_RoomEnter(c) \/ Free_Session(c)
    \/ Response_Session_RoomInfo
    \/ Response_Session_Login
    \/ Fail_HttpRequest_Retry

TaskChangedBy ==
    \/ UNCHANGED task
    \/ \E c \in Client :
         \/ Request_Session_RoomInfo(c) \/ Send_Master_Roominfo(c)
         \/ OnClientLeave(c) \/ Free_Session(c)
         \/ Fail_HttpRequest(c)
    \/ Recieve_MasterRequest_RoomInfo
    \/ Response_Session_RoomInfo
    \/ \E c \in Client, ok \in BOOLEAN : Receive_HttpRequest_SessionKey(c, ok)
    \/ Response_Session_Login
    \/ Fail_HttpRequest_Retry

HttpChangedBy ==
    \/ UNCHANGED http
    \/ \E c \in Client : Request_Session_Login(c) \/ Fail_HttpRequest(c)
    \/ \E c \in Client, ok \in BOOLEAN : Receive_HttpRequest_SessionKey(c, ok)
    \/ Fail_HttpRequest_Retry

ConnChangedBy ==
    \/ UNCHANGED conn
    \/ \E c \in Client :
         \/ OnClientJoin(c) \/ OnClientLeave(c)
         \/ Free_Session(c) \/ Hangup(c)
    \/ Fail_HttpRequest_Retry

PhaseChangedBy ==
    \/ UNCHANGED phase
    \/ \E c \in Client :
         \/ OnClientJoin(c) \/ Request_Session_Login(c)
         \/ Request_Session_Login_Version(c) \/ Request_Session_RoomInfo(c)
         \/ Request_Session_RoomEnter(c) \/ Hangup(c)
    \/ Response_Session_RoomInfo
    \/ Response_Session_Login
    \/ Fail_HttpRequest_Retry

LinkChangedBy ==
    \/ UNCHANGED link
    \/ Connect
    \/ OnEnterJoinServer
    \/ ReleaseSession

ToMasterChangedBy ==
    \/ UNCHANGED toMaster
    \/ \E c \in Client : Send_Master_Roominfo(c) \/ OnClientLeave(c)
    \/ Recieve_MasterRequest_Login
    \/ OnEnterJoinServer
    \/ Request_Match_Login
    \/ \E found \in BOOLEAN : Request_Match_RoomInfo(found)
    \/ Request_Match_UserEnterFail
    \/ ReleaseSession

ToMatchChangedBy ==
    \/ UNCHANGED toMatch
    \/ Recieve_MasterRequest_Login
    \/ Recieve_MasterRequest_RoomInfo
    \/ Request_Match_Login
    \/ \E found \in BOOLEAN : Request_Match_RoomInfo(found)
    \/ ReleaseSession

DropsChangedBy ==
    \/ UNCHANGED drops
    \/ ReleaseSession

MasterVarsChangedBy ==
    \/ UNCHANGED masterVars
    \/ \E found \in BOOLEAN : Request_Match_RoomInfo(found)
    \/ Request_Match_UserEnterFail

ResentChangedBy ==
    \/ UNCHANGED resent
    \/ Recieve_MasterRequest_Login

OverlapChangedBy ==
    \/ UNCHANGED overlap

LEMMA WhoChanges ==
    ASSUME [Next]_vars
    PROVE  /\ PoolVarsChangedBy /\ SessionChangedBy /\ TaskChangedBy
           /\ HttpChangedBy /\ ConnChangedBy /\ PhaseChangedBy
           /\ LinkChangedBy /\ ToMasterChangedBy /\ ToMatchChangedBy
           /\ DropsChangedBy /\ MasterVarsChangedBy /\ ResentChangedBy
           /\ OverlapChangedBy
<1> DEFINE Goal == PoolVarsChangedBy /\ SessionChangedBy /\ TaskChangedBy
                  /\ HttpChangedBy /\ ConnChangedBy /\ PhaseChangedBy
                  /\ LinkChangedBy /\ ToMasterChangedBy /\ ToMatchChangedBy
                  /\ DropsChangedBy /\ MasterVarsChangedBy /\ ResentChangedBy
                  /\ OverlapChangedBy
<1>1. ASSUME NEW c \in Client, OnClientJoin(c) PROVE Goal
  BY <1>1 DEF OnClientJoin, serverVars, poolVars, linkVars, masterVars, clientVars,
     PoolVarsChangedBy, SessionChangedBy, TaskChangedBy, HttpChangedBy,
     ConnChangedBy, PhaseChangedBy, LinkChangedBy, ToMasterChangedBy,
     ToMatchChangedBy, DropsChangedBy, MasterVarsChangedBy, ResentChangedBy,
     OverlapChangedBy
<1>2. ASSUME NEW c \in Client, Request_Session_Login(c) PROVE Goal
  BY <1>2 DEF Request_Session_Login, serverVars, poolVars, linkVars, masterVars, clientVars,
     PoolVarsChangedBy, SessionChangedBy, TaskChangedBy, HttpChangedBy,
     ConnChangedBy, PhaseChangedBy, LinkChangedBy, ToMasterChangedBy,
     ToMatchChangedBy, DropsChangedBy, MasterVarsChangedBy, ResentChangedBy,
     OverlapChangedBy
<1>3. ASSUME NEW c \in Client, Request_Session_Login_Version(c) PROVE Goal
  BY <1>3 DEF Request_Session_Login_Version, serverVars, poolVars, linkVars, masterVars, clientVars,
     PoolVarsChangedBy, SessionChangedBy, TaskChangedBy, HttpChangedBy,
     ConnChangedBy, PhaseChangedBy, LinkChangedBy, ToMasterChangedBy,
     ToMatchChangedBy, DropsChangedBy, MasterVarsChangedBy, ResentChangedBy,
     OverlapChangedBy
<1>4. ASSUME NEW c \in Client, Request_Session_RoomInfo(c) PROVE Goal
  BY <1>4 DEF Request_Session_RoomInfo, serverVars, poolVars, linkVars, masterVars, clientVars,
     PoolVarsChangedBy, SessionChangedBy, TaskChangedBy, HttpChangedBy,
     ConnChangedBy, PhaseChangedBy, LinkChangedBy, ToMasterChangedBy,
     ToMatchChangedBy, DropsChangedBy, MasterVarsChangedBy, ResentChangedBy,
     OverlapChangedBy
<1>5. ASSUME NEW c \in Client, Request_Session_RoomEnter(c) PROVE Goal
  BY <1>5 DEF Request_Session_RoomEnter, serverVars, poolVars, linkVars, masterVars, clientVars,
     PoolVarsChangedBy, SessionChangedBy, TaskChangedBy, HttpChangedBy,
     ConnChangedBy, PhaseChangedBy, LinkChangedBy, ToMasterChangedBy,
     ToMatchChangedBy, DropsChangedBy, MasterVarsChangedBy, ResentChangedBy,
     OverlapChangedBy
<1>6. ASSUME NEW c \in Client, Send_Master_Roominfo(c) PROVE Goal
  BY <1>6 DEF Send_Master_Roominfo, serverVars, poolVars, linkVars, masterVars, clientVars,
     PoolVarsChangedBy, SessionChangedBy, TaskChangedBy, HttpChangedBy,
     ConnChangedBy, PhaseChangedBy, LinkChangedBy, ToMasterChangedBy,
     ToMatchChangedBy, DropsChangedBy, MasterVarsChangedBy, ResentChangedBy,
     OverlapChangedBy
<1>7. ASSUME NEW c \in Client, OnClientLeave(c) PROVE Goal
  BY <1>7 DEF OnClientLeave, serverVars, poolVars, linkVars, masterVars, clientVars,
     PoolVarsChangedBy, SessionChangedBy, TaskChangedBy, HttpChangedBy,
     ConnChangedBy, PhaseChangedBy, LinkChangedBy, ToMasterChangedBy,
     ToMatchChangedBy, DropsChangedBy, MasterVarsChangedBy, ResentChangedBy,
     OverlapChangedBy
<1>8. ASSUME NEW c \in Client, Free_Session(c) PROVE Goal
  BY <1>8 DEF Free_Session, serverVars, poolVars, linkVars, masterVars, clientVars,
     PoolVarsChangedBy, SessionChangedBy, TaskChangedBy, HttpChangedBy,
     ConnChangedBy, PhaseChangedBy, LinkChangedBy, ToMasterChangedBy,
     ToMatchChangedBy, DropsChangedBy, MasterVarsChangedBy, ResentChangedBy,
     OverlapChangedBy
<1>9. ASSUME NEW c \in Client, Hangup(c) PROVE Goal
  BY <1>9 DEF Hangup, serverVars, poolVars, linkVars, masterVars, clientVars,
     PoolVarsChangedBy, SessionChangedBy, TaskChangedBy, HttpChangedBy,
     ConnChangedBy, PhaseChangedBy, LinkChangedBy, ToMasterChangedBy,
     ToMatchChangedBy, DropsChangedBy, MasterVarsChangedBy, ResentChangedBy,
     OverlapChangedBy
<1>10. CASE Recieve_MasterRequest_Login
  BY <1>10 DEF Recieve_MasterRequest_Login, FromMaster, serverVars, poolVars, linkVars, masterVars, clientVars,
     PoolVarsChangedBy, SessionChangedBy, TaskChangedBy, HttpChangedBy,
     ConnChangedBy, PhaseChangedBy, LinkChangedBy, ToMasterChangedBy,
     ToMatchChangedBy, DropsChangedBy, MasterVarsChangedBy, ResentChangedBy,
     OverlapChangedBy
<1>11. CASE Recieve_MasterRequest_RoomInfo
  BY <1>11 DEF Recieve_MasterRequest_RoomInfo, FromMaster, serverVars, poolVars, linkVars, masterVars, clientVars,
     PoolVarsChangedBy, SessionChangedBy, TaskChangedBy, HttpChangedBy,
     ConnChangedBy, PhaseChangedBy, LinkChangedBy, ToMasterChangedBy,
     ToMatchChangedBy, DropsChangedBy, MasterVarsChangedBy, ResentChangedBy,
     OverlapChangedBy
<1>12. CASE Response_Session_RoomInfo
  BY <1>12 DEF Response_Session_RoomInfo, serverVars, poolVars, linkVars, masterVars, clientVars,
     PoolVarsChangedBy, SessionChangedBy, TaskChangedBy, HttpChangedBy,
     ConnChangedBy, PhaseChangedBy, LinkChangedBy, ToMasterChangedBy,
     ToMatchChangedBy, DropsChangedBy, MasterVarsChangedBy, ResentChangedBy,
     OverlapChangedBy
<1>13. ASSUME NEW c \in Client, NEW ok \in BOOLEAN, Receive_HttpRequest_SessionKey(c, ok)
       PROVE  Goal
  BY <1>13 DEF Receive_HttpRequest_SessionKey, FromHttp, serverVars, poolVars, linkVars, masterVars, clientVars,
     PoolVarsChangedBy, SessionChangedBy, TaskChangedBy, HttpChangedBy,
     ConnChangedBy, PhaseChangedBy, LinkChangedBy, ToMasterChangedBy,
     ToMatchChangedBy, DropsChangedBy, MasterVarsChangedBy, ResentChangedBy,
     OverlapChangedBy
<1>14. ASSUME NEW c \in Client, Fail_HttpRequest(c) PROVE Goal
  BY <1>14 DEF Fail_HttpRequest, FromHttp, serverVars, poolVars, linkVars, masterVars, clientVars,
     PoolVarsChangedBy, SessionChangedBy, TaskChangedBy, HttpChangedBy,
     ConnChangedBy, PhaseChangedBy, LinkChangedBy, ToMasterChangedBy,
     ToMatchChangedBy, DropsChangedBy, MasterVarsChangedBy, ResentChangedBy,
     OverlapChangedBy
<1>15. CASE Response_Session_Login
  BY <1>15 DEF Response_Session_Login, serverVars, poolVars, linkVars, masterVars, clientVars,
     PoolVarsChangedBy, SessionChangedBy, TaskChangedBy, HttpChangedBy,
     ConnChangedBy, PhaseChangedBy, LinkChangedBy, ToMasterChangedBy,
     ToMatchChangedBy, DropsChangedBy, MasterVarsChangedBy, ResentChangedBy,
     OverlapChangedBy
<1>16. CASE Fail_HttpRequest_Retry
  BY <1>16 DEF Fail_HttpRequest_Retry, serverVars, poolVars, linkVars, masterVars, clientVars,
     PoolVarsChangedBy, SessionChangedBy, TaskChangedBy, HttpChangedBy,
     ConnChangedBy, PhaseChangedBy, LinkChangedBy, ToMasterChangedBy,
     ToMatchChangedBy, DropsChangedBy, MasterVarsChangedBy, ResentChangedBy,
     OverlapChangedBy
<1>17. CASE Connect
  BY <1>17 DEF Connect, serverVars, poolVars, linkVars, masterVars, clientVars,
     PoolVarsChangedBy, SessionChangedBy, TaskChangedBy, HttpChangedBy,
     ConnChangedBy, PhaseChangedBy, LinkChangedBy, ToMasterChangedBy,
     ToMatchChangedBy, DropsChangedBy, MasterVarsChangedBy, ResentChangedBy,
     OverlapChangedBy
<1>18. CASE OnEnterJoinServer
  BY <1>18 DEF OnEnterJoinServer, serverVars, poolVars, linkVars, masterVars, clientVars,
     PoolVarsChangedBy, SessionChangedBy, TaskChangedBy, HttpChangedBy,
     ConnChangedBy, PhaseChangedBy, LinkChangedBy, ToMasterChangedBy,
     ToMatchChangedBy, DropsChangedBy, MasterVarsChangedBy, ResentChangedBy,
     OverlapChangedBy
<1>19. CASE Request_Match_Login
  BY <1>19 DEF Request_Match_Login, AtMaster, serverVars, poolVars, linkVars, masterVars, clientVars,
     PoolVarsChangedBy, SessionChangedBy, TaskChangedBy, HttpChangedBy,
     ConnChangedBy, PhaseChangedBy, LinkChangedBy, ToMasterChangedBy,
     ToMatchChangedBy, DropsChangedBy, MasterVarsChangedBy, ResentChangedBy,
     OverlapChangedBy
<1>20. ASSUME NEW found \in BOOLEAN, Request_Match_RoomInfo(found) PROVE Goal
  BY <1>20 DEF Request_Match_RoomInfo, AtMaster, serverVars, poolVars, linkVars, masterVars, clientVars,
     PoolVarsChangedBy, SessionChangedBy, TaskChangedBy, HttpChangedBy,
     ConnChangedBy, PhaseChangedBy, LinkChangedBy, ToMasterChangedBy,
     ToMatchChangedBy, DropsChangedBy, MasterVarsChangedBy, ResentChangedBy,
     OverlapChangedBy
<1>21. CASE Request_Match_UserEnterFail
  BY <1>21 DEF Request_Match_UserEnterFail, AtMaster, serverVars, poolVars, linkVars, masterVars, clientVars,
     PoolVarsChangedBy, SessionChangedBy, TaskChangedBy, HttpChangedBy,
     ConnChangedBy, PhaseChangedBy, LinkChangedBy, ToMasterChangedBy,
     ToMatchChangedBy, DropsChangedBy, MasterVarsChangedBy, ResentChangedBy,
     OverlapChangedBy
<1>22. CASE ReleaseSession
  BY <1>22 DEF ReleaseSession, serverVars, poolVars, linkVars, masterVars, clientVars,
     PoolVarsChangedBy, SessionChangedBy, TaskChangedBy, HttpChangedBy,
     ConnChangedBy, PhaseChangedBy, LinkChangedBy, ToMasterChangedBy,
     ToMatchChangedBy, DropsChangedBy, MasterVarsChangedBy, ResentChangedBy,
     OverlapChangedBy
<1>23. CASE UNCHANGED vars
  BY <1>23 DEF vars, serverVars, poolVars, linkVars, masterVars, clientVars,
     PoolVarsChangedBy, SessionChangedBy, TaskChangedBy, HttpChangedBy,
     ConnChangedBy, PhaseChangedBy, LinkChangedBy, ToMasterChangedBy,
     ToMatchChangedBy, DropsChangedBy, MasterVarsChangedBy, ResentChangedBy,
     OverlapChangedBy
<1>24. Goal
  BY <1>1, <1>2, <1>3, <1>4, <1>5, <1>6, <1>7, <1>8, <1>9, <1>10, <1>11, <1>12, <1>13, <1>14, <1>15, <1>16, <1>17, <1>18, <1>19, <1>20, <1>21, <1>22, <1>23
     DEF Next, Request, Worker, LanThread, HttpThread, Reconnect, Master
<1> QED
  BY <1>24

-----------------------------------------------------------------------------
(* SessionInv is inductive: one lemma for each of its parts.               *)

(* The client of an object is set when it leaves the pool and when it goes *)
(* back to it.                                                             *)
LEMMA ClientsKept ==
    ASSUME SessionInv, [Next]_vars
    PROVE  \/ \E c \in Client : OnClientJoin(c) \/ Free_Session(c)
           \/ /\ UNCHANGED poolVars
              /\ \A o \in Object : session'[o].client = session[o].client
<1> DEFINE Kept == \A o \in Object : session'[o].client = session[o].client
<1> USE DEF SessionInv
<1>1. ASSUME NEW o \in sessionList, NEW s, SetStatus(o, s) PROVE Kept
  BY <1>1 DEF SetStatus, TypeOK, SessionRec
<1>2. ASSUME NEW c \in Client, Request_Session_Login(c) PROVE Kept
  BY <1>1, <1>2 DEF Request_Session_Login, Find_Session
<1>3. ASSUME NEW c \in Client, Request_Session_Login_Version(c) PROVE Kept
  BY <1>1, <1>3 DEF Request_Session_Login_Version, Find_Session
<1>4. ASSUME NEW c \in Client, Request_Session_RoomInfo(c) PROVE Kept
  BY <1>1, <1>4 DEF Request_Session_RoomInfo, Find_Session
<1>5. ASSUME NEW c \in Client, Request_Session_RoomEnter(c) PROVE Kept
  BY <1>1, <1>5 DEF Request_Session_RoomEnter, Find_Session
<1>6. ASSUME Response_Session_RoomInfo PROVE Kept
  BY <1>6 DEF Response_Session_RoomInfo, SetStatus, TypeOK, SessionRec
<1>7. ASSUME Response_Session_Login PROVE Kept
  BY <1>7 DEF Response_Session_Login, SetStatus, TypeOK, SessionRec
<1>8. ASSUME Fail_HttpRequest_Retry PROVE Kept
  BY <1>8 DEF Fail_HttpRequest_Retry, TypeOK, SessionRec
<1> HIDE DEF SessionInv
<1>9. ASSUME UNCHANGED session PROVE Kept
  BY <1>9
<1>10. Kept \/ \E c \in Client : OnClientJoin(c) \/ Free_Session(c)
  <2> HIDE DEF Kept
  <2> QED
    BY <1>2, <1>3, <1>4, <1>5, <1>6, <1>7, <1>8, <1>9, WhoChanges DEF SessionChangedBy
<1> QED
  BY <1>10, WhoChanges DEF PoolVarsChangedBy

(* A client stays connected until its session is freed, and is not served  *)
(* again after that.                                                       *)
LEMMA ConnMoves ==
    ASSUME SessionInv, [Next]_vars
    PROVE  /\ \A c \in Client : conn[c] = "gone" => conn'[c] = "gone"
           /\ \A c \in Client : conn'[c] = "out" => conn[c] = "out"
           /\ \/ \E c \in Client : OnClientJoin(c) \/ Free_Session(c)
              \/ \A c \in Client : conn'[c] \in Listed <=> conn[c] \in Listed
<1> DEFINE Goal == /\ \A c \in Client : conn[c] = "gone" => conn'[c] = "gone"
                   /\ \A c \in Client : conn'[c] = "out" => conn[c] = "out"
                   /\ \/ \E c \in Client : OnClientJoin(c) \/ Free_Session(c)
                      \/ \A c \in Client : conn'[c] \in Listed <=> conn[c] \in Listed
<1> USE DEF SessionInv, TypeOK, Listed
<1>1. ASSUME NEW c \in Client, OnClientJoin(c) PROVE Goal
  BY <1>1 DEF OnClientJoin
<1>2. ASSUME NEW c \in Client, OnClientLeave(c) PROVE Goal
  BY <1>2 DEF OnClientLeave
<1>3. ASSUME NEW c \in Client, Free_Session(c) PROVE Goal
  BY <1>3 DEF Free_Session, FreeOK
<1>4. ASSUME NEW c \in Client, Hangup(c) PROVE Goal
  BY <1>4 DEF Hangup, Close
<1>5. ASSUME Fail_HttpRequest_Retry PROVE Goal
  BY <1>5 DEF Fail_HttpRequest_Retry, Close
<1>6. ASSUME UNCHANGED conn PROVE Goal
  BY <1>6
<1> HIDE DEF Goal, SessionInv, TypeOK, Listed
<1>7. Goal
  BY <1>1, <1>2, <1>3, <1>4, <1>5, <1>6, WhoChanges DEF ConnChangedBy
<1> QED
  BY <1>7 DEF Goal

LEMMA TasksStep == SessionInv /\ [Next]_vars => TasksOK'
<1> SUFFICES ASSUME SessionInv, [Next]_vars PROVE TasksOK'
  OBVIOUS
<1> USE MatchmakingAssumption DEF SessionInv, TypeOK, TasksOK, Thread
<1>1. ASSUME NEW c \in Client, Request_Session_RoomInfo(c) PROVE TasksOK'
  BY <1>1 DEF Request_Session_RoomInfo, Begin, Find_Session
<1>2. ASSUME NEW c \in Client, Send_Master_Roominfo(c) PROVE TasksOK'
  BY <1>2 DEF Send_Master_Roominfo, Return, Idle
<1>3. ASSUME NEW c \in Client, OnClientLeave(c) PROVE TasksOK'
  BY <1>3 DEF OnClientLeave, Begin, Find_Session
<1>4. ASSUME NEW c \in Client, Free_Session(c) PROVE TasksOK'
  BY <1>4 DEF Free_Session, Return, Idle
<1>5. ASSUME NEW c \in Client, Fail_HttpRequest(c) PROVE TasksOK'
  BY <1>5 DEF Fail_HttpRequest, FromHttp, Begin, Find_Session
<1>6. CASE Recieve_MasterRequest_RoomInfo
  BY <1>6 DEF Recieve_MasterRequest_RoomInfo, Begin, Find_Session
<1>7. CASE Response_Session_RoomInfo
  BY <1>7 DEF Response_Session_RoomInfo, Return, Idle
<1>8. ASSUME NEW c \in Client, NEW ok \in BOOLEAN, Receive_HttpRequest_SessionKey(c, ok)
      PROVE  TasksOK'
  BY <1>8 DEF Receive_HttpRequest_SessionKey, FromHttp, Begin, Find_Session
<1>9. CASE Response_Session_Login
  BY <1>9 DEF Response_Session_Login, Return, Idle
<1>10. CASE Fail_HttpRequest_Retry
  BY <1>10 DEF Fail_HttpRequest_Retry, Return, Idle
<1>11. CASE UNCHANGED task
  BY <1>11
<1> HIDE DEF TasksOK, SessionInv, TypeOK, Thread
<1> QED
  BY <1>1, <1>2, <1>3, <1>4, <1>5, <1>6, <1>7, <1>8, <1>9, <1>10, <1>11, WhoChanges
     DEF TaskChangedBy

LEMMA PoolStep == SessionInv /\ [Next]_vars => PoolOK'
<1> SUFFICES ASSUME SessionInv, [Next]_vars PROVE PoolOK'
  OBVIOUS
<1> USE DEF SessionInv, TypeOK, PoolOK
<1>1. ASSUME NEW c \in Client, OnClientJoin(c) PROVE PoolOK'
  <2>1. /\ pool' = Tail(pool) /\ sessionList' = sessionList \cup {pool[1]} /\ pool # <<>>
        /\ pool \in Seq(Object) /\ Head(pool) = pool[1]
    BY <1>1 DEF OnClientJoin
  <2>2. /\ 1 \in DOMAIN pool
        /\ \A i \in DOMAIN Tail(pool) : /\ i + 1 \in DOMAIN pool /\ i + 1 # 1
                                        /\ Tail(pool)[i] = pool[i + 1]
    BY <2>1
  <2>3. ASSUME NEW i \in DOMAIN pool', NEW j \in DOMAIN pool', pool'[i] = pool'[j]
        PROVE  i = j
    BY <2>1, <2>3, <2>2
  <2>4. ASSUME NEW i \in DOMAIN pool' PROVE pool'[i] \notin sessionList'
    BY <2>1, <2>2, <2>4
  <2> QED
    BY <2>3, <2>4
<1>2. ASSUME NEW c \in Client, Free_Session(c) PROVE PoolOK'
  <2> DEFINE o == task[c].session
  <2>1. o \in sessionList
    BY <1>2 DEF Free_Session, FreeOK, Find_Session
  <2> HIDE DEF o
  <2>2. /\ pool' = <<o>> \o pool /\ sessionList' = sessionList \ {o}
        /\ pool \in Seq(Object) /\ o \in Object
    BY <1>2, <2>1 DEF Free_Session, o
  <2>3. \A i \in DOMAIN pool' :
          /\ i \in Int
          /\ i # 1 => i - 1 \in DOMAIN pool /\ pool'[i] = pool[i - 1]
          /\ i = 1 => pool'[i] = o
    BY <2>2
  <2>4. ASSUME NEW i \in DOMAIN pool', NEW j \in DOMAIN pool', pool'[i] = pool'[j]
        PROVE  i = j
    <3>1. CASE i # 1 /\ j # 1
      BY <2>3, <2>4, <3>1
    <3>2. CASE i = 1 \/ j = 1
      BY <2>1, <2>3, <2>4, <3>2
    <3> QED
      BY <3>1, <3>2
  <2>5. ASSUME NEW i \in DOMAIN pool' PROVE pool'[i] \notin sessionList'
    BY <2>2, <2>3, <2>5
  <2> QED
    BY <2>4, <2>5
<1>3. CASE UNCHANGED poolVars
  BY <1>3 DEF poolVars
<1> HIDE DEF SessionInv, TypeOK, PoolOK
<1> QED
  BY <1>1, <1>2, <1>3, WhoChanges DEF PoolVarsChangedBy

(* OnClientJoin takes an object that is not listed, for a client that has  *)
(* none; Free_Session takes the only one its client has.                   *)
LEMMA JoinEffect ==
    ASSUME SessionInv, NEW c \in Client, OnClientJoin(c)
    PROVE  \E o \in Object :
             /\ o \notin sessionList /\ sessionList' = sessionList \cup {o}
             /\ session'[o] = Init_Session(c) /\ session'[o].client = c
             /\ \A p \in Object : p # o => session'[p] = session[p]
             /\ \A p \in sessionList : session'[p] = session[p] /\ session[p].client # c
             /\ conn[c] = "out" /\ conn'[c] = "up" /\ phase'[c] = "joined"
             /\ \A d \in Client : d # c => conn'[d] = conn[d] /\ phase'[d] = phase[d]
<1>1. /\ pool \in Seq(Object) /\ pool # <<>>
      /\ sessionList' = sessionList \cup {Head(pool)}
      /\ session' = [session EXCEPT ![Head(pool)] = Init_Session(c)]
      /\ conn[c] = "out" /\ conn' = [conn EXCEPT ![c] = "up"]
      /\ phase' = [phase EXCEPT ![c] = "joined"]
  BY DEF OnClientJoin, SessionInv, TypeOK
<1>2. Head(pool) \in Object /\ Head(pool) \notin sessionList
  BY <1>1, TailElements DEF PoolOK, SessionInv
<1>3. \A p \in sessionList : p \in Object /\ session[p].client # c
  BY <1>1 DEF ListOK, Listed, SessionInv, TypeOK
<1>4. Init_Session(c).client = c
  BY DEF Init_Session
<1>5. /\ conn \in [Client -> {"out", "up", "closing", "leaving", "gone"}]
      /\ phase \in [Client -> Phase] /\ session \in [Object -> SessionRec]
  BY DEF SessionInv, TypeOK
<1>6. /\ conn'[c] = "up" /\ phase'[c] = "joined"
      /\ \A d \in Client : d # c => conn'[d] = conn[d] /\ phase'[d] = phase[d]
  BY <1>1, <1>5
<1>7. /\ session'[Head(pool)] = Init_Session(c)
      /\ \A p \in Object : p # Head(pool) => session'[p] = session[p]
  BY <1>1, <1>2, <1>5
<1>8. \A p \in sessionList : session'[p] = session[p]
  BY <1>2, <1>3, <1>7
<1> QED
  BY <1>1, <1>2, <1>3, <1>4, <1>6, <1>7, <1>8

LEMMA FreeEffect ==
    ASSUME SessionInv, NEW c \in Client, Free_Session(c)
    PROVE  \E o \in Object :
             /\ o = task[c].session
             /\ o \in sessionList /\ sessionList' = sessionList \ {o}
             /\ session[o].client = c
             /\ \A p \in Object : p # o => session'[p] = session[p]
             /\ session'[o] \in {session[o], Init_Session(NoClient)}
             /\ (\E t \in Thread \ {c} : task[t].session = o) => session' = session
             /\ \A p \in sessionList' : session'[p] = session[p] /\ session[p].client # c
             /\ conn[c] = "leaving" /\ conn'[c] = "gone"
             /\ \A d \in Client : d # c => conn'[d] = conn[d]
             /\ task'[c] = Idle
             /\ \A t \in Thread : t # c => task'[t] = task[t]
<1> DEFINE o == task[c].session
<1>1. o \in sessionList /\ session[o].client = c /\ conn[c] = "leaving" /\ o \in Object
  BY DEF Free_Session, FreeOK, Find_Session, SessionInv, TypeOK
<1>2. sessionList' = sessionList \ {o}
  BY DEF Free_Session
<1>3. \A p \in sessionList' : p \in Object /\ p # o /\ session[p].client # c
  BY <1>1, <1>2 DEF ListOK, SessionInv, TypeOK
<1>4. /\ conn \in [Client -> {"out", "up", "closing", "leaving", "gone"}]
      /\ task \in [Thread -> TaskRec] /\ session \in [Object -> SessionRec]
      /\ c \in Thread
  BY DEF SessionInv, TypeOK, Thread
<1>5. /\ conn' = [conn EXCEPT ![c] = "gone"] /\ task' = [task EXCEPT ![c] = Idle]
      /\ session' = IF \E t \in Thread \ {c} : task[t].session = o THEN session
                    ELSE [session EXCEPT ![o] = Init_Session(NoClient)]
  BY DEF Free_Session, Return
<1> HIDE DEF o
<1>6. /\ conn'[c] = "gone" /\ \A d \in Client : d # c => conn'[d] = conn[d]
      /\ task'[c] = Idle /\ \A t \in Thread : t # c => task'[t] = task[t]
  BY <1>4, <1>5
<1>7. /\ \A p \in Object : p # o => session'[p] = session[p]
      /\ session'[o] \in {session[o], Init_Session(NoClient)}
      /\ (\E t \in Thread \ {c} : task[t].session = o) => session' = session
  BY <1>1, <1>4, <1>5
<1>8. \A p \in sessionList' : session'[p] = session[p]
  BY <1>3, <1>7
<1>9. o = task[c].session
  BY DEF o
<1> QED
  BY <1>1, <1>2, <1>3, <1>6, <1>7, <1>8, <1>9

LEMMA ListStep == SessionInv /\ [Next]_vars => ListOK'
<1> SUFFICES ASSUME SessionInv, [Next]_vars PROVE ListOK'
  OBVIOUS
<1>0. /\ \A o \in sessionList : o \in Object /\ session[o].client \in Client
      /\ \A o, p \in sessionList : session[o].client = session[p].client => o = p
      /\ \A o \in sessionList : conn[session[o].client] \in Listed
      /\ \A c \in Client : conn[c] \in Listed => \E o \in sessionList : session[o].client = c
  BY DEF SessionInv, TypeOK, ListOK, Find_Session
<1> DEFINE Goal == /\ \A o \in sessionList' : session'[o].client \in Client
                   /\ \A o, p \in sessionList' : session'[o].client = session'[p].client => o = p
                   /\ \A o \in sessionList' : conn'[session'[o].client] \in Listed
                   /\ \A c \in Client : conn'[c] \in Listed =>
                         \E o \in sessionList' : session'[o].client = c
<1>1. ASSUME NEW c \in Client, OnClientJoin(c) PROVE Goal
  BY <1>1, JoinEffect, <1>0 DEF Listed
<1>2. ASSUME NEW c \in Client, Free_Session(c) PROVE Goal
  BY <1>2, FreeEffect, <1>0 DEF Listed
<1>3. ASSUME UNCHANGED poolVars, \A o \in Object : session'[o].client = session[o].client,
             \A c \in Client : conn'[c] \in Listed <=> conn[c] \in Listed
      PROVE  Goal
  BY <1>3, <1>0 DEF poolVars
<1> HIDE DEF Goal
<1>4. Goal
  BY <1>1, <1>2, <1>3, ClientsKept, ConnMoves
<1> QED
  BY <1>4 DEF Goal, ListOK, Find_Session

(* Of the tasks of workers, only OnClientLeave starts one that frees, only *)
(* Free_Session ends it.                                                   *)
LEMMA WorkerTasks ==
    ASSUME SessionInv, [Next]_vars, NEW c \in Client
    PROVE  \/ OnClientLeave(c)
           \/ Free_Session(c)
           \/ task'[c] = task[c] /\ (conn'[c] = "leaving" <=> conn[c] = "leaving")
           \/ /\ task[c].step # "free" /\ task'[c].step # "free"
              /\ conn'[c] = conn[c]
<1> DEFINE Kept  == task'[c] = task[c]
           Other == task[c].step # "free" /\ task'[c].step # "free" /\ conn'[c] = conn[c]
           Ends  == OnClientLeave(c) \/ Free_Session(c)
<1>0. /\ task \in [Thread -> TaskRec] /\ c \in Thread /\ c # Lan /\ c # Http
      /\ conn \in [Client -> {"out", "up", "closing", "leaving", "gone"}]
      /\ Lan \in Thread /\ Http \in Thread
  BY MatchmakingAssumption DEF SessionInv, TypeOK, Thread
<1>1. Kept \/ Other \/ Ends
  <2>1. ASSUME NEW d \in Client, Request_Session_RoomInfo(d) PROVE Kept \/ Other
    BY <1>0, <2>1 DEF Request_Session_RoomInfo, OnRecv, CanStart, Begin, Idle
  <2>2. ASSUME NEW d \in Client, Send_Master_Roominfo(d) PROVE Kept \/ Other
    BY <1>0, <2>2 DEF Send_Master_Roominfo, At, Return, Idle, clientVars
  <2>3. ASSUME NEW d \in Client, OnClientLeave(d) PROVE Kept \/ Ends
    BY <1>0, <2>3 DEF OnClientLeave, Begin
  <2>4. ASSUME NEW d \in Client, Free_Session(d) PROVE Kept \/ Ends
    BY <1>0, <2>4 DEF Free_Session, Return
  <2>5. ASSUME NEW d \in Client, Fail_HttpRequest(d) PROVE Kept
    BY <1>0, <2>5 DEF Fail_HttpRequest, FromHttp, Begin
  <2>6. ASSUME Recieve_MasterRequest_RoomInfo PROVE Kept
    BY <1>0, <2>6 DEF Recieve_MasterRequest_RoomInfo, Begin
  <2>7. ASSUME Response_Session_RoomInfo PROVE Kept
    BY <1>0, <2>7 DEF Response_Session_RoomInfo, Return
  <2>8. ASSUME NEW d \in Client, NEW ok \in BOOLEAN, Receive_HttpRequest_SessionKey(d, ok)
        PROVE  Kept
    BY <1>0, <2>8 DEF Receive_HttpRequest_SessionKey, FromHttp, Begin
  <2>9. ASSUME Response_Session_Login PROVE Kept
    BY <1>0, <2>9 DEF Response_Session_Login, Return
  <2>10. ASSUME Fail_HttpRequest_Retry PROVE Kept
    BY <1>0, <2>10 DEF Fail_HttpRequest_Retry, Return
  <2>11. ASSUME UNCHANGED task PROVE Kept
    BY <2>11
  <2> HIDE DEF Kept, Other, Ends
  <2> QED
    BY <2>1, <2>2, <2>3, <2>4, <2>5, <2>6, <2>7, <2>8, <2>9, <2>10, <2>11, WhoChanges
       DEF TaskChangedBy
<1> DEFINE Same == conn'[c] = "leaving" <=> conn[c] = "leaving"
<1>2. Same \/ Ends
  <2>1. ASSUME NEW d \in Client, OnClientJoin(d) PROVE Same
    BY <1>0, <2>1 DEF OnClientJoin
  <2>2. ASSUME NEW d \in Client, OnClientLeave(d) PROVE Same \/ Ends
    BY <1>0, <2>2 DEF OnClientLeave
  <2>3. ASSUME NEW d \in Client, Free_Session(d) PROVE Same \/ Ends
    BY <1>0, <2>3 DEF Free_Session
  <2>4. ASSUME NEW d \in Client, Hangup(d) PROVE Same
    BY <1>0, <2>4 DEF Hangup, Close
  <2>5. ASSUME Fail_HttpRequest_Retry PROVE Same
    BY <1>0, <2>5 DEF Fail_HttpRequest_Retry, Close
  <2>6. ASSUME UNCHANGED conn PROVE Same
    BY <2>6
  <2> HIDE DEF Same, Ends
  <2> QED
    BY <2>1, <2>2, <2>3, <2>4, <2>5, <2>6, WhoChanges DEF ConnChangedBy
<1> QED
  BY <1>1, <1>2

LEMMA FreeStep == SessionInv /\ [Next]_vars => FreeOK'
<1> SUFFICES ASSUME SessionInv, [Next]_vars, NEW c \in Client
             PROVE  /\ conn'[c] = "leaving" <=> task'[c].step = "free"
                    /\ task'[c].step = "free" =>
                         /\ task'[c].session \in sessionList'
                         /\ session'[task'[c].session].client = c
  BY DEF FreeOK, At, Find_Session
<1>1. /\ conn[c] = "leaving" <=> task[c].step = "free"
      /\ task[c].step = "free" =>
           task[c].session \in sessionList /\ session[task[c].session].client = c
      /\ sessionList \subseteq Object
  BY DEF SessionInv, FreeOK, At, Find_Session, TypeOK
<1>2. CASE OnClientLeave(c)
  BY <1>2 DEF OnClientLeave, Find_Session, SessionInv, TypeOK, Thread, Begin, poolVars
<1>3. CASE Free_Session(c)
  BY <1>3, FreeEffect DEF Idle
<1>4. CASE task'[c] = task[c] /\ (conn'[c] = "leaving" <=> conn[c] = "leaving")
  <2> DEFINE o == task[c].session
  <2>1. SUFFICES ASSUME task[c].step = "free"
                 PROVE  o \in sessionList' /\ session'[o].client = c
    BY <1>1, <1>4
  <2>2. o \in sessionList /\ session[o].client = c /\ o \in Object
    BY <1>1, <2>1
  <2> HIDE DEF o
  <2>3. ASSUME NEW d \in Client, OnClientJoin(d)
        PROVE  o \in sessionList' /\ session'[o].client = c
    BY <2>2, <2>3, JoinEffect
  <2>4. ASSUME NEW d \in Client, Free_Session(d)
        PROVE  o \in sessionList' /\ session'[o].client = c
    BY <2>4, FreeEffect, <1>1, <1>4, <2>1, <2>2
  <2>5. ASSUME UNCHANGED poolVars, \A p \in Object : session'[p].client = session[p].client
        PROVE  o \in sessionList' /\ session'[o].client = c
    BY <2>2, <2>5 DEF poolVars
  <2> QED
    BY <2>3, <2>4, <2>5, ClientsKept
<1>5. CASE task[c].step # "free" /\ task'[c].step # "free" /\ conn'[c] = conn[c]
  BY <1>1, <1>5
<1> QED
  BY <1>2, <1>3, <1>4, <1>5, WorkerTasks

(* A task has the object of its client when it begins, and keeps it.       *)
LEMMA TaskSessions ==
    ASSUME SessionInv, [Next]_vars, NEW t \in Thread
    PROVE  \/ task'[t] = task[t]
           \/ task'[t] = Idle
           \/ task'[t].session \in sessionList /\ sessionList' = sessionList /\ task[t] = Idle
<1> DEFINE Goal == \/ task'[t] = task[t]
                   \/ task'[t] = Idle
                   \/ /\ task'[t].session \in sessionList /\ sessionList' = sessionList
                      /\ task[t] = Idle
<1>0. task \in [Thread -> TaskRec] /\ Lan \in Thread /\ Http \in Thread /\ Client \subseteq Thread
  BY DEF SessionInv, TypeOK, Thread
<1>1. ASSUME NEW d \in Thread, NEW s, NEW o \in sessionList, NEW ok, Begin(d, s, o, ok),
             CanStart(d), UNCHANGED poolVars
      PROVE  Goal
  BY <1>0, <1>1 DEF Begin, poolVars, CanStart
<1>2. ASSUME NEW d \in Thread, Return(d) PROVE Goal
  BY <1>0, <1>2 DEF Return
<1>3. ASSUME UNCHANGED task PROVE Goal
  BY <1>3
<1> HIDE DEF Goal
<1>4. ASSUME NEW c \in Client, Request_Session_RoomInfo(c) PROVE Goal
  BY <1>0, <1>1, <1>4 DEF Request_Session_RoomInfo, OnRecv, Find_Session
<1>5. ASSUME NEW c \in Client, Send_Master_Roominfo(c) \/ Free_Session(c) PROVE Goal
  BY <1>0, <1>2, <1>5 DEF Send_Master_Roominfo, Free_Session
<1>6. ASSUME NEW c \in Client, OnClientLeave(c) PROVE Goal
  BY <1>0, <1>1, <1>6 DEF OnClientLeave, Find_Session
<1>7. ASSUME NEW c \in Client, Fail_HttpRequest(c) PROVE Goal
  BY <1>0, <1>1, <1>3, <1>7 DEF Fail_HttpRequest, FromHttp, Find_Session, serverVars
<1>8. ASSUME NEW c \in Client, NEW ok \in BOOLEAN, Receive_HttpRequest_SessionKey(c, ok)
      PROVE  Goal
  BY <1>0, <1>1, <1>3, <1>8
     DEF Receive_HttpRequest_SessionKey, FromHttp, Find_Session, serverVars
<1>9. ASSUME Recieve_MasterRequest_RoomInfo PROVE Goal
  BY <1>0, <1>1, <1>3, <1>9
     DEF Recieve_MasterRequest_RoomInfo, FromMaster, Find_Session, serverVars
<1>10. ASSUME Response_Session_RoomInfo \/ Response_Session_Login \/ Fail_HttpRequest_Retry
       PROVE  Goal
  BY <1>0, <1>2, <1>10
     DEF Response_Session_RoomInfo, Response_Session_Login, Fail_HttpRequest_Retry
<1>11. Goal
  BY <1>3, <1>4, <1>5, <1>6, <1>7, <1>8, <1>9, <1>10, WhoChanges DEF TaskChangedBy
<1> QED
  BY <1>11 DEF Goal

LEMMA PointersStep == SessionInv /\ [Next]_vars => PointersOK'
<1> SUFFICES ASSUME SessionInv, [Next]_vars PROVE PointersOK'
  OBVIOUS
<1>0. /\ \A o \in sessionList : o \in Object /\ session[o].client \in Client
      /\ \A t \in Thread :
           task[t].session \in Object => session[task[t].session].client \in Client
      /\ \A o \in Object : o \notin sessionList =>
           session[o].client = NoClient \/ conn[session[o].client] = "gone"
      /\ \A t \in Thread : task[t] \in TaskRec
      /\ Idle.session \notin Object /\ NoClient \notin Client
      /\ session \in [Object -> SessionRec]
  BY MatchmakingAssumption DEF SessionInv, TypeOK, ListOK, PointersOK, Idle
<1>1. ASSUME NEW t \in Thread, task'[t].session \in Object
      PROVE  session'[task'[t].session].client \in Client
  <2> DEFINE o == task'[t].session
  <2>1. session[o].client \in Client
    BY <1>0, <1>1, TaskSessions
  <2>2. o \in Object
    BY <1>1
  <2> HIDE DEF o
  <2>3. ASSUME NEW d \in Client, OnClientJoin(d) PROVE session'[o].client \in Client
    BY <2>1, <2>2, <2>3, JoinEffect
  <2>4. ASSUME NEW d \in Client, Free_Session(d) PROVE session'[o].client \in Client
    BY <2>4, FreeEffect, <1>0, <1>1, <2>1, <2>2 DEF o
  <2>5. CASE \A p \in Object : session'[p].client = session[p].client
    BY <2>1, <2>2, <2>5 DEF o
  <2> QED
    BY <2>3, <2>4, <2>5, ClientsKept DEF o
<1>2. ASSUME NEW o \in Object, o \notin sessionList'
      PROVE  session'[o].client = NoClient \/ conn'[session'[o].client] = "gone"
  <2>1. \A c \in Client : conn[c] = "gone" => conn'[c] = "gone"
    BY ConnMoves
  <2>2. session[o].client \in Client \cup {NoClient}
    BY <1>0 DEF SessionRec
  <2>3. ASSUME NEW d \in Client, OnClientJoin(d)
        PROVE  session'[o].client = NoClient \/ conn'[session'[o].client] = "gone"
    BY <1>0, <1>2, <2>1, <2>2, <2>3, JoinEffect
  <2>4. ASSUME NEW d \in Client, Free_Session(d)
        PROVE  session'[o].client = NoClient \/ conn'[session'[o].client] = "gone"
    BY <2>4, FreeEffect, <1>0, <1>2, <2>1, <2>2 DEF Init_Session
  <2>5. ASSUME UNCHANGED poolVars, \A p \in Object : session'[p].client = session[p].client
        PROVE  session'[o].client = NoClient \/ conn'[session'[o].client] = "gone"
    BY <1>0, <1>2, <2>1, <2>2, <2>5 DEF poolVars
  <2> QED
    BY <2>3, <2>4, <2>5, ClientsKept
<1> QED
  BY <1>1, <1>2 DEF PointersOK

LEMMA WaitStep == SessionInv /\ [Next]_vars => WaitOK'
<1> SUFFICES ASSUME SessionInv, [Next]_vars PROVE WaitOK'
  OBVIOUS
<1> DEFINE Goal == \A c \in Client : IF conn'[c] = "up" THEN phase'[c] # "out"
                                     ELSE phase'[c] \in {"out", "inside"}
<1>0. /\ conn \in [Client -> {"out", "up", "closing", "leaving", "gone"}]
      /\ phase \in [Client -> Phase]
      /\ \A c \in Client : IF conn[c] = "up" THEN phase[c] # "out"
                           ELSE phase[c] \in {"out", "inside"}
  BY DEF SessionInv, TypeOK, WaitOK
<1>1. ASSUME NEW c \in Client, OnClientJoin(c) PROVE Goal
  BY <1>0, <1>1 DEF OnClientJoin
<1>2. ASSUME NEW c \in Client, Request_Session_Login(c) PROVE Goal
  BY <1>0, <1>2 DEF Request_Session_Login, OnRecv
<1>3. ASSUME NEW c \in Client, Request_Session_Login_Version(c) PROVE Goal
  BY <1>0, <1>3 DEF Request_Session_Login_Version, OnRecv
<1>4. ASSUME NEW c \in Client, Request_Session_RoomInfo(c) PROVE Goal
  BY <1>0, <1>4 DEF Request_Session_RoomInfo, OnRecv
<1>5. ASSUME NEW c \in Client, Request_Session_RoomEnter(c) PROVE Goal
  BY <1>0, <1>5 DEF Request_Session_RoomEnter, OnRecv
<1>6. ASSUME NEW c \in Client, OnClientLeave(c) PROVE Goal
  BY <1>0, <1>6 DEF OnClientLeave
<1>7. ASSUME NEW c \in Client, Free_Session(c) PROVE Goal
  <2>1. conn[c] = "leaving"
    BY <1>7, FreeEffect
  <2> QED
    BY <1>0, <1>7, <2>1 DEF Free_Session
<1>8. ASSUME NEW c \in Client, Close(c) PROVE Goal
  BY <1>0, <1>8 DEF Close
<1>9. ASSUME NEW c, NEW reply \in {"LOGIN_OK", "LOGIN_ERROR", "ROOM", "NO_ROOM"},
             Tell(c, reply), UNCHANGED conn
      PROVE  Goal
  BY <1>0, <1>9 DEF Leads, Tell
<1>10. ASSUME UNCHANGED <<conn, phase>> PROVE Goal
  BY <1>0, <1>10
<1> HIDE DEF Goal
<1>11. ASSUME NEW c \in Client, Hangup(c) PROVE Goal
  BY <1>8, <1>11 DEF Hangup
<1>12. ASSUME Response_Session_RoomInfo PROVE Goal
  BY <1>9, <1>12 DEF Response_Session_RoomInfo
<1>13. ASSUME Response_Session_Login PROVE Goal
  BY <1>9, <1>13 DEF Response_Session_Login
<1>14. ASSUME Fail_HttpRequest_Retry PROVE Goal
  BY <1>14, <1>8, <1>10 DEF Fail_HttpRequest_Retry, SessionInv, TasksOK, At, Idle, Thread,
     PointersOK
<1>15. Goal
  BY <1>1, <1>2, <1>3, <1>4, <1>5, <1>6, <1>7, <1>10, <1>11, <1>12, <1>13, <1>14,
     WhoChanges DEF ConnChangedBy, PhaseChangedBy
<1> QED
  BY <1>15 DEF Goal, WaitOK

(* Only Request_Session_Login makes a client wait for its login.           *)
LEMMA LoginPhase ==
    ASSUME SessionInv, [Next]_vars, NEW c \in Client, phase'[c] = "login"
    PROVE  phase[c] = "login" \/ Request_Session_Login(c)
<1> DEFINE Goal == phase[c] = "login" \/ Request_Session_Login(c)
<1>0. phase \in [Client -> Phase]
  BY DEF SessionInv, TypeOK
<1>1. ASSUME NEW d \in Client, OnClientJoin(d) PROVE Goal
  BY <1>0, <1>1 DEF OnClientJoin
<1>2. ASSUME NEW d \in Client, Request_Session_Login(d) PROVE Goal
  BY <1>0, <1>2 DEF Request_Session_Login
<1>3. ASSUME NEW d \in Client, Request_Session_Login_Version(d) PROVE Goal
  BY <1>0, <1>3 DEF Request_Session_Login_Version
<1>4. ASSUME NEW d \in Client, Request_Session_RoomInfo(d) PROVE Goal
  BY <1>0, <1>4 DEF Request_Session_RoomInfo
<1>5. ASSUME NEW d \in Client, Request_Session_RoomEnter(d) PROVE Goal
  BY <1>0, <1>5 DEF Request_Session_RoomEnter
<1>6. ASSUME NEW d, Close(d) \/ UNCHANGED phase PROVE Goal
  BY <1>0, <1>6 DEF Close
<1>7. ASSUME NEW d, NEW reply \in {"LOGIN_OK", "LOGIN_ERROR", "ROOM", "NO_ROOM"},
             Tell(d, reply)
      PROVE  Goal
  BY <1>0, <1>7 DEF Leads, Tell
<1> HIDE DEF Goal
<1>8. ASSUME NEW d \in Client, Hangup(d) PROVE Goal
  BY <1>6, <1>8 DEF Hangup
<1>9. ASSUME Response_Session_RoomInfo \/ Response_Session_Login PROVE Goal
  BY <1>7, <1>9 DEF Response_Session_RoomInfo, Response_Session_Login
<1>10. ASSUME Fail_HttpRequest_Retry PROVE Goal
  BY <1>6, <1>10 DEF Fail_HttpRequest_Retry
<1>11. Goal
  BY <1>1, <1>2, <1>3, <1>4, <1>5, <1>6, <1>8, <1>9, <1>10, WhoChanges DEF PhaseChangedBy
<1> QED
  BY <1>11 DEF Goal

(* The object of a client that waits keeps naming it.                      *)
LEMMA WaiterNamed ==
    ASSUME SessionInv, [Next]_vars, NEW c \in Client, conn[c] = "up",
           NEW o \in Object, session[o].client = c
    PROVE  o \in sessionList /\ o \in sessionList' /\ session'[o].client = c
  BY MatchmakingAssumption, JoinEffect, FreeEffect, ClientsKept DEF SessionInv, PointersOK,
     poolVars

LEMMA LoginStep == SessionInv /\ [Next]_vars => LoginNotLost'
<1> SUFFICES ASSUME SessionInv, [Next]_vars, NEW c \in Client, phase'[c] = "login"
             PROVE  \/ http'[c] > 0
                    \/ /\ task'[Http].session # NoObject
                       /\ session'[task'[Http].session].client = c
  BY DEF LoginNotLost
<1> DEFINE Goal == \/ http'[c] > 0
                   \/ /\ task'[Http].session # NoObject
                      /\ session'[task'[Http].session].client = c
           o == task[Http].session
<1>0. /\ http \in [Client -> Nat] /\ task \in [Thread -> TaskRec]
      /\ phase \in [Client -> Phase]
      /\ Http \in Thread /\ Lan \in Thread /\ Client \subseteq Thread
      /\ Http \notin Client /\ Lan # Http
      /\ NoObject \notin Object /\ sessionList \subseteq Object
      /\ o \in Object \cup {NoObject}
  BY MatchmakingAssumption DEF SessionInv, TypeOK, Thread, TaskRec
<1>1. CASE Request_Session_Login(c)
  BY <1>0, <1>1 DEF Request_Session_Login
<1>2. SUFFICES ASSUME phase[c] = "login" PROVE Goal
  BY <1>1, LoginPhase
<1>3. conn[c] = "up" /\ c \in {d \in Client : Find_Session(d) # {}}
  BY <1>2 DEF SessionInv, WaitOK, ListOK, Listed
<1>4. http[c] > 0 \/ (o \in Object /\ session[o].client = c)
  BY <1>0, <1>2 DEF SessionInv, LoginNotLost
<1>5. o \in Object /\ session[o].client = c => session'[o].client = c
  BY <1>3, WaiterNamed
<1> HIDE DEF o
<1>6. ASSUME NEW d \in Client, NEW s, NEW ok, FromHttp(d, s, ok),
             http' = [http EXCEPT ![d] = @ - 1], UNCHANGED serverVars
      PROVE  Goal
  BY <1>0, <1>4, <1>6, <1>3 DEF FromHttp, CanStart, Idle, o, Find_Session, Begin, serverVars
<1>7. CASE Response_Session_Login
  BY <1>7, <1>0, <1>2, <1>3, <1>4 DEF Response_Session_Login, o, Awaits, Leads, Tell
<1>8. CASE Fail_HttpRequest_Retry
  <2> DEFINE d == session[o].client
             n == session[o].httpFailCount + 1
  <2>1. o \in Object
    BY <1>8 DEF Fail_HttpRequest_Retry, SessionInv, TasksOK, At, Idle, Thread, o
  <2>2. d \in Client
    BY <2>1 DEF SessionInv, PointersOK, Thread, o
  <2>3. IF n > MaxHttpFail THEN Close(d) /\ UNCHANGED http
        ELSE http' = [http EXCEPT ![d] = @ + 1]
    BY <1>8 DEF Fail_HttpRequest_Retry, o
  <2> HIDE DEF d, n
  <2>4. CASE c = d
    BY <1>0, <1>2, <1>3, <2>3, <2>4, <2>2 DEF Close
  <2>5. CASE c # d
    BY <1>4, <2>5, <1>0, <2>2, <2>3 DEF d
  <2> QED
    BY <2>4, <2>5
<1>9. ASSUME UNCHANGED http, task'[Http] = task[Http] PROVE Goal
  BY <1>0, <1>4, <1>5, <1>9 DEF o
<1>10. ASSUME NEW d \in Client, Request_Session_Login(d) PROVE Goal
  BY <1>0, <1>10, <1>4, <1>5 DEF Request_Session_Login, o
<1>11. ASSUME NEW d \in Client, Request_Session_RoomInfo(d) PROVE task'[Http] = task[Http]
  BY <1>0, <1>11 DEF Request_Session_RoomInfo, Begin
<1>12. ASSUME NEW d \in Client, Send_Master_Roominfo(d) \/ Free_Session(d)
       PROVE  task'[Http] = task[Http]
  BY <1>0, <1>12 DEF Send_Master_Roominfo, Free_Session, Return
<1>13. ASSUME NEW d \in Client, OnClientLeave(d) PROVE task'[Http] = task[Http]
  BY <1>0, <1>13 DEF OnClientLeave, Begin
<1>14. ASSUME Recieve_MasterRequest_RoomInfo PROVE task'[Http] = task[Http]
  BY <1>0, <1>14 DEF Recieve_MasterRequest_RoomInfo, Begin
<1>15. ASSUME Response_Session_RoomInfo PROVE task'[Http] = task[Http]
  BY <1>0, <1>15 DEF Response_Session_RoomInfo, Return
<1>16. ASSUME NEW d \in Client, NEW ok \in BOOLEAN, Receive_HttpRequest_SessionKey(d, ok)
       PROVE  Goal
  BY <1>6, <1>16 DEF Receive_HttpRequest_SessionKey
<1>17. ASSUME NEW d \in Client, Fail_HttpRequest(d) PROVE Goal
  BY <1>6, <1>17 DEF Fail_HttpRequest
<1> HIDE DEF Goal
<1>18. (UNCHANGED http /\ task'[Http] = task[Http]) \/ Goal
  BY <1>7, <1>8, <1>10, <1>11, <1>12, <1>13, <1>14, <1>15, <1>16, <1>17, WhoChanges
     DEF HttpChangedBy, TaskChangedBy
<1> QED
  BY <1>9, <1>18

-----------------------------------------------------------------------------
LEMMA InitSession == Init => SessionInv
<1> SUFFICES ASSUME Init PROVE SessionInv
  OBVIOUS
<1> USE MatchmakingAssumption
<1>1. /\ pool \in Seq(Object)
      /\ \A i, j \in DOMAIN pool : pool[i] = pool[j] => i = j
  BY SequenceOfSet DEF Init
<1>2. /\ session = [o \in Object |-> Init_Session(NoClient)]
      /\ Init_Session(NoClient) \in SessionRec
      /\ Init_Session(NoClient).client = NoClient
  BY DEF Init, Init_Session, SessionRec, none
<1>3. /\ task = [t \in Thread |-> Idle] /\ Idle \in TaskRec
      /\ Idle.session = NoObject /\ Idle.step = "idle"
  BY DEF Init, Idle, TaskRec
<1>4. TypeOK
  BY <1>1, <1>2, <1>3 DEF Init, TypeOK, Phase
<1>5. TasksOK
  BY <1>3 DEF TasksOK, Thread
<1>6. PoolOK /\ ListOK
  BY <1>1 DEF PoolOK, ListOK, Init, Listed
<1>7. FreeOK
  BY <1>3 DEF FreeOK, At, Thread, Init
<1>8. PointersOK
  BY <1>2, <1>3 DEF PointersOK
<1>9. WaitOK /\ LoginNotLost
  BY DEF WaitOK, LoginNotLost, Init
<1> QED
  BY <1>4, <1>5, <1>6, <1>7, <1>8, <1>9 DEF SessionInv

LEMMA SessionStep == SessionInv /\ [Next]_vars => SessionInv'
  BY TypeStep, TasksStep, PoolStep, ListStep, FreeStep, PointersStep, WaitStep, LoginStep
     DEF SessionInv

LEMMA SessionAlways == Spec => []SessionInv
  BY InitSession, SessionStep, PTL DEF Spec

(* The list holds one session for a connected client and none for another. *)
LEMMA OneSession == SessionInv => SessionsSound
<1> SUFFICES ASSUME SessionInv, NEW c \in Client
             PROVE  Cardinality(Find_Session(c)) = IF conn[c] \in {"out", "gone"} THEN 0 ELSE 1
  BY DEF SessionInv, SessionsSound, OneSessionPerClient
<1>1. /\ conn[c] \in {"out", "up", "closing", "leaving", "gone"}
      /\ conn[c] \in Listed => Find_Session(c) # {}
      /\ \A o \in Find_Session(c) : conn[c] \in Listed
      /\ \A o, p \in Find_Session(c) : o = p
  BY DEF SessionInv, TypeOK, ListOK, Find_Session
<1>2. CASE conn[c] \in {"out", "gone"}
  BY <1>1, <1>2, FS_EmptySet DEF Listed
<1>3. CASE conn[c] \notin {"out", "gone"}
  BY <1>1, <1>3, FS_Singleton DEF Listed
<1> QED
  BY <1>2, <1>3

(* However the handlers of different threads overlap, and whatever objects *)
(* they still point to, a connected client has one session in the list and *)
(* nobody else has one, and every variable keeps its type.                 *)
(* (Alloc_Session, Free_Session, Find_SessionByClientID)                   *)
THEOREM MatchSessionsSound == Spec => []SessionsSound
  BY SessionAlways, OneSession, PTL

(* However the handlers overlap, the login of a client is with the account *)
(* server or in the hands of the message thread until the client is        *)
(* answered or disconnected. (Request_Session_Login, Fail_HttpRequest)     *)
THEOREM MatchLoginNotLost == Spec => []LoginNotLost
<1>1. SessionInv => LoginNotLost
  BY DEF SessionInv
<1> QED
  BY <1>1, SessionAlways, PTL

-----------------------------------------------------------------------------
(* The queues of the link: what they hold after a step.                    *)
LEMMA PacketsDiffer ==
    ASSUME NEW c \in Client, NEW d \in Client, NEW ok \in BOOLEAN
    PROVE  /\ RoomPacket(d, ok) \in RoomPackets(c) <=> c = d
           /\ \A k \in BOOLEAN : RoomPacket(d, ok) = RoomPacket(c, k) <=> c = d /\ ok = k
           /\ RoomPacket(d, ok) # FailPacket(c) /\ RoomPacket(d, ok) # ON
           /\ FailPacket(d) \notin RoomPackets(c)
           /\ FailPacket(d) = FailPacket(c) <=> c = d
           /\ FailPacket(d) # ON
           /\ ON \notin RoomPackets(c)
  BY DEF RoomPacket, FailPacket, ON, RoomPackets

LEMMA RepliedReturned ==
    ASSUME NEW c \in Client
    PROVE  Replied(c) <=> Returned(c, TRUE) \/ Returned(c, FALSE)
  BY DEF Replied, Returned, Holds, RoomPackets

LEMMA MasterGains ==
    ASSUME toMaster \in Seq(Packet), NEW s \in Seq(Packet), toMaster' = toMaster \o s,
           NEW c \in Client
    PROVE  /\ Asked(c)' <=> Asked(c) \/ Holds(s, RoomPackets(c))
           /\ Failing(c)' <=> Failing(c) \/ Holds(s, {FailPacket(c)})
           /\ Closing(c) /\ ~Holds(s, RoomPackets(c)) => Closing(c)'
           /\ HoldsOne(toMaster, RoomPackets(c)) /\ HoldsOne(s, RoomPackets(c))
              /\ (~Asked(c) \/ ~Holds(s, RoomPackets(c))) => HoldsOne(toMaster', RoomPackets(c))
  BY HoldsJoin, ClosesJoin, HoldsOneJoin DEF Asked, Failing, Closing, RoomPackets, RoomPacket,
     FailPacket

LEMMA MasterTakes ==
    ASSUME toMaster \in Seq(Packet), toMaster # <<>>, toMaster' = Tail(toMaster),
           NEW c \in Client
    PROVE  /\ Asked(c) <=> Head(toMaster) \in RoomPackets(c) \/ Asked(c)'
           /\ Failing(c) <=> Head(toMaster) = FailPacket(c) \/ Failing(c)'
           /\ HoldsOne(toMaster, RoomPackets(c)) =>
                /\ HoldsOne(toMaster', RoomPackets(c))
                /\ Head(toMaster) \in RoomPackets(c) => ~Asked(c)'
           /\ Closing(c) => /\ Head(toMaster) # FailPacket(c) => Closing(c)'
                            /\ Closing(c)' \/ ~Asked(c)'
<1> DEFINE t == Tail(toMaster)
<1>1. /\ Asked(c) <=> Head(toMaster) \in RoomPackets(c) \/ Holds(t, RoomPackets(c))
      /\ Failing(c) <=> Head(toMaster) = FailPacket(c) \/ Holds(t, {FailPacket(c)})
  BY HoldsTail DEF Asked, Failing
<1>2. HoldsOne(toMaster, RoomPackets(c)) =>
        /\ HoldsOne(t, RoomPackets(c))
        /\ Head(toMaster) \in RoomPackets(c) => ~Holds(t, RoomPackets(c))
  BY HoldsOneTail
<1>3. Closing(c) =>
        /\ Head(toMaster) # FailPacket(c) => Closes(t, FailPacket(c), RoomPackets(c))
        /\ Closes(t, FailPacket(c), RoomPackets(c)) \/ ~Holds(t, RoomPackets(c))
  BY ClosesTail DEF Closing
<1> QED
  BY <1>1, <1>2, <1>3 DEF Asked, Failing, Closing, RoomPackets, RoomPacket, FailPacket

LEMMA MatchGains ==
    ASSUME toMatch \in Seq(Packet), NEW x \in Packet, toMatch' = Append(toMatch, x),
           NEW c \in Client
    PROVE  /\ \A ok \in BOOLEAN : Returned(c, ok)' <=> Returned(c, ok) \/ x = RoomPacket(c, ok)
           /\ Replied(c)' <=> Replied(c) \/ x \in RoomPackets(c)
           /\ HoldsOne(toMatch, RoomPackets(c)) /\ (~Replied(c) \/ x \notin RoomPackets(c)) =>
                HoldsOne(toMatch', RoomPackets(c))
<1>1. toMatch' = toMatch \o <<x>> /\ <<x>> \in Seq(Packet)
  BY AppendIsJoin
<1>2. ASSUME NEW ok \in BOOLEAN
      PROVE  Holds(toMatch \o <<x>>, {RoomPacket(c, ok)}) <=>
               Returned(c, ok) \/ x = RoomPacket(c, ok)
  BY <1>1, HoldsJoin, HoldsOneElement DEF Returned
<1>3. Holds(toMatch \o <<x>>, RoomPackets(c)) <=> Replied(c) \/ x \in RoomPackets(c)
  BY <1>1, HoldsJoin, HoldsOneElement DEF Replied
<1>4. HoldsOne(toMatch, RoomPackets(c)) /\ (~Replied(c) \/ x \notin RoomPackets(c)) =>
        HoldsOne(toMatch \o <<x>>, RoomPackets(c))
  BY <1>1, HoldsOneJoin, HoldsOneElement DEF Replied
<1> QED
  BY <1>1, <1>2, <1>3, <1>4 DEF Returned, Replied, RoomPackets, RoomPacket

LEMMA MatchTakes ==
    ASSUME toMatch \in Seq(Packet), toMatch # <<>>, toMatch' = Tail(toMatch),
           NEW c \in Client
    PROVE  /\ \A ok \in BOOLEAN :
                Returned(c, ok) <=> Head(toMatch) = RoomPacket(c, ok) \/ Returned(c, ok)'
           /\ Replied(c) <=> Head(toMatch) \in RoomPackets(c) \/ Replied(c)'
           /\ HoldsOne(toMatch, RoomPackets(c)) =>
                /\ HoldsOne(toMatch', RoomPackets(c))
                /\ Head(toMatch) \in RoomPackets(c) => ~Replied(c)'
<1> DEFINE t == Tail(toMatch)
<1>1. ASSUME NEW ok \in BOOLEAN
      PROVE  Returned(c, ok) <=>
               Head(toMatch) = RoomPacket(c, ok) \/ Holds(t, {RoomPacket(c, ok)})
  BY HoldsTail DEF Returned
<1>2. HoldsOne(toMatch, RoomPackets(c)) =>
        /\ HoldsOne(t, RoomPackets(c))
        /\ Head(toMatch) \in RoomPackets(c) => ~Holds(t, RoomPackets(c))
  BY HoldsOneTail
<1>3. Replied(c) <=> Head(toMatch) \in RoomPackets(c) \/ Holds(t, RoomPackets(c))
  BY HoldsTail DEF Replied
<1> QED
  BY <1>1, <1>2, <1>3 DEF Returned, Replied, RoomPackets, RoomPacket

-----------------------------------------------------------------------------
(* A step leaves a client alone when what RoomParts says of it is about    *)
(* the same values before and after.                                       *)
HandsSame(c) ==
    /\ InHand(c)' <=> InHand(c)
    /\ Offered(c)' <=> Offered(c)
    /\ Offered(c)' => task'[Lan].ok = task[Lan].ok
    /\ HttpHolds(c)' <=> HttpHolds(c)

QueuesSame(c) ==
    /\ Asked(c)' <=> Asked(c)
    /\ Replied(c)' <=> Replied(c)
    /\ \A ok \in BOOLEAN : Returned(c, ok)' <=> Returned(c, ok)
    /\ Failing(c)' <=> Failing(c)
    /\ Closing(c) => Closing(c)'
    /\ HoldsOne(toMaster, RoomPackets(c)) => HoldsOne(toMaster', RoomPackets(c))
    /\ HoldsOne(toMatch, RoomPackets(c)) => HoldsOne(toMatch', RoomPackets(c))

FieldsSame(c) ==
    /\ http'[c] = http[c] /\ conn'[c] = conn[c] /\ phase'[c] = phase[c]
    /\ taken'[c] = taken[c] /\ (c \in placed' <=> c \in placed)
    /\ c \in resent' <=> c \in resent

Alone(c) == HandsSame(c) /\ QueuesSame(c) /\ FieldsSame(c)

(* What RoomParts says of one client.                                      *)
ClientParts(c) ==
    /\ OneLogin(c)
    /\ c \notin resent => OneRequest(c) /\ OnePlace(c)
    /\ GivenBack(c)

LEMMA ClientAlone ==
    ASSUME NEW c \in Client, Alone(c), ClientParts(c), drops' = 0 => drops = 0
    PROVE  ClientParts(c)'
<1> USE DEF Alone, HandsSame, QueuesSame, FieldsSame, ClientParts, LoginOut, RoomOut
<1>1. OneLogin(c)'
  BY DEF OneLogin
<1>2. c \notin resent' => OneRequest(c)'
  BY DEF OneRequest
<1>3. c \notin resent' => OnePlace(c)'
  BY DEF OnePlace, Answer
<1>4. GivenBack(c)'
  BY DEF GivenBack, NeverAsked
<1> QED
  BY <1>1, <1>2, <1>3, <1>4

LEMMA StatusKept ==
    ASSUME NEW o \in Object, NEW c \in Client,
           session[o].client = c, session'[o].client = c,
           session'[o].curStatus = session[o].curStatus,
           NeverAsked(c) => NeverAsked(c)', LoginOut(c)' => LoginOut(c),
           phase'[c] = phase[c], c \in resent => c \in resent', StatusOK(o)
    PROVE  StatusOK(o)'
  BY DEF StatusOK

LEMMA StatusAlone ==
    ASSUME NEW o \in Object, NEW c \in Client, Alone(c),
           session[o].client = c, session'[o].client = c,
           session'[o].curStatus = session[o].curStatus, StatusOK(o)
    PROVE  StatusOK(o)'
  BY StatusKept DEF Alone, HandsSame, FieldsSame, LoginOut, QueuesSame, NeverAsked, RoomOut

LEMMA QueuesKept ==
    ASSUME UNCHANGED <<toMaster, toMatch>>, NEW c \in Client
    PROVE  QueuesSame(c)
  BY DEF QueuesSame, Asked, Replied, Returned, Failing, Closing, RoomPackets, RoomPacket,
         FailPacket

(* When no handler runs nobody is in its hands.                            *)
Quiet == \A t \in Thread : task[t] = Idle

LEMMA QuietHands ==
    ASSUME NEW c \in Client
    PROVE  /\ Quiet => ~InHand(c) /\ ~Offered(c) /\ ~HttpHolds(c)
           /\ Quiet' => ~InHand(c)' /\ ~Offered(c)' /\ ~HttpHolds(c)'
<1>1. Idle.step = "idle" /\ Lan \in Thread /\ Http \in Thread /\ c \in Thread
  BY DEF Idle, Thread
<1>2. Quiet => ~InHand(c) /\ ~Offered(c) /\ ~HttpHolds(c)
  BY <1>1 DEF Quiet, InHand, Offered, HttpHolds, At
<1>3. Quiet' => ~InHand(c)' /\ ~Offered(c)' /\ ~HttpHolds(c)'
  BY <1>1 DEF Quiet, InHand, Offered, HttpHolds, At
<1> QED
  BY <1>2, <1>3

LEMMA QuietStart ==
    ASSUME ~overlap, NEW t \in Thread, CanStart(t)
    PROVE  Quiet
  BY DEF Quiet, CanStart, Busy

LEMMA QuietSame ==
    ASSUME Quiet, Quiet', NEW c \in Client
    PROVE  HandsSame(c)
  BY QuietHands DEF HandsSame

(* The handler that runs is the only one.                                  *)
LEMMA OnlyHandler ==
    ASSUME OneHandler, NEW t \in Thread, task[t] # Idle
    PROVE  /\ \A u \in Thread : u # t => task[u] = Idle
           /\ task[t].session \in sessionList
           /\ \A c \in Client : t = c => session[task[t].session].client = c
  BY DEF OneHandler

(* What is left to show of a client in the simple cases.                   *)
LEMMA NoRequestLeft ==
    ASSUME NEW c \in Client, ~RoomOut(c)',
           HoldsOne(toMaster', RoomPackets(c)), HoldsOne(toMatch', RoomPackets(c))
    PROVE  OneRequest(c)'
  BY DEF RoomOut, RoomPackets, RoomPacket, OneRequest

LEMMA NoPlaceYet ==
    ASSUME NEW c \in Client, taken'[c] = 0, phase'[c] \notin {"offer", "inside"},
           Answer(c, TRUE)' => conn'[c] # "up"
    PROVE  OnePlace(c)'
<1>1. taken'[c] <= 1 /\ (taken'[c] = 1 => c \in placed')
  OBVIOUS
<1>2. phase'[c] \in {"offer", "inside"} => taken'[c] = 1
  OBVIOUS
<1>3. (Answer(c, TRUE) /\ conn[c] = "up" => taken[c] = 1)'
  OBVIOUS
<1>4. (Answer(c, FALSE) => taken[c] = 0)'
  OBVIOUS
<1>5. phase'[c] # "inside"
  OBVIOUS
<1> QED
  BY <1>1, <1>2, <1>3, <1>4, <1>5 DEF OnePlace

LEMMA NoAnswerLeft ==
    ASSUME NEW c \in Client, ~RoomOut(c)'
    PROVE  ~Answer(c, TRUE)' /\ ~Answer(c, FALSE)'
  BY DEF RoomOut, Replied, Returned, Holds, RoomPackets, Answer

LEMMA PlaceTaken ==
    ASSUME NEW c \in Client, taken'[c] = 1, c \in placed',
           ~InHand(c)', ~Asked(c)', ~Answer(c, FALSE)',
           phase'[c] \notin {"joined", "login", "lobby", "denied"},
           Failing(c)' => phase'[c] # "inside"
    PROVE  OnePlace(c)'
<1>1. taken'[c] <= 1 /\ (taken'[c] = 1 => c \in placed')
  OBVIOUS
<1>2. phase'[c] \in {"joined", "login", "lobby", "denied"} => taken'[c] = 0
  OBVIOUS
<1>3. (InHand(c) \/ Asked(c) => taken[c] = 0)'
  OBVIOUS
<1>4. (Answer(c, FALSE) => taken[c] = 0)'
  OBVIOUS
<1>5. (Answer(c, TRUE) /\ conn[c] = "up" => taken[c] = 1)'
  OBVIOUS
<1>6. (Failing(c) => phase[c] # "inside")'
  OBVIOUS
<1> QED
  BY <1>1, <1>2, <1>3, <1>4, <1>5, <1>6 DEF OnePlace

-----------------------------------------------------------------------------
(* One lemma for each action: it keeps what RoomParts says of each client  *)
(* and of each listed session.                                             *)
AllParts ==
    /\ \A c \in Client : ClientParts(c)
    /\ \A o \in sessionList : StatusOK(o)

LEMMA TouchesOne ==
    ASSUME SessionInv, AllParts, NEW d \in Client,
           \A c \in Client : c # d => Alone(c),
           drops' = 0 => drops = 0,
           ClientParts(d)',
           \A o \in sessionList' : session'[o].client = d => StatusOK(o)',
           \A o \in sessionList' :
               session'[o].client # d => o \in sessionList /\ session'[o] = session[o]
    PROVE  AllParts'
  BY ClientAlone, StatusAlone DEF AllParts, SessionInv, ListOK, TypeOK

LEMMA TouchesNone ==
    ASSUME SessionInv, AllParts, \A c \in Client : Alone(c), drops' = 0 => drops = 0,
           sessionList' \subseteq sessionList,
           \A o \in sessionList' : /\ session'[o].client = session[o].client
                                   /\ session'[o].curStatus = session[o].curStatus
    PROVE  AllParts'
  BY ClientAlone, StatusAlone DEF AllParts, SessionInv, ListOK, TypeOK

(* A status set in the session of a client leaves the others as they are.  *)
LEMMA StatusSet ==
    ASSUME SessionInv, NEW d \in Client, NEW o \in Find_Session(d), NEW s \in 0 .. 6,
           SetStatus(o, s), UNCHANGED poolVars
    PROVE  /\ o \in sessionList /\ session[o].client = d
           /\ \A p \in sessionList' :
                IF session'[p].client = d
                THEN p = o /\ session'[p].curStatus = s
                ELSE p \in sessionList /\ session'[p] = session[p]
  BY DEF Find_Session, SessionInv, ListOK, TypeOK, poolVars, SetStatus, SessionRec

LEMMA JoinParts ==
    ASSUME SessionInv, AllParts, ~overlap, NEW d \in Client, OnClientJoin(d)
    PROVE  AllParts'
<1>1. Quiet /\ Quiet'
  BY QuietStart DEF OnClientJoin, Thread, Quiet
<1>2. UNCHANGED <<http, toMaster, toMatch, drops, placed, taken, resent>>
  BY DEF OnClientJoin, linkVars, masterVars
<1>3. PICK o \in Object :
        /\ o \notin sessionList /\ sessionList' = sessionList \cup {o}
        /\ session'[o] = Init_Session(d)
        /\ \A p \in sessionList : session'[p] = session[p] /\ session[p].client # d
        /\ conn[d] = "out" /\ conn'[d] = "up" /\ phase'[d] = "joined"
        /\ \A c \in Client : c # d => conn'[c] = conn[c] /\ phase'[c] = phase[c]
  BY JoinEffect
<1>4. \A c \in Client : HandsSame(c) /\ QueuesSame(c)
  BY <1>1, <1>2, QuietSame, QueuesKept
<1>5. \A c \in Client : c # d => Alone(c)
  BY <1>2, <1>3, <1>4 DEF Alone, FieldsSame
<1>6. /\ ~InHand(d)' /\ ~Offered(d)' /\ ~HttpHolds(d)'
      /\ Asked(d)' <=> Asked(d)
      /\ Replied(d)' <=> Replied(d)
      /\ \A ok \in BOOLEAN : Returned(d, ok)' <=> Returned(d, ok)
      /\ Failing(d)' <=> Failing(d)
      /\ HoldsOne(toMaster, RoomPackets(d)) => HoldsOne(toMaster', RoomPackets(d))
      /\ HoldsOne(toMatch, RoomPackets(d)) => HoldsOne(toMatch', RoomPackets(d))
  BY <1>1, <1>4, QuietHands DEF QueuesSame
<1>7. /\ OneLogin(d) /\ NeverAsked(d) /\ ~Failing(d) /\ ~LoginOut(d)
      /\ OneRequest(d)
  BY <1>3 DEF AllParts, ClientParts, OneLogin, GivenBack, NeverAsked
<1>8. NeverAsked(d)' /\ ~LoginOut(d)'
  BY <1>2, <1>6, <1>7 DEF NeverAsked, RoomOut, LoginOut
<1>9. ClientParts(d)'
  BY <1>2, <1>6, <1>7, <1>8, <1>3, NoRequestLeft, NoAnswerLeft, NoPlaceYet DEF OneLogin,
     NeverAsked, OneRequest, GivenBack, ClientParts
<1>10. StatusOK(o)'
  BY <1>3, <1>8 DEF Init_Session, none, StatusOK, Status_Request_RoomInfo, Status_Success_RoomEnter
<1>11. /\ \A p \in sessionList' : session'[p].client = d => p = o
       /\ \A p \in sessionList' : session'[p].client # d =>
             p \in sessionList /\ session'[p] = session[p]
  BY <1>3 DEF Init_Session
<1> QED
  BY <1>2, <1>5, <1>9, <1>10, <1>11, TouchesOne

(* The requests a worker answers at once: nobody is in the hands of a      *)
(* handler before or after, and nothing is sent.                           *)
LEMMA QuietRequest ==
    ASSUME ~overlap, NEW d \in Client, CanStart(d),
           UNCHANGED <<task, toMaster, toMatch>>
    PROVE  /\ \A c \in Client : HandsSame(c) /\ QueuesSame(c)
           /\ ~InHand(d)' /\ ~Offered(d)' /\ ~HttpHolds(d)' /\ ~HttpHolds(d)
           /\ RoomOut(d)' => RoomOut(d)
  BY QuietStart, QuietSame, QueuesKept, QuietHands DEF Quiet, Thread, RoomOut, QueuesSame

(* A client that has not asked for a room: what stays true of it when the  *)
(* step sends nothing and leaves the master alone.                         *)
LEMMA NeverAskedKept ==
    ASSUME NEW d \in Client, NeverAsked(d), OneRequest(d), QueuesSame(d), ~RoomOut(d)',
           taken'[d] = taken[d], d \in placed' <=> d \in placed, d \in resent' <=> d \in resent,
           phase'[d] \notin {"offer", "inside"}
    PROVE  NeverAsked(d)' /\ OneRequest(d)' /\ OnePlace(d)'
  BY NoRequestLeft, NoAnswerLeft, NoPlaceYet DEF NeverAsked, OneRequest, QueuesSame

LEMMA LoginParts ==
    ASSUME SessionInv, AllParts, ~overlap, NEW d \in Client, Request_Session_Login(d)
    PROVE  AllParts'
<1>1. /\ CanStart(d) /\ conn[d] = "up" /\ phase[d] = "joined"
      /\ UNCHANGED <<task, toMaster, toMatch, drops, placed, taken, conn, resent>>
      /\ UNCHANGED poolVars
      /\ http' = [http EXCEPT ![d] = @ + 1] /\ phase' = [phase EXCEPT ![d] = "login"]
  BY DEF Request_Session_Login, OnRecv, linkVars, masterVars
<1>2. PICK o \in Find_Session(d) : SetStatus(o, 1)
  BY DEF Request_Session_Login, Status_Request_Login
<1>3. /\ o \in sessionList /\ session[o].client = d
      /\ \A p \in sessionList' :
           IF session'[p].client = d
           THEN p = o /\ session'[p].curStatus = 1
           ELSE p \in sessionList /\ session'[p] = session[p]
  BY <1>1, <1>2, StatusSet
<1>4. /\ http \in [Client -> Nat] /\ phase \in [Client -> Phase]
      /\ conn \in [Client -> {"out", "up", "closing", "leaving", "gone"}]
  BY DEF SessionInv, TypeOK
<1>5. /\ \A c \in Client : HandsSame(c) /\ QueuesSame(c)
      /\ ~InHand(d)' /\ ~Offered(d)' /\ ~HttpHolds(d)' /\ ~HttpHolds(d)
      /\ RoomOut(d)' => RoomOut(d)
  BY <1>1, QuietRequest
<1>6. \A c \in Client : c # d => Alone(c)
  BY <1>1, <1>4, <1>5 DEF Alone, FieldsSame
<1>7. OneLogin(d) /\ GivenBack(d) /\ StatusOK(o)
  BY <1>3 DEF AllParts, ClientParts
<1>8. NeverAsked(d) /\ OneRequest(d)
  BY <1>1, <1>3, <1>7 DEF StatusOK, AllParts, ClientParts, NeverAsked
<1>9. http'[d] = 1 /\ phase'[d] = "login" /\ conn'[d] = "up"
  BY <1>1, <1>4, <1>7 DEF OneLogin, LoginOut
<1>10. NeverAsked(d)' /\ OneRequest(d)' /\ OnePlace(d)'
  BY <1>1, <1>5, <1>8, <1>9, NeverAskedKept DEF NeverAsked
<1>11. OneLogin(d)'
  BY <1>5, <1>9 DEF OneLogin, LoginOut
<1>12. GivenBack(d)'
  BY <1>1, <1>5, <1>7, <1>9 DEF GivenBack, QueuesSame
<1>13. ClientParts(d)'
  BY <1>10, <1>11, <1>12 DEF ClientParts
<1>14. \A p \in sessionList' : session'[p].client = d => StatusOK(p)'
  BY <1>3, <1>9, <1>10 DEF StatusOK, Status_Request_RoomInfo, Status_Success_RoomEnter
<1> QED
  BY <1>1, <1>3, <1>6, <1>13, <1>14, TouchesOne

LEMMA VersionParts ==
    ASSUME SessionInv, AllParts, ~overlap, NEW d \in Client, Request_Session_Login_Version(d)
    PROVE  AllParts'
<1>1. /\ CanStart(d) /\ conn[d] = "up" /\ phase[d] = "joined"
      /\ UNCHANGED <<task, http, toMaster, toMatch, drops, placed, taken, conn, resent>>
      /\ UNCHANGED poolVars
      /\ phase' = [phase EXCEPT ![d] = "denied"]
  BY DEF Request_Session_Login_Version, OnRecv, linkVars, masterVars
<1>2. PICK o \in Find_Session(d) : SetStatus(o, 2)
  BY DEF Request_Session_Login_Version, Status_Success_Login
<1>3. /\ o \in sessionList /\ session[o].client = d
      /\ \A p \in sessionList' :
           IF session'[p].client = d
           THEN p = o /\ session'[p].curStatus = 2
           ELSE p \in sessionList /\ session'[p] = session[p]
  BY <1>1, <1>2, StatusSet
<1>4. /\ http \in [Client -> Nat] /\ phase \in [Client -> Phase]
      /\ conn \in [Client -> {"out", "up", "closing", "leaving", "gone"}]
  BY DEF SessionInv, TypeOK
<1>5. /\ \A c \in Client : HandsSame(c) /\ QueuesSame(c)
      /\ ~InHand(d)' /\ ~Offered(d)' /\ ~HttpHolds(d)' /\ ~HttpHolds(d)
      /\ RoomOut(d)' => RoomOut(d)
  BY <1>1, QuietRequest
<1>6. \A c \in Client : c # d => Alone(c)
  BY <1>1, <1>4, <1>5 DEF Alone, FieldsSame
<1>7. OneLogin(d) /\ GivenBack(d) /\ StatusOK(o)
  BY <1>3 DEF AllParts, ClientParts
<1>8. NeverAsked(d) /\ OneRequest(d)
  BY <1>1, <1>3, <1>7 DEF StatusOK, AllParts, ClientParts, NeverAsked
<1>9. http'[d] = 0 /\ phase'[d] = "denied" /\ conn'[d] = "up"
  BY <1>1, <1>4, <1>7 DEF OneLogin, LoginOut
<1>10. NeverAsked(d)' /\ OneRequest(d)' /\ OnePlace(d)'
  BY <1>1, <1>5, <1>8, <1>9, NeverAskedKept DEF NeverAsked
<1>11. OneLogin(d)' /\ ~LoginOut(d)'
  BY <1>5, <1>9 DEF OneLogin, LoginOut
<1>12. GivenBack(d)'
  BY <1>1, <1>5, <1>7, <1>9 DEF GivenBack, QueuesSame
<1>13. ClientParts(d)'
  BY <1>10, <1>11, <1>12 DEF ClientParts
<1>14. \A p \in sessionList' : session'[p].client = d => StatusOK(p)'
  BY <1>3, <1>9, <1>10 DEF StatusOK, Status_Request_RoomInfo, Status_Success_RoomEnter
<1> QED
  BY <1>1, <1>3, <1>6, <1>13, <1>14, TouchesOne

LEMMA AskParts ==
    ASSUME SessionInv, AllParts, ~overlap, NEW d \in Client, Request_Session_RoomInfo(d)
    PROVE  AllParts'
<1>1. /\ CanStart(d) /\ conn[d] = "up" /\ phase[d] = "lobby"
      /\ UNCHANGED <<http, toMaster, toMatch, drops, placed, taken, conn, resent>>
      /\ UNCHANGED poolVars
      /\ phase' = [phase EXCEPT ![d] = "room"]
  BY DEF Request_Session_RoomInfo, OnRecv, linkVars, masterVars
<1>2. PICK o \in Find_Session(d) : SetStatus(o, 3) /\ Begin(d, "roominfo", o, TRUE)
  BY DEF Request_Session_RoomInfo, Status_Request_RoomInfo
<1>3. /\ o \in sessionList /\ session[o].client = d
      /\ \A p \in sessionList' :
           IF session'[p].client = d
           THEN p = o /\ session'[p].curStatus = 3
           ELSE p \in sessionList /\ session'[p] = session[p]
  BY <1>1, <1>2, StatusSet
<1>4. /\ http \in [Client -> Nat] /\ phase \in [Client -> Phase]
      /\ conn \in [Client -> {"out", "up", "closing", "leaving", "gone"}]
      /\ task \in [Thread -> TaskRec] /\ Client \subseteq Thread
      /\ Lan \in Thread /\ Http \in Thread /\ Lan \notin Client /\ Http \notin Client
  BY MatchmakingAssumption DEF SessionInv, TypeOK, Thread
<1>5. Quiet
  BY <1>1, <1>4, QuietStart
<1>6. /\ \A t \in Thread : t # d => task'[t] = Idle
      /\ task'[d].step = "roominfo"
  BY <1>2, <1>4, <1>5 DEF Begin, Quiet
<1>7. Idle.step = "idle"
  BY DEF Idle
<1>8. \A c \in Client : /\ ~Offered(c)' /\ ~HttpHolds(c)'
                        /\ InHand(c)' <=> c = d
                        /\ ~InHand(c) /\ ~Offered(c) /\ ~HttpHolds(c)
  BY <1>4, <1>5, <1>6, <1>7, QuietHands DEF InHand, Offered, HttpHolds, At
<1>9. \A c \in Client : QueuesSame(c)
  BY <1>1, QueuesKept
<1>10. \A c \in Client : c # d => Alone(c)
  BY <1>1, <1>4, <1>8, <1>9 DEF Alone, HandsSame, FieldsSame
<1>11. ClientParts(d) /\ StatusOK(o)
  BY <1>3 DEF AllParts
<1>12. /\ http'[d] = 0 /\ phase'[d] = "room" /\ conn'[d] = "up" /\ ~LoginOut(d)'
  BY <1>1, <1>4, <1>8, <1>11 DEF ClientParts, OneLogin, LoginOut
<1>13. OneLogin(d)'
  BY <1>8, <1>12 DEF OneLogin
<1>14. ASSUME d \notin resent PROVE OneRequest(d)' /\ OnePlace(d)'
  <2>1. /\ OneRequest(d) /\ OnePlace(d) /\ ~RoomOut(d) /\ taken[d] = 0
    BY <1>1, <1>11, <1>14 DEF ClientParts, OneRequest, OnePlace
  <2>2. ~Asked(d)' /\ ~Replied(d)'
    BY <1>9, <2>1 DEF QueuesSame, RoomOut
  <2>3. RoomPackets(d)' = RoomPackets(d)
    BY DEF RoomPackets, RoomPacket
  <2>4. OneRequest(d)'
    BY <1>8, <1>9, <1>12, <2>1, <2>2, <2>3 DEF OneRequest, QueuesSame
  <2>5. ~Answer(d, TRUE)'
    BY <2>2, <1>8 DEF Replied, Returned, Holds, RoomPackets, Answer
  <2>6. taken'[d] = 0
    BY <1>1, <2>1
  <2>7. OnePlace(d)'
    BY <1>12, <2>5, <2>6, NoPlaceYet
  <2> QED
    BY <2>4, <2>7
<1>15. GivenBack(d)'
  BY <1>1, <1>9, <1>11, <1>12 DEF ClientParts, GivenBack, QueuesSame
<1>16. ClientParts(d)'
  BY <1>1, <1>13, <1>14, <1>15 DEF ClientParts
<1>17. \A p \in sessionList' : session'[p].client = d => StatusOK(p)'
  BY <1>3, <1>12 DEF StatusOK, Status_Request_RoomInfo, Status_Success_RoomEnter
<1> QED
  BY <1>1, <1>3, <1>10, <1>16, <1>17, TouchesOne

LEMMA EnterParts ==
    ASSUME SessionInv, AllParts, ~overlap, NEW d \in Client, Request_Session_RoomEnter(d)
    PROVE  AllParts'
<1>1. /\ CanStart(d) /\ conn[d] = "up" /\ phase[d] = "offer"
      /\ UNCHANGED <<task, http, toMaster, toMatch, drops, placed, taken, conn, resent>>
      /\ UNCHANGED poolVars
      /\ phase' = [phase EXCEPT ![d] = "inside"]
  BY DEF Request_Session_RoomEnter, OnRecv, linkVars, masterVars
<1>2. PICK o \in Find_Session(d) : SetStatus(o, 6)
  BY DEF Request_Session_RoomEnter, Status_Success_RoomEnter
<1>3. /\ o \in sessionList /\ session[o].client = d
      /\ \A p \in sessionList' :
           IF session'[p].client = d
           THEN p = o /\ session'[p].curStatus = 6
           ELSE p \in sessionList /\ session'[p] = session[p]
  BY <1>1, <1>2, StatusSet
<1>4. /\ http \in [Client -> Nat] /\ phase \in [Client -> Phase]
      /\ conn \in [Client -> {"out", "up", "closing", "leaving", "gone"}]
  BY DEF SessionInv, TypeOK
<1>5. /\ \A c \in Client : HandsSame(c) /\ QueuesSame(c)
      /\ ~InHand(d)' /\ ~Offered(d)' /\ ~HttpHolds(d)' /\ ~HttpHolds(d)
      /\ RoomOut(d)' => RoomOut(d)
  BY <1>1, QuietRequest
<1>6. \A c \in Client : c # d => Alone(c)
  BY <1>1, <1>4, <1>5 DEF Alone, FieldsSame
<1>7. OneLogin(d) /\ GivenBack(d) /\ ClientParts(d)
  BY <1>3 DEF AllParts, ClientParts
<1>8. http'[d] = 0 /\ phase'[d] = "inside" /\ conn'[d] = "up"
  BY <1>1, <1>4, <1>7 DEF OneLogin, LoginOut
<1>9. OneLogin(d)' /\ ~LoginOut(d)'
  BY <1>5, <1>8 DEF OneLogin, LoginOut
<1>10. GivenBack(d)' /\ ~Failing(d)'
  BY <1>1, <1>5, <1>7, <1>8 DEF GivenBack, QueuesSame
<1>11. ASSUME d \notin resent PROVE OneRequest(d)' /\ OnePlace(d)'
  BY <1>1, <1>7, <1>11, <1>5, NoRequestLeft, NoAnswerLeft, <1>8, <1>10, PlaceTaken DEF ClientParts,
     OneRequest, OnePlace, QueuesSame, RoomOut
<1>12. ClientParts(d)'
  BY <1>1, <1>9, <1>10, <1>11 DEF ClientParts
<1>13. \A p \in sessionList' : session'[p].client = d => StatusOK(p)'
  BY <1>3, <1>8, <1>9 DEF StatusOK, Status_Request_RoomInfo, Status_Success_RoomEnter
<1> QED
  BY <1>1, <1>3, <1>6, <1>12, <1>13, TouchesOne

LEMMA SendParts ==
    ASSUME SessionInv, AllParts, OneHandler, NEW d \in Client, Send_Master_Roominfo(d)
    PROVE  AllParts'
<1>1. /\ At(d, "roominfo") /\ Send(<<RoomPacket(d, TRUE)>>)
      /\ task' = [task EXCEPT ![d] = Idle]
      /\ UNCHANGED <<sessionList, session, http, toMatch, drops, placed, taken, conn, phase,
                     resent>>
  BY DEF Send_Master_Roominfo, Return, serverVars, poolVars, masterVars, clientVars
<1>2. /\ task \in [Thread -> TaskRec] /\ Client \subseteq Thread
      /\ Lan \in Thread /\ Http \in Thread /\ Lan \notin Client /\ Http \notin Client
      /\ Idle.step = "idle"
      /\ toMaster \in Seq(Packet)
  BY MatchmakingAssumption DEF SessionInv, TypeOK, Thread, Idle
<1>3. task[d] # Idle
  BY <1>1, <1>2 DEF At
<1>4. /\ \A t \in Thread : t # d => task[t] = Idle
      /\ task[d].session \in sessionList /\ session[task[d].session].client = d
  BY <1>2, <1>3, OnlyHandler
<1>5. Quiet'
  BY <1>1, <1>2, <1>4 DEF Quiet
<1>6. \A c \in Client : /\ ~InHand(c)' /\ ~Offered(c)' /\ ~HttpHolds(c)'
                        /\ InHand(c) <=> c = d
                        /\ ~Offered(c) /\ ~HttpHolds(c)
  BY <1>5, QuietHands, <1>1, <1>2, <1>4 DEF InHand, Offered, HttpHolds, At
<1>7. ASSUME NEW c \in Client
      PROVE  /\ c # d => QueuesSame(c)
             /\ Asked(d)' => InHand(d) \/ Asked(d)
             /\ Replied(d)' <=> Replied(d)
             /\ \A ok \in BOOLEAN : Returned(d, ok)' <=> Returned(d, ok)
             /\ Failing(d)' <=> Failing(d)
             /\ HoldsOne(toMatch, RoomPackets(d)) => HoldsOne(toMatch', RoomPackets(d))
             /\ HoldsOne(toMaster, RoomPackets(d)) /\ ~Asked(d) =>
                  HoldsOne(toMaster', RoomPackets(d))
  <2>1. CASE toMaster' = toMaster
    BY <1>1, <2>1, QueuesKept DEF QueuesSame
  <2>2. CASE toMaster' = toMaster \o <<RoomPacket(d, TRUE)>>
    <3> DEFINE s == <<RoomPacket(d, TRUE)>>
    <3>1. s \in Seq(Packet)
      BY PacketsTyped
    <3>2. ASSUME NEW e \in Client
          PROVE  /\ Holds(s, RoomPackets(e)) <=> e = d
                 /\ ~Holds(s, {FailPacket(e)})
                 /\ HoldsOne(s, RoomPackets(e))
      <4>1. /\ Holds(s, RoomPackets(e)) <=> RoomPacket(d, TRUE) \in RoomPackets(e)
            /\ Holds(s, {FailPacket(e)}) <=> RoomPacket(d, TRUE) \in {FailPacket(e)}
            /\ HoldsOne(s, RoomPackets(e))
        BY HoldsOneElement
      <4> QED
        BY <4>1, PacketsDiffer
    <3> HIDE DEF s
    <3>3. toMaster' = toMaster \o s
      BY <2>2 DEF s
    <3>4. ASSUME NEW e \in Client
          PROVE  /\ Asked(e)' <=> Asked(e) \/ e = d
                 /\ Failing(e)' <=> Failing(e)
                 /\ e # d /\ Closing(e) => Closing(e)'
                 /\ HoldsOne(toMaster, RoomPackets(e)) /\ (~Asked(e) \/ e # d) =>
                      HoldsOne(toMaster', RoomPackets(e))
      BY <1>2, <3>1, <3>2, <3>3, MasterGains
    <3>5. ASSUME NEW e \in Client
          PROVE  /\ Replied(e)' <=> Replied(e)
                 /\ \A ok \in BOOLEAN : Returned(e, ok)' <=> Returned(e, ok)
                 /\ HoldsOne(toMatch, RoomPackets(e)) => HoldsOne(toMatch', RoomPackets(e))
      BY <1>1 DEF Replied, Returned, RoomPackets, RoomPacket
    <3>6. c # d => QueuesSame(c)
      BY <3>4, <3>5 DEF QueuesSame
    <3> QED
      BY <1>6, <3>4, <3>5, <3>6
  <2> QED
    BY <1>1, <2>1, <2>2 DEF Send
<1>8. \A c \in Client : c # d => Alone(c)
  BY <1>1, <1>6, <1>7 DEF Alone, HandsSame, FieldsSame
<1>9. ClientParts(d) /\ RoomOut(d) /\ (RoomOut(d)' => Asked(d)' \/ Replied(d)')
  BY <1>6 DEF AllParts, RoomOut
<1>10. OneLogin(d)'
  BY <1>1, <1>6, <1>9 DEF ClientParts, OneLogin, LoginOut
<1>11. ASSUME d \notin resent PROVE OneRequest(d)' /\ OnePlace(d)'
  BY <1>6, <1>9, <1>11, <1>7, <1>1, NoPlaceYet DEF ClientParts, OneRequest, OnePlace, RoomPackets,
     RoomPacket, Replied, Returned, Holds, Answer
<1>12. conn[d] \notin {"out", "leaving", "gone"}
  BY <1>9, <1>1, <1>4 DEF ClientParts, GivenBack, NeverAsked, SessionInv, FreeOK, At, ListOK,
     Listed
<1>13. GivenBack(d)'
  BY <1>1, <1>7, <1>9, <1>12 DEF ClientParts, GivenBack
<1>14. ClientParts(d)'
  BY <1>1, <1>10, <1>11, <1>13 DEF ClientParts
<1>15. \A p \in sessionList' : session'[p].client = d => StatusOK(p)'
  BY <1>1, <1>6, <1>9, StatusKept DEF SessionInv, TypeOK, AllParts, NeverAsked, LoginOut
<1> QED
  BY <1>1, <1>8, <1>14, <1>15, TouchesOne

LEMMA LeaveParts ==
    ASSUME SessionInv, AllParts, RequestKept, ~overlap, NEW d \in Client, OnClientLeave(d)
    PROVE  AllParts'
<1>1. /\ CanStart(d) /\ conn[d] = "closing" /\ conn' = [conn EXCEPT ![d] = "leaving"]
      /\ UNCHANGED <<sessionList, session, http, toMatch, drops, placed, taken, phase, resent,
                     link>>
  BY DEF OnClientLeave, poolVars, masterVars
<1>2. /\ task \in [Thread -> TaskRec] /\ Client \subseteq Thread
      /\ Lan \in Thread /\ Http \in Thread /\ Lan \notin Client /\ Http \notin Client
      /\ Idle.step = "idle"
      /\ toMaster \in Seq(Packet)
      /\ conn \in [Client -> {"out", "up", "closing", "leaving", "gone"}]
  BY MatchmakingAssumption DEF SessionInv, TypeOK, Thread, Idle
<1>3. PICK o \in sessionList :
        /\ session[o].client = d
        /\ Send(IF HasPlace(o) THEN <<FailPacket(d)>> ELSE <<>>)
        /\ Begin(d, "free", o, TRUE)
  BY DEF OnClientLeave, Find_Session
<1>4. Quiet
  BY <1>1, <1>2, QuietStart
<1>5. task'[d].step = "free" /\ \A t \in Thread : t # d => task'[t] = Idle
  BY <1>2, <1>3, <1>4 DEF Begin, Quiet
<1>6. \A c \in Client : HandsSame(c)
  BY <1>4, QuietHands, <1>2, <1>5 DEF InHand, Offered, HttpHolds, At, HandsSame
<1>7. /\ \A c \in Client : c # d => QueuesSame(c)
      /\ HasPlace(o) /\ link # "down" => Closing(d)'
      /\ Asked(d)' <=> Asked(d)
      /\ Replied(d)' <=> Replied(d)
      /\ \A ok \in BOOLEAN : Returned(d, ok)' <=> Returned(d, ok)
      /\ Failing(d)' => Failing(d) \/ HasPlace(o)
      /\ HoldsOne(toMaster, RoomPackets(d)) => HoldsOne(toMaster', RoomPackets(d))
      /\ HoldsOne(toMatch, RoomPackets(d)) => HoldsOne(toMatch', RoomPackets(d))
  <2>1. CASE toMaster' = toMaster /\ (~HasPlace(o) \/ link = "down")
    BY <1>1, <2>1, QueuesKept DEF QueuesSame
  <2>2. CASE HasPlace(o) /\ link # "down" /\ toMaster' = toMaster \o <<FailPacket(d)>>
    <3> DEFINE s == <<FailPacket(d)>>
    <3>1. s \in Seq(Packet) /\ FailPacket(d) \in Packet
      BY PacketsTyped
    <3>2. ASSUME NEW e \in Client
          PROVE  /\ ~Holds(s, RoomPackets(e))
                 /\ Holds(s, {FailPacket(e)}) <=> e = d
                 /\ HoldsOne(s, RoomPackets(e))
      BY HoldsOneElement, PacketsDiffer
    <3>3. Closes(toMaster \o s, FailPacket(d), RoomPackets(d))
      BY <1>2, <3>1, ClosesAtEnd
    <3>4. Closing(d)'
      BY <2>2, <3>3 DEF Closing, RoomPackets, RoomPacket, FailPacket
    <3> HIDE DEF s
    <3>5. toMaster' = toMaster \o s
      BY <2>2 DEF s
    <3>6. ASSUME NEW e \in Client
          PROVE  /\ Asked(e)' <=> Asked(e)
                 /\ Failing(e)' <=> Failing(e) \/ e = d
                 /\ Closing(e) => Closing(e)'
                 /\ HoldsOne(toMaster, RoomPackets(e)) => HoldsOne(toMaster', RoomPackets(e))
      BY <1>2, <3>1, <3>2, <3>5, MasterGains
    <3>7. ASSUME NEW e \in Client
          PROVE  /\ Replied(e)' <=> Replied(e)
                 /\ \A ok \in BOOLEAN : Returned(e, ok)' <=> Returned(e, ok)
                 /\ HoldsOne(toMatch, RoomPackets(e)) => HoldsOne(toMatch', RoomPackets(e))
      BY <1>1 DEF Replied, Returned, RoomPackets, RoomPacket
    <3>8. \A c \in Client : c # d => QueuesSame(c)
      BY <3>6, <3>7 DEF QueuesSame
    <3> QED
      BY <1>1, <2>2, <3>4, <3>6, <3>7, <3>8
  <2>3. toMaster \o <<>> = toMaster
    BY <1>2
  <2> QED
    BY <1>3, <2>1, <2>2, <2>3 DEF Send
<1>8. \A c \in Client : c # d => Alone(c)
  BY <1>1, <1>2, <1>6, <1>7 DEF Alone, FieldsSame
<1>9. ClientParts(d) /\ StatusOK(o) /\ conn'[d] = "leaving"
  BY <1>1, <1>2, <1>3 DEF AllParts
<1>10. /\ LoginOut(d)' <=> LoginOut(d)
       /\ RoomOut(d)' <=> RoomOut(d)
       /\ NeverAsked(d) => NeverAsked(d)'
  BY <1>1, <1>6, <1>7 DEF LoginOut, RoomOut, HandsSame, NeverAsked
<1>11. OneLogin(d)'
  BY <1>1, <1>6, <1>9, <1>10 DEF ClientParts, OneLogin, HandsSame
<1>12. HasPlace(o) => session[o].curStatus \in {3, 4}
  BY DEF HasPlace, Status_Request_RoomInfo, Status_Success_RoomInfo
<1>13. ASSUME d \notin resent PROVE OneRequest(d)' /\ OnePlace(d)'
  <2>1. OneRequest(d) /\ OnePlace(d)
    BY <1>9, <1>13 DEF ClientParts
  <2>2. RoomPackets(d)' = RoomPackets(d)
    BY DEF RoomPackets, RoomPacket
  <2>3. OneRequest(d)'
    BY <1>1, <1>6, <1>7, <1>9, <1>10, <2>1, <2>2 DEF OneRequest, HandsSame
  <2>4. Failing(d)' => phase'[d] # "inside"
    BY <1>1, <1>3, <1>7, <1>9, <1>12, <1>13, <2>1
       DEF OnePlace, StatusOK, Status_Success_RoomEnter
  <2>5. Answer(d, FALSE)' => Answer(d, FALSE)
    BY <1>6, <1>7 DEF Answer, HandsSame
  <2>6. phase' = phase /\ taken' = taken /\ placed' = placed
        /\ (InHand(d)' \/ Asked(d)' => InHand(d) \/ Asked(d)) /\ conn'[d] # "up"
    BY <1>1, <1>6, <1>7, <1>9 DEF HandsSame
  <2>7. OnePlace(d)'
    BY <2>1, <2>4, <2>5, <2>6 DEF OnePlace
  <2> QED
    BY <2>3, <2>7
<1>14. GivenBack(d)'
  <2>1. ASSUME drops = 0, phase[d] # "inside"
        PROVE  (d \notin placed /\ ~Asked(d)) \/ Closing(d)'
    <3>1. CASE HasPlace(o) /\ link # "down"
      BY <1>7, <3>1
    <3>2. CASE HasPlace(o) /\ link = "down"
      BY <2>1, <3>2 DEF RequestKept, Asked, Holds
    <3>3. CASE ~HasPlace(o)
      <4>1. session[o].curStatus \in 0 .. 6
        BY DEF SessionInv, TypeOK, SessionRec
      <4>2. session[o].curStatus < 3
        BY <1>3, <1>9, <2>1, <3>3, <4>1
           DEF StatusOK, HasPlace, Status_Request_RoomInfo, Status_Success_RoomInfo,
               Status_Success_RoomEnter
      <4> QED
        BY <1>3, <1>9, <4>2 DEF StatusOK, Status_Request_RoomInfo, NeverAsked, RoomOut
    <3> QED
      BY <3>1, <3>2, <3>3
  <2> QED
    BY <1>1, <1>7, <1>9, <2>1 DEF GivenBack
<1>15. ClientParts(d)'
  BY <1>1, <1>11, <1>13, <1>14 DEF ClientParts
<1>16. \A p \in sessionList' : session'[p].client = d => StatusOK(p)'
  BY <1>1, <1>10, StatusKept DEF SessionInv, TypeOK, AllParts
<1> QED
  BY <1>1, <1>8, <1>15, <1>16, TouchesOne

LEMMA HandsKept ==
    ASSUME UNCHANGED <<task, session>>, NEW c \in Client
    PROVE  HandsSame(c)
  BY DEF HandsSame, InHand, Offered, HttpHolds, At

LEMMA FreeParts ==
    ASSUME SessionInv, AllParts, OneHandler, NEW d \in Client, Free_Session(d)
    PROVE  AllParts'
<1>1. /\ At(d, "free")
      /\ UNCHANGED <<http, toMaster, toMatch, drops, placed, taken, phase, resent>>
  BY DEF Free_Session, linkVars, masterVars
<1>2. PICK o \in Object :
        /\ sessionList' = sessionList \ {o}
        /\ \A p \in sessionList' : session'[p] = session[p] /\ session[p].client # d
        /\ conn[d] = "leaving" /\ conn'[d] = "gone"
        /\ \A c \in Client : c # d => conn'[c] = conn[c]
        /\ task'[d] = Idle
        /\ \A t \in Thread : t # d => task'[t] = task[t]
  BY FreeEffect
<1>3. /\ Client \subseteq Thread /\ Lan \in Thread /\ Http \in Thread
      /\ Lan \notin Client /\ Http \notin Client /\ Idle.step = "idle"
  BY MatchmakingAssumption DEF Thread, Idle
<1>4. \A t \in Thread : t # d => task[t] = Idle
  BY <1>1, <1>3, OnlyHandler DEF At
<1>5. Quiet'
  BY <1>2, <1>4 DEF Quiet
<1>6. \A c \in Client : HandsSame(c)
  BY <1>1, <1>3, <1>4, <1>5, QuietHands DEF InHand, Offered, HttpHolds, At, HandsSame
<1>7. \A c \in Client : QueuesSame(c)
  BY <1>1, QueuesKept
<1>8. \A c \in Client : c # d => Alone(c)
  BY <1>1, <1>2, <1>6, <1>7 DEF Alone, FieldsSame
<1>9. ClientParts(d) /\ HandsSame(d) /\ QueuesSame(d)
  BY <1>6, <1>7 DEF AllParts
<1>10. OneLogin(d)'
  BY <1>1, <1>2, <1>9 DEF ClientParts, OneLogin, LoginOut, HandsSame
<1>11. ASSUME d \notin resent PROVE OneRequest(d)' /\ OnePlace(d)'
  BY <1>1, <1>2, <1>9, <1>11 DEF ClientParts, OneRequest, RoomOut, HandsSame, QueuesSame, OnePlace,
     Answer
<1>12. GivenBack(d)'
  BY <1>1, <1>2, <1>9 DEF ClientParts, GivenBack, QueuesSame
<1>13. ClientParts(d)'
  BY <1>1, <1>10, <1>11, <1>12 DEF ClientParts
<1> QED
  BY <1>1, <1>2, <1>8, <1>13, TouchesOne

(* A client whose connection closes waits for nothing any more.            *)
LEMMA ClosedParts ==
    ASSUME NEW d \in Client, ClientParts(d), QueuesSame(d),
           conn[d] = "up", conn'[d] = "closing",
           phase'[d] = IF phase[d] = "inside" THEN "inside" ELSE "out",
           InHand(d)' <=> InHand(d), Offered(d)' <=> Offered(d),
           Offered(d)' => task'[Lan].ok = task[Lan].ok,
           HttpHolds(d)' => HttpHolds(d),
           http'[d] = http[d], taken'[d] = taken[d],
           d \in placed' <=> d \in placed, d \in resent' <=> d \in resent
    PROVE  /\ ClientParts(d)'
           /\ \A o \in Object :
                /\ session[o].client = d /\ session'[o].client = d
                /\ session'[o].curStatus = session[o].curStatus
                /\ StatusOK(o)
                => StatusOK(o)'
<1>1. ~Failing(d) /\ ~Failing(d)'
  BY DEF ClientParts, GivenBack, QueuesSame
<1>2. LoginOut(d)' => LoginOut(d)
  BY DEF LoginOut
<1>3. OneLogin(d)'
  BY <1>2 DEF ClientParts, OneLogin, LoginOut
<1>4. ASSUME d \notin resent PROVE OneRequest(d)' /\ OnePlace(d)'
  BY <1>4, <1>1 DEF ClientParts, OneRequest, RoomOut, QueuesSame, OnePlace, Answer
<1>5. GivenBack(d)'
  BY <1>1 DEF GivenBack
<1>6. NeverAsked(d) => NeverAsked(d)'
  BY DEF NeverAsked, RoomOut, QueuesSame
<1>7. ASSUME NEW o \in Object, session[o].client = d, session'[o].client = d,
             session'[o].curStatus = session[o].curStatus, StatusOK(o)
      PROVE  StatusOK(o)'
  BY <1>2, <1>6, <1>7 DEF StatusOK
<1> QED
  BY <1>3, <1>4, <1>5, <1>7 DEF ClientParts

LEMMA HangupParts ==
    ASSUME SessionInv, AllParts, NEW d \in Client, Hangup(d)
    PROVE  AllParts'
<1>1. /\ conn[d] = "up"
      /\ UNCHANGED <<sessionList, session, task, http, toMaster, toMatch, drops, placed, taken,
                     resent>>
      /\ conn' = [conn EXCEPT ![d] = "closing"]
      /\ phase' = [phase EXCEPT ![d] = IF @ = "inside" THEN @ ELSE "out"]
  BY DEF Hangup, Close, serverVars, poolVars, linkVars, masterVars
<1>2. /\ phase \in [Client -> Phase] /\ sessionList \subseteq Object
      /\ conn \in [Client -> {"out", "up", "closing", "leaving", "gone"}]
  BY DEF SessionInv, TypeOK
<1>3. \A c \in Client : HandsSame(c) /\ QueuesSame(c)
  BY <1>1, HandsKept, QueuesKept
<1>4. \A c \in Client : c # d => Alone(c)
  BY <1>1, <1>2, <1>3 DEF Alone, FieldsSame
<1>5. /\ conn'[d] = "closing"
      /\ phase'[d] = IF phase[d] = "inside" THEN "inside" ELSE "out"
      /\ http'[d] = http[d] /\ taken'[d] = taken[d]
      /\ d \in placed' <=> d \in placed
      /\ d \in resent' <=> d \in resent
  BY <1>1, <1>2
<1>6. ClientParts(d) /\ QueuesSame(d) /\ HandsSame(d)
  BY <1>3 DEF AllParts
<1>7. /\ ClientParts(d)'
      /\ \A o \in Object :
           /\ session[o].client = d /\ session'[o].client = d
           /\ session'[o].curStatus = session[o].curStatus
           /\ StatusOK(o)
           => StatusOK(o)'
  BY <1>1, <1>5, <1>6, ClosedParts DEF HandsSame
<1>8. \A o \in sessionList' : session'[o].client = d => StatusOK(o)'
  BY <1>1, <1>2, <1>7 DEF AllParts
<1> QED
  BY <1>1, <1>4, <1>7, <1>8, TouchesOne

(* The steps of the link that no client notices.                           *)
LEMMA LinkParts ==
    ASSUME SessionInv, AllParts,
           Connect \/ OnEnterJoinServer \/ Request_Match_Login \/ UNCHANGED vars
    PROVE  AllParts'
<1>1. UNCHANGED <<sessionList, session, task, http, drops, placed, taken, conn, phase, resent>>
  BY DEF Connect, OnEnterJoinServer, Request_Match_Login, vars, serverVars, poolVars,
         linkVars, masterVars, clientVars
<1>2. toMaster \in Seq(Packet) /\ toMatch \in Seq(Packet)
  BY DEF SessionInv, TypeOK
<1>3. ASSUME NEW c \in Client PROVE QueuesSame(c)
  <2>1. CASE Connect \/ UNCHANGED vars
    BY <2>1, QueuesKept DEF Connect, vars, linkVars
  <2>2. CASE OnEnterJoinServer
    <3> DEFINE s == <<ON>>
    <3>1. toMaster' = toMaster \o s /\ toMatch' = toMatch
      BY <2>2 DEF OnEnterJoinServer, Send
    <3>2. s \in Seq(Packet)
      BY DEF Packet
    <3>3. ~Holds(s, RoomPackets(c)) /\ ~Holds(s, {FailPacket(c)}) /\ HoldsOne(s, RoomPackets(c))
      BY PacketsDiffer, HoldsOneElement
    <3> HIDE DEF s
    <3>4. /\ Asked(c)' <=> Asked(c)
          /\ Failing(c)' <=> Failing(c)
          /\ Closing(c) => Closing(c)'
          /\ HoldsOne(toMaster, RoomPackets(c)) => HoldsOne(toMaster', RoomPackets(c))
      BY <1>2, <3>1, <3>2, <3>3, MasterGains
    <3>5. /\ Replied(c)' <=> Replied(c)
          /\ \A ok \in BOOLEAN : Returned(c, ok)' <=> Returned(c, ok)
          /\ HoldsOne(toMatch, RoomPackets(c)) => HoldsOne(toMatch', RoomPackets(c))
      BY <3>1 DEF Replied, Returned, RoomPackets, RoomPacket
    <3> QED
      BY <3>4, <3>5 DEF QueuesSame
  <2>3. CASE Request_Match_Login
    <3>1. /\ toMaster # <<>> /\ Head(toMaster).type = "SERVER_ON" /\ toMaster' = Tail(toMaster)
          /\ toMatch' = Append(toMatch, ON)
      BY <2>3 DEF Request_Match_Login, AtMaster
    <3>2. Head(toMaster) = ON /\ ON \in Packet
      BY <1>2, <3>1, TailElements, PacketOf DEF Packet
    <3>3. ON \notin RoomPackets(c) /\ ON # FailPacket(c) /\ \A ok \in BOOLEAN : ON # RoomPacket(c, ok)
      BY PacketsDiffer
    <3>4. /\ Asked(c)' <=> Asked(c)
          /\ Failing(c)' <=> Failing(c)
          /\ Closing(c) => Closing(c)'
          /\ HoldsOne(toMaster, RoomPackets(c)) => HoldsOne(toMaster', RoomPackets(c))
      BY <1>2, <3>1, <3>2, <3>3, MasterTakes
    <3>5. /\ Replied(c)' <=> Replied(c)
          /\ \A ok \in BOOLEAN : Returned(c, ok)' <=> Returned(c, ok)
          /\ HoldsOne(toMatch, RoomPackets(c)) => HoldsOne(toMatch', RoomPackets(c))
      BY <1>2, <3>1, <3>2, <3>3, MatchGains
    <3> QED
      BY <3>4, <3>5 DEF QueuesSame
  <2> QED
    BY <2>1, <2>2, <2>3
<1>4. \A c \in Client : Alone(c)
  BY <1>1, <1>3, HandsKept DEF Alone, FieldsSame
<1> QED
  BY <1>1, <1>4, TouchesNone

(* What was on the way when the link broke is lost, nothing else.          *)
LEMMA DropParts ==
    ASSUME SessionInv, AllParts, ReleaseSession
    PROVE  AllParts'
<1>1. /\ UNCHANGED <<sessionList, session, task, http, placed, taken, conn, phase, resent>>
      /\ toMaster' = <<>> /\ toMatch' = <<>> /\ drops' = drops + 1 /\ drops \in 0 .. MaxDrop
  BY DEF ReleaseSession, serverVars, poolVars, masterVars, clientVars, SessionInv, TypeOK
<1>2. drops' # 0
  BY <1>1, MatchmakingAssumption
<1>3. ASSUME NEW c \in Client
      PROVE  /\ ~Asked(c)' /\ ~Replied(c)' /\ ~Failing(c)'
             /\ \A ok \in BOOLEAN : ~Returned(c, ok)'
             /\ HoldsOne(toMaster', RoomPackets(c)) /\ HoldsOne(toMatch', RoomPackets(c))
  BY <1>1 DEF Asked, Replied, Failing, Returned, Holds, HoldsOne
<1>4. \A c \in Client : HandsSame(c)
  BY <1>1, HandsKept
<1>5. ASSUME NEW c \in Client
      PROVE  /\ ClientParts(c)'
             /\ NeverAsked(c) => NeverAsked(c)'
             /\ LoginOut(c)' => LoginOut(c)
  <2>1. ClientParts(c) /\ HandsSame(c)
    BY <1>4 DEF AllParts
  <2>2. OneLogin(c)' /\ (LoginOut(c)' => LoginOut(c))
    BY <1>1, <2>1 DEF ClientParts, OneLogin, LoginOut, HandsSame
  <2>3. NeverAsked(c) => NeverAsked(c)'
    BY <1>1, <1>3, <2>1 DEF NeverAsked, RoomOut, HandsSame
  <2>4. ASSUME c \notin resent PROVE OneRequest(c)' /\ OnePlace(c)'
    BY <1>1, <1>3, <2>1, <2>4 DEF RoomPackets, RoomPacket, ClientParts, OneRequest, RoomOut,
       HandsSame, OnePlace, Answer
  <2>5. GivenBack(c)'
    BY <1>1, <1>2, <1>3, <2>1, <2>3 DEF ClientParts, GivenBack
  <2> QED
    BY <1>1, <2>2, <2>3, <2>4, <2>5 DEF ClientParts
<1>6. ASSUME NEW o \in sessionList PROVE StatusOK(o)'
  BY <1>1, <1>5, StatusKept DEF SessionInv, TypeOK, ListOK, AllParts
<1> QED
  BY <1>1, <1>5, <1>6 DEF AllParts

(* The master answers the request at the head of its queue.                *)
LEMMA PlaceParts ==
    ASSUME SessionInv, AllParts, NEW found \in BOOLEAN, Request_Match_RoomInfo(found)
    PROVE  AllParts'
<1>1. /\ toMaster \in Seq(Packet) /\ toMatch \in Seq(Packet) /\ sessionList \subseteq Object
      /\ taken \in [Client -> Nat] /\ placed \subseteq Client
  BY DEF SessionInv, TypeOK
<1>2. PICK d \in Client :
        /\ toMaster # <<>> /\ toMaster' = Tail(toMaster)
        /\ \E k \in BOOLEAN : Head(toMaster) = RoomPacket(d, k)
        /\ toMatch' = Append(toMatch, RoomPacket(d, found))
        /\ placed' = placed \cup {d}
        /\ taken' = IF found THEN [taken EXCEPT ![d] = @ + 1] ELSE taken
  <2>1. /\ toMaster # <<>> /\ Head(toMaster).type = "GAME_ROOM" /\ toMaster' = Tail(toMaster)
    BY DEF Request_Match_RoomInfo, AtMaster
  <2>2. Head(toMaster) \in Packet
    BY <1>1, <2>1, TailElements
  <2>3. /\ Head(toMaster).client \in Client /\ Head(toMaster).ok \in BOOLEAN
        /\ Head(toMaster) = RoomPacket(Head(toMaster).client, Head(toMaster).ok)
    BY <2>1, <2>2, PacketOf
  <2> QED
    BY <2>1, <2>3 DEF Request_Match_RoomInfo
<1>3. UNCHANGED <<sessionList, session, task, http, drops, conn, phase, resent>>
  BY DEF Request_Match_RoomInfo, serverVars, poolVars, clientVars
<1>4. RoomPacket(d, found) \in Packet
  BY PacketsTyped
<1>5. ASSUME NEW c \in Client
      PROVE  /\ Head(toMaster) \in RoomPackets(c) <=> c = d
             /\ Head(toMaster) # FailPacket(c)
             /\ RoomPacket(d, found) \in RoomPackets(c) <=> c = d
             /\ \A k \in BOOLEAN : RoomPacket(d, found) = RoomPacket(c, k) <=> c = d /\ k = found
  BY <1>2, PacketsDiffer
<1>6. ASSUME NEW c \in Client
      PROVE  /\ Asked(c) <=> c = d \/ Asked(c)'
             /\ Failing(c)' <=> Failing(c)
             /\ HoldsOne(toMaster, RoomPackets(c)) =>
                  HoldsOne(toMaster', RoomPackets(c)) /\ (c = d => ~Asked(c)')
             /\ Closing(c) => Closing(c)'
  BY <1>1, <1>2, <1>5, MasterTakes
<1>7. ASSUME NEW c \in Client
      PROVE  /\ \A ok \in BOOLEAN : /\ Returned(c, ok)' => Returned(c, ok) \/ (c = d /\ ok = found)
                                    /\ Returned(c, ok) => Returned(c, ok)'
             /\ Replied(c)' <=> Replied(c) \/ c = d
             /\ HoldsOne(toMatch, RoomPackets(c)) /\ (~Replied(c) \/ c # d) =>
                  HoldsOne(toMatch', RoomPackets(c))
  <2> DEFINE x == RoomPacket(d, found)
  <2>1. x \in Packet /\ toMatch' = Append(toMatch, x)
    BY <1>2, <1>4
  <2>2. /\ x \in RoomPackets(c) <=> c = d
        /\ \A ok \in BOOLEAN : x = RoomPacket(c, ok) <=> c = d /\ ok = found
    BY <1>5
  <2> HIDE DEF x
  <2>3. /\ \A ok \in BOOLEAN : Returned(c, ok)' <=> Returned(c, ok) \/ x = RoomPacket(c, ok)
        /\ Replied(c)' <=> Replied(c) \/ x \in RoomPackets(c)
        /\ HoldsOne(toMatch, RoomPackets(c)) /\ (~Replied(c) \/ x \notin RoomPackets(c)) =>
             HoldsOne(toMatch', RoomPackets(c))
    BY <1>1, <2>1, MatchGains
  <2>4. ASSUME NEW ok \in BOOLEAN
        PROVE  /\ Returned(c, ok)' => Returned(c, ok) \/ (c = d /\ ok = found)
               /\ Returned(c, ok) => Returned(c, ok)'
    BY <2>2, <2>3
  <2> QED
    BY <2>2, <2>3, <2>4
<1>8. \A c \in Client : HandsSame(c)
  BY <1>3, HandsKept
<1>9. \A c \in Client : c # d => Alone(c)
  BY <1>7, <1>6, <1>1, <1>2, <1>3, <1>8 DEF QueuesSame, FieldsSame, Alone
<1>10. ClientParts(d) /\ HandsSame(d) /\ Asked(d) /\ Replied(d)'
  BY <1>6, <1>7, <1>8 DEF AllParts
<1>11. OneLogin(d)' /\ (LoginOut(d)' => LoginOut(d))
  BY <1>3, <1>10 DEF ClientParts, OneLogin, LoginOut, HandsSame
<1>12. ASSUME d \notin resent PROVE OneRequest(d)' /\ OnePlace(d)'
  <2>1. OneRequest(d) /\ OnePlace(d) /\ RoomOut(d)
    BY <1>10, <1>12 DEF ClientParts, RoomOut
  <2>2. /\ ~InHand(d) /\ ~Replied(d) /\ ~Offered(d) /\ taken[d] = 0
        /\ conn[d] # "out" /\ phase[d] = IF conn[d] = "up" THEN "room" ELSE "out"
    BY <1>10, <2>1 DEF OneRequest, OnePlace
  <2>3. /\ HoldsOne(toMaster', RoomPackets(d)) /\ HoldsOne(toMatch', RoomPackets(d))
        /\ ~Asked(d)'
    BY <1>6, <1>7, <2>1, <2>2 DEF OneRequest
  <2>4. ~InHand(d)' /\ ~Offered(d)'
    BY <1>10, <2>2 DEF HandsSame
  <2>5. RoomPackets(d)' = RoomPackets(d)
    BY DEF RoomPackets, RoomPacket
  <2>6. OneRequest(d)'
    BY <1>3, <2>2, <2>3, <2>4, <2>5 DEF OneRequest
  <2>7. /\ taken'[d] = IF found THEN 1 ELSE 0
        /\ d \in placed'
    BY <1>1, <1>2, <2>2
  <2>8. \A ok \in BOOLEAN : Answer(d, ok)' => ok = found
    BY <2>2, RepliedReturned, <2>4, <1>7 DEF Answer
  <2>9. OnePlace(d)'
    BY <1>3, <2>2, <2>3, <2>4, <2>7, <2>8, PlaceTaken, NoPlaceYet
  <2> QED
    BY <2>6, <2>9
<1>13. GivenBack(d)'
  BY <1>10, <1>3, <1>6 DEF ClientParts, GivenBack, NeverAsked, RoomOut
<1>14. ClientParts(d)'
  BY <1>3, <1>11, <1>12, <1>13 DEF ClientParts
<1>15. \A o \in sessionList' : session'[o].client = d => StatusOK(o)'
  BY <1>1, <1>3, <1>10, <1>11, StatusKept DEF AllParts, NeverAsked, RoomOut
<1> QED
  BY <1>3, <1>9, <1>14, <1>15, TouchesOne

(* The master takes the place of a client back.                            *)
LEMMA FailParts ==
    ASSUME SessionInv, AllParts, Request_Match_UserEnterFail
    PROVE  AllParts'
<1>1. /\ toMaster \in Seq(Packet) /\ sessionList \subseteq Object
      /\ taken \in [Client -> Nat] /\ placed \subseteq Client
  BY DEF SessionInv, TypeOK
<1>2. PICK d \in Client :
        /\ toMaster # <<>> /\ toMaster' = Tail(toMaster)
        /\ Head(toMaster) = FailPacket(d)
        /\ placed' = placed \ {d}
        /\ taken' = IF d \in placed /\ taken[d] > 0
                    THEN [taken EXCEPT ![d] = @ - 1] ELSE taken
  BY <1>1, TailElements, PacketOf DEF Request_Match_UserEnterFail, AtMaster
<1>3. UNCHANGED <<sessionList, session, task, http, toMatch, drops, conn, phase, resent>>
  BY DEF Request_Match_UserEnterFail, serverVars, poolVars, clientVars
<1>4. ASSUME NEW c \in Client
      PROVE  Head(toMaster) \notin RoomPackets(c) /\ (Head(toMaster) = FailPacket(c) <=> c = d)
  <2>1. FailPacket(d) \notin RoomPackets(c) /\ (FailPacket(d) = FailPacket(c) <=> c = d)
    BY PacketsDiffer
  <2> QED
    BY <1>2, <2>1
<1>5. ASSUME NEW c \in Client
      PROVE  /\ Asked(c)' <=> Asked(c)
             /\ Failing(c) <=> c = d \/ Failing(c)'
             /\ HoldsOne(toMaster, RoomPackets(c)) => HoldsOne(toMaster', RoomPackets(c))
             /\ Closing(c) => (c # d => Closing(c)') /\ (Closing(c)' \/ ~Asked(c)')
  BY <1>1, <1>2, <1>4, MasterTakes
<1>6. ASSUME NEW c \in Client
      PROVE  /\ Replied(c)' <=> Replied(c)
             /\ \A ok \in BOOLEAN : Returned(c, ok)' <=> Returned(c, ok)
             /\ HoldsOne(toMatch, RoomPackets(c)) => HoldsOne(toMatch', RoomPackets(c))
  BY <1>3 DEF Replied, Returned, RoomPackets, RoomPacket
<1>7. \A c \in Client : HandsSame(c)
  BY <1>3, HandsKept
<1>8. \A c \in Client : c # d => Alone(c)
  BY <1>5, <1>6, <1>1, <1>2, <1>3, <1>7 DEF QueuesSame, FieldsSame, Alone
<1>9. ClientParts(d) /\ HandsSame(d) /\ Failing(d) /\ conn[d] \in {"leaving", "gone"}
  BY <1>5, <1>7 DEF AllParts, ClientParts, GivenBack
<1>10. OneLogin(d)' /\ (LoginOut(d)' => LoginOut(d))
  BY <1>3, <1>9 DEF ClientParts, OneLogin, LoginOut, HandsSame
<1>11. ASSUME d \notin resent PROVE OneRequest(d)' /\ OnePlace(d)'
  <2>1. OneRequest(d) /\ OnePlace(d)
    BY <1>9, <1>11 DEF ClientParts
  <2>2. OneRequest(d)'
    BY <1>3, <1>5, <1>6, <1>9, <2>1 DEF RoomPackets, RoomPacket, OneRequest, RoomOut, HandsSame
  <2>3. taken'[d] = 0
    BY <1>1, <2>1, <1>2 DEF OnePlace
  <2>4. phase'[d] \notin {"offer", "inside"}
    BY <1>3, <1>9, <2>1 DEF OnePlace, SessionInv, WaitOK
  <2>5. OnePlace(d)'
    BY <1>3, <1>9, <2>3, <2>4, NoPlaceYet
  <2> QED
    BY <2>2, <2>5
<1>12. GivenBack(d)'
  BY <1>5, <1>9, <1>2, <1>3 DEF ClientParts, GivenBack
<1>13. ClientParts(d)'
  BY <1>3, <1>10, <1>11, <1>12 DEF ClientParts
<1>14. \A o \in sessionList' : session'[o].client = d => StatusOK(o)'
  BY <1>1, <1>3, <1>2, <1>5, <1>6, <1>9, <1>10, StatusKept DEF AllParts, NeverAsked, RoomOut,
     HandsSame
<1> QED
  BY <1>3, <1>8, <1>13, <1>14, TouchesOne

(* The message thread takes the end of an account request of d.            *)
LEMMA HttpParts ==
    ASSUME SessionInv, AllParts, ~overlap, NEW d \in Client,
           NEW step \in {"login", "fail"}, NEW ok \in BOOLEAN, FromHttp(d, step, ok),
           http' = [http EXCEPT ![d] = @ - 1],
           UNCHANGED <<sessionList, session, toMaster, toMatch, drops, placed, taken, conn,
                       phase, resent>>
    PROVE  AllParts'
<1>1. /\ http \in [Client -> Nat] /\ task \in [Thread -> TaskRec] /\ sessionList \subseteq Object
      /\ Client \subseteq Thread /\ Lan \in Thread /\ Http \in Thread
      /\ Lan \notin Client /\ Http \notin Client /\ Lan # Http /\ Idle.step = "idle"
  BY MatchmakingAssumption DEF SessionInv, TypeOK, Thread, Idle
<1>2. CanStart(Http) /\ http[d] > 0
  BY DEF FromHttp
<1>3. Quiet
  BY <1>1, <1>2, QuietStart
<1>4. /\ \A t \in Thread : t # Http => task'[t] = Idle
      /\ task'[Http] # Idle => session[task'[Http].session].client = d
  BY <1>1, <1>3 DEF Begin, Quiet, Find_Session, FromHttp
<1>5. \A c \in Client : ~InHand(c) /\ ~Offered(c) /\ ~HttpHolds(c)
  BY <1>3, QuietHands
<1>6. \A c \in Client : ~InHand(c)' /\ ~Offered(c)' /\ (HttpHolds(c)' => c = d)
  BY <1>1, <1>4 DEF InHand, Offered, HttpHolds, At
<1>7. \A c \in Client : QueuesSame(c)
  BY QueuesKept
<1>8. \A c \in Client : c # d => Alone(c)
  BY <1>1, <1>5, <1>6, <1>7 DEF Alone, HandsSame, FieldsSame
<1>9. ClientParts(d) /\ LoginOut(d) /\ http[d] = 1 /\ http'[d] = 0
  BY <1>1, <1>2 DEF AllParts, ClientParts, OneLogin, LoginOut
<1>10. OneLogin(d)'
  BY <1>9 DEF ClientParts, OneLogin
<1>11. /\ InHand(d)' <=> InHand(d)
       /\ Offered(d)' <=> Offered(d)
       /\ ~Offered(d)' /\ QueuesSame(d)
  BY <1>5, <1>6, <1>7
<1>12. ASSUME d \notin resent PROVE OneRequest(d)' /\ OnePlace(d)'
  BY <1>9, <1>11, <1>12 DEF ClientParts, OneRequest, RoomOut, QueuesSame, OnePlace, Answer
<1>13. NeverAsked(d) => NeverAsked(d)'
  BY <1>11 DEF NeverAsked, RoomOut, QueuesSame
<1>14. GivenBack(d)'
  BY <1>9, <1>11, <1>13 DEF ClientParts, GivenBack, QueuesSame
<1>15. ClientParts(d)'
  BY <1>10, <1>12, <1>14 DEF ClientParts
<1>16. \A o \in sessionList' : session'[o].client = d => StatusOK(o)'
  BY <1>1, <1>9, <1>13, StatusKept DEF AllParts
<1> QED
  BY <1>8, <1>15, <1>16, TouchesOne

(* What the message thread finds when it answers a login.                  *)
LEMMA LoginHandler ==
    ASSUME SessionInv, AllParts, OneHandler, task[Http] # Idle, Return(Http)
    PROVE  \E o \in sessionList, d \in Client :
               /\ o = task[Http].session /\ d = session[o].client
               /\ \A p \in sessionList : session[p].client = d => p = o
               /\ \A c \in Client : c # d => HandsSame(c)
               /\ ~InHand(d)' /\ ~Offered(d)' /\ ~HttpHolds(d)'
               /\ LoginOut(d) /\ http[d] = 0
               /\ NeverAsked(d) /\ OneRequest(d) /\ StatusOK(o) /\ ClientParts(d)
               /\ session[o].curStatus < 3
               /\ phase[d] = IF conn[d] = "up" THEN "login" ELSE "out"
<1> DEFINE o == task[Http].session
           d == session[o].client
<1>1. /\ task \in [Thread -> TaskRec] /\ sessionList \subseteq Object
      /\ Client \subseteq Thread /\ Lan \in Thread /\ Http \in Thread
      /\ Lan \notin Client /\ Http \notin Client /\ Lan # Http /\ Idle.step = "idle"
      /\ session \in [Object -> SessionRec]
  BY MatchmakingAssumption DEF SessionInv, TypeOK, Thread, Idle
<1>2. o \in sessionList /\ \A t \in Thread : t # Http => task[t] = Idle
  BY <1>1, OnlyHandler
<1>3. d \in Client /\ \A p \in sessionList : session[p].client = d => p = o
  BY <1>2 DEF SessionInv, ListOK
<1>4. Quiet'
  BY <1>1, <1>2 DEF Quiet, Return
<1>5. \A c \in Client : ~InHand(c)' /\ ~Offered(c)' /\ ~HttpHolds(c)'
  BY <1>4, QuietHands
<1>6. \A c \in Client : ~InHand(c) /\ ~Offered(c) /\ (HttpHolds(c) <=> c = d)
  BY <1>1, <1>2, <1>3 DEF InHand, Offered, HttpHolds, At
<1>7. \A c \in Client : c # d => HandsSame(c)
  BY <1>5, <1>6 DEF HandsSame
<1>8. StatusOK(o) /\ ClientParts(d)
  BY <1>2, <1>3 DEF AllParts
<1>9. LoginOut(d) /\ http[d] = 0 /\ phase[d] = IF conn[d] = "up" THEN "login" ELSE "out"
  BY <1>3, <1>6, <1>8 DEF LoginOut, ClientParts, OneLogin
<1>10. session[o].curStatus < 3 /\ NeverAsked(d)
  BY <1>8, <1>9 DEF StatusOK, Status_Request_RoomInfo
<1>11. OneRequest(d)
  BY <1>8, <1>10 DEF ClientParts, NeverAsked
<1>12. o = task[Http].session /\ d = session[o].client
  OBVIOUS
<1> HIDE DEF o, d
<1> QED
  BY <1>2, <1>3, <1>5, <1>7, <1>8, <1>9, <1>10, <1>11, <1>12

LEMMA LoggedParts ==
    ASSUME SessionInv, AllParts, OneHandler, Response_Session_Login
    PROVE  AllParts'
<1>1. task[Http] # Idle /\ Return(Http)
  BY DEF Response_Session_Login, At, Idle
<1>2. PICK o \in sessionList, d \in Client :
        /\ o = task[Http].session /\ d = session[o].client
        /\ \A p \in sessionList : session[p].client = d => p = o
        /\ \A c \in Client : c # d => HandsSame(c)
        /\ ~InHand(d)' /\ ~Offered(d)' /\ ~HttpHolds(d)'
        /\ http[d] = 0 /\ NeverAsked(d) /\ OneRequest(d) /\ ClientParts(d)
        /\ phase[d] = IF conn[d] = "up" THEN "login" ELSE "out"
  BY <1>1, LoginHandler
<1>3. /\ SetStatus(o, 2)
      /\ UNCHANGED <<sessionList, http, toMaster, toMatch, drops, placed, taken, conn, resent>>
      /\ Tell(d, IF task[Http].ok THEN "LOGIN_OK" ELSE "LOGIN_ERROR")
  BY <1>2 DEF Response_Session_Login, Status_Success_Login, poolVars, linkVars, masterVars
<1>4. /\ phase \in [Client -> Phase] /\ sessionList \subseteq Object
      /\ session \in [Object -> SessionRec]
  BY DEF SessionInv, TypeOK
<1>5. /\ phase'[d] \in IF conn[d] = "up" THEN {"lobby", "denied"} ELSE {"out"}
      /\ \A c \in Client : c # d => phase'[c] = phase[c]
  BY <1>2, <1>3, <1>4 DEF Tell, Awaits, Leads
<1>6. /\ session'[o].client = d /\ session'[o].curStatus = 2
      /\ \A p \in sessionList : p # o => session'[p] = session[p]
  BY <1>2, <1>3, <1>4 DEF SetStatus, SessionRec
<1>7. \A c \in Client : QueuesSame(c)
  BY <1>3, QueuesKept
<1>8. \A c \in Client : c # d => Alone(c)
  BY <1>2, <1>3, <1>5, <1>7 DEF Alone, FieldsSame
<1>9. ~RoomOut(d)' /\ QueuesSame(d)
  BY <1>2, <1>7 DEF NeverAsked, RoomOut, QueuesSame
<1>10. NeverAsked(d)' /\ OneRequest(d)' /\ OnePlace(d)'
  BY <1>2, <1>3, <1>5, <1>9, NeverAskedKept
<1>11. ~LoginOut(d)' /\ OneLogin(d)'
  BY <1>2, <1>3 DEF LoginOut, OneLogin
<1>12. GivenBack(d)'
  BY <1>2, <1>3, <1>9, <1>10 DEF ClientParts, GivenBack, QueuesSame, NeverAsked, RoomOut
<1>13. ClientParts(d)'
  BY <1>10, <1>11, <1>12 DEF ClientParts
<1>14. StatusOK(o)'
  BY <1>5, <1>6, <1>10, <1>11 DEF StatusOK, Status_Request_RoomInfo, Status_Success_RoomEnter
<1>15. \A p \in sessionList' : IF session'[p].client = d THEN p = o
                               ELSE p \in sessionList /\ session'[p] = session[p]
  BY <1>2, <1>3, <1>6
<1> QED
  BY <1>3, <1>8, <1>13, <1>14, <1>15, TouchesOne

LEMMA RetryParts ==
    ASSUME SessionInv, AllParts, OneHandler, Fail_HttpRequest_Retry
    PROVE  AllParts'
<1>1. task[Http] # Idle /\ Return(Http)
  BY DEF Fail_HttpRequest_Retry, At, Idle
<1>2. PICK o \in sessionList, d \in Client :
        /\ o = task[Http].session /\ d = session[o].client
        /\ \A p \in sessionList : session[p].client = d => p = o
        /\ \A c \in Client : c # d => HandsSame(c)
        /\ ~InHand(d)' /\ ~Offered(d)' /\ ~HttpHolds(d)'
        /\ LoginOut(d) /\ http[d] = 0
        /\ NeverAsked(d) /\ OneRequest(d) /\ StatusOK(o) /\ ClientParts(d)
        /\ session[o].curStatus < 3
        /\ phase[d] = IF conn[d] = "up" THEN "login" ELSE "out"
  BY <1>1, LoginHandler
<1>3. /\ \E n : session' = [session EXCEPT ![o].httpFailCount = n]
      /\ UNCHANGED <<sessionList, toMaster, toMatch, drops, placed, taken, resent>>
      /\ \/ Close(d) /\ http' = http
         \/ http' = [http EXCEPT ![d] = @ + 1] /\ conn' = conn /\ phase' = phase
  BY <1>2 DEF Fail_HttpRequest_Retry, poolVars, linkVars, masterVars
<1>4. /\ phase \in [Client -> Phase] /\ sessionList \subseteq Object
      /\ session \in [Object -> SessionRec] /\ http \in [Client -> Nat]
      /\ conn \in [Client -> {"out", "up", "closing", "leaving", "gone"}]
  BY DEF SessionInv, TypeOK
<1>5. /\ \A c \in Client : c # d => /\ phase'[c] = phase[c] /\ conn'[c] = conn[c]
                                    /\ http'[c] = http[c]
      /\ conn[d] # "up" => conn'[d] = conn[d]
      /\ http'[d] = 0 \/ (http'[d] = 1 /\ conn'[d] = conn[d])
      /\ phase'[d] = IF conn'[d] = "up" THEN "login" ELSE "out"
  <2>1. CASE Close(d) /\ http' = http
    BY <1>2, <1>4, <2>1 DEF Close
  <2>2. CASE http' = [http EXCEPT ![d] = @ + 1] /\ conn' = conn /\ phase' = phase
    BY <1>2, <1>4, <2>2
  <2> QED
    BY <1>3, <2>1, <2>2
<1>6. /\ session'[o].client = d /\ session'[o].curStatus = session[o].curStatus
      /\ \A p \in sessionList : p # o => session'[p] = session[p]
  BY <1>2, <1>3, <1>4 DEF SessionRec
<1>7. \A c \in Client : QueuesSame(c)
  BY <1>3, QueuesKept
<1>8. \A c \in Client : c # d => Alone(c)
  BY <1>2, <1>3, <1>5, <1>7 DEF Alone, FieldsSame
<1>9. ~RoomOut(d)' /\ QueuesSame(d)
  BY <1>2, <1>7 DEF NeverAsked, RoomOut, QueuesSame
<1>10. NeverAsked(d)' /\ OneRequest(d)' /\ OnePlace(d)'
  BY <1>2, <1>3, <1>5, <1>9, NeverAskedKept
<1>11. conn[d] # "out" /\ conn'[d] # "out"
  BY <1>2, <1>3, <1>4 DEF ClientParts, OneLogin, Close
<1>12. OneLogin(d)'
  BY <1>2, <1>5, <1>11 DEF OneLogin
<1>13. GivenBack(d)'
  BY <1>2, <1>3, <1>5, <1>9, <1>10, <1>11
     DEF ClientParts, GivenBack, QueuesSame, NeverAsked, RoomOut
<1>14. ClientParts(d)'
  BY <1>10, <1>12, <1>13 DEF ClientParts
<1>15. StatusOK(o)'
  BY <1>2, <1>5, <1>6, <1>10 DEF StatusOK, Status_Request_RoomInfo, Status_Success_RoomEnter
<1>16. \A p \in sessionList' : IF session'[p].client = d THEN p = o
                               ELSE p \in sessionList /\ session'[p] = session[p]
  BY <1>2, <1>3, <1>6
<1> QED
  BY <1>3, <1>8, <1>14, <1>15, <1>16, TouchesOne

(* The thread of the lan client takes the answer about d from the queue.   *)
LEMMA AnswerParts ==
    ASSUME SessionInv, AllParts, ~overlap, Recieve_MasterRequest_RoomInfo
    PROVE  AllParts'
<1>1. /\ toMatch \in Seq(Packet) /\ task \in [Thread -> TaskRec] /\ sessionList \subseteq Object
      /\ Client \subseteq Thread /\ Lan \in Thread /\ Http \in Thread
      /\ Lan \notin Client /\ Http \notin Client /\ Lan # Http /\ Idle.step = "idle"
  BY MatchmakingAssumption DEF SessionInv, TypeOK, Thread, Idle
<1>2. /\ CanStart(Lan)
      /\ UNCHANGED <<sessionList, session, http, toMaster, drops, placed, taken, conn, phase,
                     resent>>
  BY DEF Recieve_MasterRequest_RoomInfo, FromMaster, serverVars, poolVars, masterVars,
         clientVars
<1>3. PICK d \in Client, k \in BOOLEAN :
        /\ toMatch # <<>> /\ toMatch' = Tail(toMatch) /\ Head(toMatch) = RoomPacket(d, k)
        /\ \/ \E o \in Find_Session(d) : Begin(Lan, "offer", o, k)
           \/ task' = task
  BY <1>1, TailElements, PacketOf DEF Recieve_MasterRequest_RoomInfo, FromMaster
<1>4. Quiet
  BY <1>1, <1>2, QuietStart
<1>5. /\ \A t \in Thread : t # Lan => task'[t] = Idle
      /\ task'[Lan].step = "offer" =>
           /\ session[task'[Lan].session].client = d
           /\ task'[Lan].ok = k
  BY <1>1, <1>4, <1>3 DEF Begin, Quiet, Find_Session
<1>6. \A c \in Client : ~InHand(c) /\ ~Offered(c) /\ ~HttpHolds(c)
  BY <1>4, QuietHands
<1>7. \A c \in Client : /\ ~InHand(c)' /\ ~HttpHolds(c)'
                        /\ Offered(c)' => c = d /\ task'[Lan].ok = k
  BY <1>1, <1>2, <1>5 DEF InHand, Offered, HttpHolds, At
<1>8. ASSUME NEW c \in Client
      PROVE  /\ Head(toMatch) \in RoomPackets(c) <=> c = d
             /\ \A ok \in BOOLEAN : Head(toMatch) = RoomPacket(c, ok) <=> (c = d /\ ok = k)
  BY PacketsDiffer, <1>3
<1>9. ASSUME NEW c \in Client
      PROVE  /\ \A ok \in BOOLEAN :
                  Returned(c, ok) <=> Head(toMatch) = RoomPacket(c, ok) \/ Returned(c, ok)'
             /\ Replied(c) <=> Head(toMatch) \in RoomPackets(c) \/ Replied(c)'
             /\ HoldsOne(toMatch, RoomPackets(c)) =>
                  /\ HoldsOne(toMatch', RoomPackets(c))
                  /\ Head(toMatch) \in RoomPackets(c) => ~Replied(c)'
  BY <1>1, <1>3, MatchTakes
<1>10. ASSUME NEW c \in Client
       PROVE  /\ Asked(c)' <=> Asked(c)
              /\ Failing(c)' <=> Failing(c)
              /\ Closing(c) => Closing(c)'
              /\ HoldsOne(toMaster, RoomPackets(c)) => HoldsOne(toMaster', RoomPackets(c))
  BY <1>2 DEF Asked, Failing, Closing, RoomPackets, RoomPacket, FailPacket
<1>11. \A c \in Client : c # d => Alone(c)
  BY <1>8, <1>9, <1>10, <1>6, <1>7, <1>2 DEF QueuesSame, HandsSame, FieldsSame, Alone
<1>12. ClientParts(d) /\ Replied(d) /\ Returned(d, k)
  BY <1>8, <1>9 DEF AllParts
<1>13. /\ ~InHand(d)' /\ ~InHand(d) /\ ~HttpHolds(d)' /\ ~HttpHolds(d) /\ ~Offered(d)
       /\ Offered(d)' => task'[Lan].ok = k
  BY <1>6, <1>7
<1>14. OneLogin(d)' /\ (LoginOut(d)' => LoginOut(d))
  BY <1>2, <1>12, <1>13 DEF ClientParts, OneLogin, LoginOut
<1>15. ASSUME d \notin resent PROVE OneRequest(d)' /\ OnePlace(d)'
  <2>1. OneRequest(d) /\ OnePlace(d) /\ ~Asked(d) /\ RoomOut(d)
    BY <1>12, <1>15 DEF ClientParts, OneRequest, RoomOut
  <2>2. /\ ~Replied(d)' /\ ~Asked(d)'
        /\ HoldsOne(toMaster', RoomPackets(d)) /\ HoldsOne(toMatch', RoomPackets(d))
    BY <1>8, <1>9, <1>10, <2>1 DEF OneRequest
  <2>3. RoomPackets(d)' = RoomPackets(d)
    BY DEF RoomPackets, RoomPacket
  <2>4. OneRequest(d)'
    BY <1>2, <1>13, <2>1, <2>2, <2>3 DEF OneRequest
  <2>5. ASSUME NEW ok \in BOOLEAN, Answer(d, ok)' PROVE Answer(d, ok)
    BY <2>2, <1>13, <2>5, <1>12 DEF Replied, Returned, Holds, RoomPackets, Answer
  <2>6. (Answer(d, TRUE)' => Answer(d, TRUE)) /\ (Answer(d, FALSE)' => Answer(d, FALSE))
    BY <2>5
  <2>7. OnePlace(d)'
    BY <1>2, <1>10, <1>13, <2>1, <2>2, <2>6 DEF OnePlace
  <2> QED
    BY <2>4, <2>7
<1>16. ~NeverAsked(d)
  BY <1>12 DEF NeverAsked, RoomOut
<1>17. GivenBack(d)'
  BY <1>2, <1>10, <1>12, <1>16 DEF ClientParts, GivenBack
<1>18. ClientParts(d)'
  BY <1>2, <1>14, <1>15, <1>17 DEF ClientParts
<1>19. \A o \in sessionList' : session'[o].client = d => StatusOK(o)'
  BY <1>1, <1>2, <1>14, <1>16, StatusKept DEF AllParts
<1> QED
  BY <1>2, <1>11, <1>18, <1>19, TouchesOne

(* It tells the client what the answer was.                                *)
LEMMA TellParts ==
    ASSUME SessionInv, AllParts, OneHandler, Response_Session_RoomInfo
    PROVE  AllParts'
<1>1. /\ task \in [Thread -> TaskRec] /\ sessionList \subseteq Object
      /\ Client \subseteq Thread /\ Lan \in Thread /\ Http \in Thread
      /\ Lan \notin Client /\ Http \notin Client /\ Lan # Http /\ Idle.step = "idle"
      /\ session \in [Object -> SessionRec] /\ phase \in [Client -> Phase]
  BY MatchmakingAssumption DEF SessionInv, TypeOK, Thread, Idle
<1>2. task[Lan] # Idle /\ Return(Lan) /\ At(Lan, "offer")
  BY DEF Response_Session_RoomInfo, At, Idle
<1>3. task[Lan].session \in sessionList /\ \A t \in Thread : t # Lan => task[t] = Idle
  BY <1>1, <1>2, OnlyHandler
<1>4. PICK o \in sessionList, d \in Client, k \in BOOLEAN :
        /\ o = task[Lan].session /\ d = session[o].client /\ k = task[Lan].ok
        /\ \A p \in sessionList : session[p].client = d => p = o
        /\ conn[d] \in Listed
  BY <1>1, <1>3 DEF SessionInv, ListOK, TaskRec
<1>5. /\ SetStatus(o, 4)
      /\ UNCHANGED <<sessionList, http, toMaster, toMatch, drops, placed, taken, conn, resent>>
      /\ Tell(d, IF k THEN "ROOM" ELSE "NO_ROOM")
  BY <1>4 DEF Response_Session_RoomInfo, Status_Success_RoomInfo, poolVars, linkVars, masterVars
<1>6. Quiet'
  BY <1>1, <1>2, <1>3 DEF Quiet, Return
<1>7. \A c \in Client : ~InHand(c)' /\ ~Offered(c)' /\ ~HttpHolds(c)'
  BY <1>6, QuietHands
<1>8. \A c \in Client : ~InHand(c) /\ ~HttpHolds(c) /\ (Offered(c) <=> c = d)
  BY <1>1, <1>2, <1>3, <1>4 DEF InHand, Offered, HttpHolds, At
<1>9. \A c \in Client : QueuesSame(c)
  BY <1>5, QueuesKept
<1>10. /\ phase'[d] = IF conn[d] = "up" /\ phase[d] = "room"
                      THEN IF k THEN "offer" ELSE "lobby"
                      ELSE phase[d]
       /\ \A c \in Client : c # d => phase'[c] = phase[c]
  BY <1>1, <1>5 DEF Tell, Awaits, Leads
<1>11. /\ session'[o].client = d /\ session'[o].curStatus = 4
       /\ \A p \in sessionList : p # o => session'[p] = session[p]
  BY <1>1, <1>4, <1>5 DEF SetStatus, SessionRec
<1>12. \A c \in Client : c # d => Alone(c)
  BY <1>5, <1>7, <1>8, <1>9, <1>10 DEF Alone, HandsSame, FieldsSame
<1>13. /\ ClientParts(d) /\ StatusOK(o) /\ QueuesSame(d)
       /\ Offered(d) /\ RoomOut(d) /\ ~NeverAsked(d)
       /\ ~InHand(d)' /\ ~Offered(d)' /\ ~HttpHolds(d)' /\ ~HttpHolds(d)
  BY <1>4, <1>7, <1>8, <1>9 DEF AllParts, RoomOut, NeverAsked
<1>14. ~LoginOut(d) /\ phase[d] # "joined"
  BY <1>4, <1>13 DEF StatusOK
<1>15. ~LoginOut(d)' /\ OneLogin(d)'
  BY <1>5, <1>13, <1>14 DEF ClientParts, OneLogin, LoginOut
<1>16. ASSUME d \notin resent PROVE OneRequest(d)' /\ OnePlace(d)' /\ phase'[d] # "inside"
  BY <1>13, <1>16, NoRequestLeft, NoAnswerLeft, <1>4, <1>5, <1>10 DEF ClientParts, OneRequest,
     RoomOut, QueuesSame, Answer, OnePlace
<1>17. GivenBack(d)'
  BY <1>5, <1>10, <1>13 DEF ClientParts, GivenBack, QueuesSame
<1>18. ClientParts(d)'
  BY <1>5, <1>15, <1>16, <1>17 DEF ClientParts
<1>19. StatusOK(o)'
  BY <1>10, <1>14, <1>5, <1>11, <1>15, <1>16 DEF SessionInv, WaitOK, StatusOK,
     Status_Request_RoomInfo, Status_Success_RoomEnter
<1>20. \A p \in sessionList' : IF session'[p].client = d THEN p = o
                               ELSE p \in sessionList /\ session'[p] = session[p]
  BY <1>4, <1>5, <1>11
<1> QED
  BY <1>5, <1>12, <1>18, <1>19, <1>20, TouchesOne

(* After a login of the link the requests without an answer are sent again.*)
LEMMA ResendParts ==
    ASSUME SessionInv, AllParts, RequestKept, ~overlap, Recieve_MasterRequest_Login
    PROVE  AllParts'
<1> DEFINE R == {session[o].client : o \in Waiting}
<1>1. /\ toMatch \in Seq(Packet) /\ toMaster \in Seq(Packet) /\ sessionList \subseteq Object
      /\ TypeOK /\ \A o \in sessionList : session[o].client \in Client
      /\ conn \in [Client -> {"out", "up", "closing", "leaving", "gone"}]
      /\ Client \subseteq Thread /\ Lan \in Thread
      /\ Waiting \subseteq sessionList
  BY DEF SessionInv, TypeOK, ListOK, Thread, Waiting
<1>2. /\ CanStart(Lan) /\ toMatch # <<>> /\ Head(toMatch).type = "SERVER_ON"
      /\ toMatch' = Tail(toMatch) /\ resent' = resent \cup R
      /\ UNCHANGED <<sessionList, session, task, http, drops, placed, taken, conn, phase>>
  BY DEF Recieve_MasterRequest_Login, FromMaster, serverVars, poolVars, masterVars, clientVars
<1>3. Quiet
  BY <1>1, <1>2, QuietStart
<1>4. PICK s \in SetToSeqs({RoomPacket(session[o].client, TRUE) : o \in Waiting}) :
        toMaster' = toMaster \o s
  BY <1>2 DEF Recieve_MasterRequest_Login, Send, RequestKept
<1>5. /\ s \in Seq(Packet)
      /\ \A i \in DOMAIN s : \E o \in Waiting : s[i] = RoomPacket(session[o].client, TRUE)
  BY <1>1, SentAgain
<1>6. ASSUME NEW c \in Client
      PROVE  /\ ~Holds(s, {FailPacket(c)})
             /\ c \notin R => ~Holds(s, RoomPackets(c))
  <2>1. ASSUME NEW i \in DOMAIN s
        PROVE  s[i] # FailPacket(c) /\ (s[i] \in RoomPackets(c) => c \in R)
    <3>1. PICK e \in Client : s[i] = RoomPacket(e, TRUE) /\ e \in R
      BY <1>1, <1>5
    <3>2. /\ RoomPacket(e, TRUE) \in RoomPackets(c) <=> c = e
          /\ RoomPacket(e, TRUE) # FailPacket(c)
      BY PacketsDiffer
    <3> HIDE DEF R
    <3> QED
      BY <3>1, <3>2
  <2> HIDE DEF R
  <2> QED
    BY <2>1 DEF Holds
<1>7. ASSUME NEW c \in Client PROVE c \notin R => HoldsOne(s, RoomPackets(c))
  BY <1>6 DEF Holds, HoldsOne
<1>8. \A o \in sessionList : session[o].client \in R => o \in Waiting
  BY DEF SessionInv, ListOK, Waiting
<1>9. \A c \in Client : c \in R => conn[c] \in {"up", "closing"}
  <2>1. \A c \in Client : ~At(c, "free")
    BY <1>1, <1>3 DEF Quiet, At, Idle
  <2>2. \A c \in Client : c \in R => conn[c] \in Listed
    BY <1>1 DEF SessionInv, ListOK
  <2> HIDE DEF R
  <2> QED
    BY <2>1, <2>2 DEF SessionInv, FreeOK, Listed
<1> HIDE DEF R
<1>10. ASSUME NEW c \in Client
       PROVE  /\ Failing(c)' <=> Failing(c)
              /\ c \notin R => /\ Asked(c)' <=> Asked(c)
                               /\ Closing(c) => Closing(c)'
                               /\ HoldsOne(toMaster, RoomPackets(c)) =>
                                    HoldsOne(toMaster', RoomPackets(c))
  BY <1>1, <1>4, <1>5, <1>6, <1>7, MasterGains
<1>11. Head(toMatch) = ON
  BY <1>1, <1>2, TailElements, PacketOf
<1>12. ASSUME NEW c \in Client
       PROVE  /\ Replied(c)' <=> Replied(c)
              /\ \A ok \in BOOLEAN : Returned(c, ok)' <=> Returned(c, ok)
              /\ HoldsOne(toMatch, RoomPackets(c)) => HoldsOne(toMatch', RoomPackets(c))
  <2>1. ON \notin RoomPackets(c) /\ \A ok \in BOOLEAN : ON # RoomPacket(c, ok)
    BY PacketsDiffer
  <2> QED
    BY <1>1, <1>2, <1>11, <2>1, MatchTakes
<1>13. ASSUME NEW c \in Client, c \notin R PROVE Alone(c)
  BY <1>2, HandsKept, <1>10, <1>12, <1>13 DEF QueuesSame, FieldsSame, Alone
<1>14. ASSUME NEW c \in Client PROVE ClientParts(c)'
  BY <1>2, <1>13, ClientAlone, <1>9, HandsKept, <1>10 DEF AllParts, ClientParts, OneLogin,
     LoginOut, HandsSame, GivenBack
<1>15. ASSUME NEW o \in sessionList PROVE StatusOK(o)'
  BY <1>1, <1>2, <1>13, StatusAlone, <1>8, HandsKept DEF AllParts, Waiting,
     Status_Request_RoomInfo, LoginOut, HandsSame, StatusOK
<1> QED
  BY <1>2, <1>14, <1>15 DEF AllParts

-----------------------------------------------------------------------------
(* RoomInv is inductive.                                                   *)
LEMMA PartsStep ==
    ASSUME SessionInv, AllParts, OneHandler, RequestKept, ~overlap, [Next]_vars
    PROVE  AllParts'
<1>1. ASSUME NEW c \in Client, Request(c) PROVE AllParts'
  BY <1>1, JoinParts, LoginParts, VersionParts, AskParts, EnterParts DEF Request
<1>2. ASSUME NEW c \in Client, Worker(c) PROVE AllParts'
  BY <1>2, SendParts, LeaveParts, FreeParts DEF Worker
<1>3. ASSUME LanThread PROVE AllParts'
  BY <1>3, ResendParts, AnswerParts, TellParts DEF LanThread
<1>4. ASSUME HttpThread PROVE AllParts'
  BY HttpParts, <1>4, LoggedParts, RetryParts DEF Receive_HttpRequest_SessionKey, serverVars,
     poolVars, linkVars, masterVars, clientVars, Fail_HttpRequest, HttpThread
<1>5. ASSUME Master PROVE AllParts'
  BY <1>5, LinkParts, PlaceParts, FailParts DEF Master
<1> QED
  BY <1>1, <1>2, <1>3, <1>4, <1>5, HangupParts, LinkParts, DropParts DEF Next, Reconnect

(* A thread starts a handler when no other runs, on a listed session, and  *)
(* a worker on that of its client.                                         *)
TaskStarts ==
    \E t \in Thread, o \in sessionList :
        /\ CanStart(t) /\ UNCHANGED poolVars
        /\ t \in Client => session[o].client = t
        /\ \E s \in {"roominfo", "free", "offer", "login", "fail"}, ok \in BOOLEAN :
             Begin(t, s, o, ok)

TaskReturns ==
    \/ \E c \in Client : Send_Master_Roominfo(c) \/ Free_Session(c)
    \/ Response_Session_RoomInfo \/ Response_Session_Login \/ Fail_HttpRequest_Retry

LEMMA TaskMoves ==
    ASSUME SessionInv, [Next]_vars
    PROVE  UNCHANGED task \/ TaskReturns \/ TaskStarts
<1> DEFINE Goal == UNCHANGED task \/ TaskReturns \/ TaskStarts
<1>0. Lan \in Thread /\ Http \in Thread /\ Client \subseteq Thread
      /\ Lan \notin Client /\ Http \notin Client
  BY MatchmakingAssumption DEF Thread
<1>1. ASSUME TaskReturns PROVE Goal
  BY <1>1
<1>2. ASSUME TaskStarts PROVE Goal
  BY <1>2
<1>3. ASSUME UNCHANGED task PROVE Goal
  BY <1>3
<1> HIDE DEF Goal
<1>4. ASSUME NEW c \in Client, Request_Session_RoomInfo(c) PROVE Goal
  BY <1>4, <1>0, <1>2 DEF Request_Session_RoomInfo, OnRecv, Find_Session, TaskStarts
<1>5. ASSUME NEW c \in Client, Send_Master_Roominfo(c) \/ Free_Session(c) PROVE Goal
  BY <1>1, <1>5 DEF TaskReturns
<1>6. ASSUME NEW c \in Client, OnClientLeave(c) PROVE Goal
  BY <1>6, <1>0, <1>2 DEF OnClientLeave, Find_Session, TaskStarts
<1>7. ASSUME NEW c \in Client, NEW s \in {"login", "fail"}, NEW ok \in BOOLEAN,
             FromHttp(c, s, ok), UNCHANGED poolVars
      PROVE  Goal
  BY <1>7, <1>0, <1>2, <1>3 DEF FromHttp, Find_Session, TaskStarts
<1>8. ASSUME NEW c \in Client, NEW ok \in BOOLEAN,
             Receive_HttpRequest_SessionKey(c, ok) \/ Fail_HttpRequest(c)
      PROVE  Goal
  BY <1>8, <1>7 DEF Receive_HttpRequest_SessionKey, Fail_HttpRequest, serverVars
<1>9. ASSUME Recieve_MasterRequest_RoomInfo PROVE Goal
  BY <1>9, TailElements, PacketOf, <1>0, <1>2, <1>3 DEF Recieve_MasterRequest_RoomInfo, FromMaster,
     serverVars, Find_Session, SessionInv, TypeOK, TaskStarts
<1>10. ASSUME Response_Session_RoomInfo \/ Response_Session_Login \/ Fail_HttpRequest_Retry
       PROVE  Goal
  BY <1>1, <1>10 DEF TaskReturns
<1>11. Goal
  BY <1>3, <1>4, <1>5, <1>6, <1>8, <1>9, <1>10, WhoChanges DEF TaskChangedBy
<1> QED
  BY <1>11 DEF Goal

LEMMA OneHandlerStep ==
    ASSUME SessionInv, OneHandler, ~overlap, [Next]_vars
    PROVE  OneHandler'
<1>1. /\ task \in [Thread -> TaskRec] /\ sessionList \subseteq Object /\ Client \subseteq Thread
      /\ Idle.session = NoObject /\ NoObject \notin Object
  BY MatchmakingAssumption DEF SessionInv, TypeOK, Thread, Idle
<1>2. /\ \A t, u \in Thread : task[t] # Idle /\ task[u] # Idle => t = u
      /\ \A t \in Thread : task[t] # Idle => task[t].session \in sessionList
      /\ \A c \in Client : task[c] # Idle => session[task[c].session].client = c
  BY DEF OneHandler
<1>3. CASE \E d \in Client : OnClientJoin(d)
  <2>1. PICK d \in Client : OnClientJoin(d)
    BY <1>3
  <2>2. task' = task
    BY <2>1 DEF OnClientJoin
  <2>3. PICK o \in Object : /\ o \notin sessionList /\ sessionList' = sessionList \cup {o}
                            /\ \A p \in sessionList : session'[p] = session[p]
    BY <2>1, JoinEffect
  <2> QED
    BY <1>1, <1>2, <2>2, <2>3 DEF OneHandler
<1>4. CASE \E d \in Client : Free_Session(d)
  <2>1. PICK d \in Client : Free_Session(d)
    BY <1>4
  <2>2. d \in Thread /\ task[d] # Idle
    BY <1>1, <2>1 DEF Free_Session, At, Idle
  <2>3. task'[d] = Idle /\ \A t \in Thread : t # d => task'[t] = task[t]
    BY <2>1, FreeEffect
  <2>4. \A t \in Thread : task'[t] = Idle
    BY <1>2, <2>2, <2>3
  <2> QED
    BY <1>1, <2>4 DEF OneHandler
<1>5. CASE /\ UNCHANGED poolVars
           /\ \A o \in Object : session'[o].client = session[o].client
  <2>1. /\ sessionList' = sessionList
        /\ \A o \in sessionList : session'[o].client = session[o].client
    BY <1>1, <1>5 DEF poolVars
  <2>2. CASE UNCHANGED task
    BY <1>1, <1>2, <2>1, <2>2 DEF OneHandler
  <2>3. ASSUME NEW u \in Thread, Return(u) PROVE OneHandler'
    BY <1>1, <2>3, <1>2, <2>1 DEF Return, OneHandler
  <2>4. ASSUME TaskStarts PROVE OneHandler'
    BY <2>4, QuietStart, <1>1, <2>1 DEF TaskStarts, Quiet, Begin, OneHandler
  <2>5. TaskReturns => \E u \in Thread : Return(u)
    BY DEF TaskReturns, Send_Master_Roominfo, Free_Session, Response_Session_RoomInfo,
           Response_Session_Login, Fail_HttpRequest_Retry, Thread
  <2> QED
    BY <2>2, <2>3, <2>4, <2>5, TaskMoves
<1> QED
  BY <1>3, <1>4, <1>5, ClientsKept

(* A link that is down carries nothing.                                    *)
LEMMA DownStep ==
    ASSUME SessionInv, RequestKept, [Next]_vars, link' = "down"
    PROVE  toMaster' = <<>> /\ toMatch' = <<>> /\ (drops' = 0 => placed' = {})
<1>1. CASE ReleaseSession
  BY <1>1, MatchmakingAssumption DEF ReleaseSession, SessionInv, TypeOK
<1>2. CASE ~ReleaseSession
  <2>1. link' = link
    BY <1>2, WhoChanges DEF Connect, OnEnterJoinServer, LinkChangedBy
  <2>2. link = "down" /\ toMaster = <<>> /\ toMatch = <<>> /\ (drops = 0 => placed = {})
    BY <2>1 DEF RequestKept
  <2>3. /\ ~Request_Match_Login /\ ~Request_Match_UserEnterFail
        /\ \A found \in BOOLEAN : ~Request_Match_RoomInfo(found)
        /\ ~Recieve_MasterRequest_Login /\ ~Recieve_MasterRequest_RoomInfo
    BY <2>2 DEF Request_Match_Login, Request_Match_UserEnterFail, Request_Match_RoomInfo,
                AtMaster, Recieve_MasterRequest_Login, Recieve_MasterRequest_RoomInfo,
                FromMaster
  <2>4. ASSUME NEW c \in Client, Send_Master_Roominfo(c) \/ OnClientLeave(c)
        PROVE  toMaster' = toMaster
    BY <2>2, <2>4 DEF Send_Master_Roominfo, OnClientLeave, Send
  <2>5. toMaster' = toMaster
    BY <1>2, <2>1, <2>2, <2>3, <2>4, WhoChanges DEF ToMasterChangedBy, OnEnterJoinServer
  <2>6. toMatch' = toMatch /\ drops' = drops /\ placed' = placed
    BY <1>2, <2>3, WhoChanges DEF ToMatchChangedBy, DropsChangedBy, MasterVarsChangedBy, masterVars
  <2> QED
    BY <2>2, <2>5, <2>6
<1> QED
  BY <1>1, <1>2

(* A packet stays in its queue until it is taken from the head or the link *)
(* breaks.                                                                 *)
LEMMA ToMasterKeeps ==
    ASSUME SessionInv, [Next]_vars, NEW x \in Packet, Holds(toMaster, {x})
    PROVE  \/ Holds(toMaster', {x})
           \/ link' = "down"
           \/ /\ toMaster # <<>> /\ Head(toMaster) = x
              /\ Request_Match_Login \/ Request_Match_UserEnterFail
                 \/ \E found \in BOOLEAN : Request_Match_RoomInfo(found)
<1> DEFINE Taken == Request_Match_Login \/ Request_Match_UserEnterFail
                    \/ \E found \in BOOLEAN : Request_Match_RoomInfo(found)
<1>1. toMaster \in Seq(Packet)
  BY DEF SessionInv, TypeOK
<1>2. ASSUME NEW s \in Seq(Packet), toMaster' = toMaster \o s
      PROVE  Holds(toMaster', {x})
  BY <1>1, HoldsJoin, <1>2
<1>3. ASSUME NEW s \in Seq(Packet), Send(s) PROVE Holds(toMaster', {x})
  BY <1>2, <1>3 DEF Send
<1>4. ASSUME Taken PROVE Holds(toMaster', {x}) \/ (toMaster # <<>> /\ Head(toMaster) = x)
  BY <1>4, <1>1, HoldsTail DEF Request_Match_Login, Request_Match_UserEnterFail,
     Request_Match_RoomInfo, AtMaster
<1>5. ASSUME NEW c \in Client, Send_Master_Roominfo(c) PROVE Holds(toMaster', {x})
  BY <1>3, <1>5, PacketsTyped DEF Send_Master_Roominfo
<1>6. ASSUME NEW c \in Client, OnClientLeave(c) PROVE Holds(toMaster', {x})
  <2>1. <<FailPacket(c)>> \in Seq(Packet)
    BY PacketsTyped
  <2>2. <<>> \in Seq(Packet)
    OBVIOUS
  <2> QED
    BY <1>3, <1>6, <2>1, <2>2 DEF OnClientLeave
<1>7. ASSUME Recieve_MasterRequest_Login PROVE Holds(toMaster', {x})
  BY <1>7, SentAgain, <1>3 DEF Recieve_MasterRequest_Login, SessionInv, ListOK
<1>8. ASSUME OnEnterJoinServer PROVE Holds(toMaster', {x})
  <2>1. <<ON>> \in Seq(Packet)
    BY DEF Packet
  <2> QED
    BY <1>3, <1>8, <2>1 DEF OnEnterJoinServer
<1>9. ASSUME ReleaseSession PROVE link' = "down"
  BY <1>9 DEF ReleaseSession
<1>10. ASSUME toMaster' = toMaster PROVE Holds(toMaster', {x})
  BY <1>10
<1> QED
  BY <1>4, <1>5, <1>6, <1>7, <1>8, <1>9, <1>10, WhoChanges DEF ToMasterChangedBy

LEMMA ToMatchKeeps ==
    ASSUME SessionInv, [Next]_vars, NEW X, Holds(toMatch, X)
    PROVE  \/ Holds(toMatch', X)
           \/ link' = "down"
           \/ /\ toMatch # <<>> /\ Head(toMatch) \in X
              /\ Recieve_MasterRequest_Login \/ Recieve_MasterRequest_RoomInfo
<1>1. toMatch \in Seq(Packet)
  BY DEF SessionInv, TypeOK
<1>2. ASSUME NEW x \in Packet, toMatch' = Append(toMatch, x)
      PROVE  Holds(toMatch', X)
  <2>1. toMatch' = toMatch \o <<x>> /\ <<x>> \in Seq(Packet)
    BY <1>1, <1>2, AppendIsJoin
  <2>2. Holds(toMatch \o <<x>>, X)
    BY <1>1, <2>1, HoldsJoin
  <2> QED
    BY <2>1, <2>2
<1>3. ASSUME Recieve_MasterRequest_Login \/ Recieve_MasterRequest_RoomInfo
      PROVE  Holds(toMatch', X) \/ (toMatch # <<>> /\ Head(toMatch) \in X)
  BY <1>3, <1>1, HoldsTail DEF Recieve_MasterRequest_Login, Recieve_MasterRequest_RoomInfo,
     FromMaster
<1>4. ASSUME Request_Match_Login PROVE Holds(toMatch', X)
  BY <1>2, <1>4 DEF Request_Match_Login, Packet
<1>5. ASSUME NEW found \in BOOLEAN, Request_Match_RoomInfo(found) PROVE Holds(toMatch', X)
  BY <1>5, TailElements, PacketOf, <1>2, PacketsTyped DEF Request_Match_RoomInfo, AtMaster,
     SessionInv, TypeOK
<1>6. ASSUME ReleaseSession PROVE link' = "down"
  BY <1>6 DEF ReleaseSession
<1>7. ASSUME toMatch' = toMatch PROVE Holds(toMatch', X)
  BY <1>7
<1> QED
  BY <1>3, <1>4, <1>5, <1>6, <1>7, WhoChanges DEF ToMatchChangedBy

(* Where the request of a client that waits for a room can be.             *)
Pending(c) ==
    \/ InHand(c) \/ Replied(c) \/ Offered(c)
    \/ Holds(toMaster, {RoomPacket(c, TRUE)})
    \/ link # "joined" \/ Holds(toMaster, {ON}) \/ Holds(toMatch, {ON})

LEMMA PendingIs ==
    ASSUME NEW c \in Client
    PROVE  Pending(c) <=> RequestUnderWay(c) \/ LoginToCome
  BY DEF Holds, Replied, RoomPackets, Pending, RequestUnderWay, LoginToCome, InHand, Offered

(* The handlers of a client that waits for its room are the only ones that *)
(* end its request.                                                        *)
LEMMA HandsKeep ==
    ASSUME SessionInv, OneHandler, [Next]_vars, NEW c \in Client, conn[c] = "up"
    PROVE  /\ InHand(c) => InHand(c)' \/ Send_Master_Roominfo(c)
           /\ Offered(c) => Offered(c)' \/ Response_Session_RoomInfo
<1>1. /\ task \in [Thread -> TaskRec] /\ Client \subseteq Thread /\ Lan \in Thread
      /\ Http \in Thread /\ Lan \notin Client /\ Http \notin Client /\ Lan # Http
      /\ sessionList \subseteq Object
  BY MatchmakingAssumption DEF SessionInv, TypeOK, Thread
<1>2. ASSUME InHand(c) PROVE InHand(c)' \/ Send_Master_Roominfo(c)
  <2>1. task'[c] = task[c] \/ Send_Master_Roominfo(c)
    <3>1. task[c].step = "roominfo" /\ task[c] # Idle
      BY <1>2 DEF InHand, At, Idle
    <3>2. ASSUME NEW d \in Client, Send_Master_Roominfo(d), d # c PROVE task'[c] = task[c]
      BY <1>1, <3>2 DEF Send_Master_Roominfo, Return
    <3>3. ASSUME NEW d \in Client, Free_Session(d) PROVE task'[c] = task[c]
      BY <1>1, <3>1, <3>3 DEF Free_Session, Return, At
    <3>4. ASSUME TaskStarts PROVE task'[c] = task[c]
      BY <1>1, <3>1, <3>4 DEF TaskStarts, CanStart, Begin
    <3>5. ASSUME Response_Session_RoomInfo \/ Response_Session_Login \/ Fail_HttpRequest_Retry
          PROVE  task'[c] = task[c]
      BY <1>1, <3>5 DEF Response_Session_RoomInfo, Response_Session_Login,
                        Fail_HttpRequest_Retry, Return
    <3> QED
      BY <3>2, <3>3, <3>4, <3>5, TaskMoves DEF TaskReturns
  <2> QED
    BY <1>2, <2>1 DEF InHand, At
<1>3. ASSUME Offered(c) PROVE Offered(c)' \/ Response_Session_RoomInfo
  <2>1. task[Lan].step = "offer" /\ task[Lan] # Idle /\ session[task[Lan].session].client = c
    BY <1>3 DEF Offered, At, Idle
  <2>2. task'[Lan] = task[Lan] \/ Response_Session_RoomInfo
    BY <1>1, <2>1, TaskMoves DEF Send_Master_Roominfo, Free_Session, Return, TaskStarts, CanStart,
       Begin, Response_Session_Login, Fail_HttpRequest_Retry, TaskReturns
  <2>3. session'[task[Lan].session].client = c
    BY <1>1, <2>1, WaiterNamed DEF OneHandler
  <2> QED
    BY <2>1, <2>2, <2>3 DEF Offered, At
<1> QED
  BY <1>2, <1>3

LEMMA PendingStep ==
    ASSUME SessionInv, AllParts, OneHandler, RequestKept, ~overlap, [Next]_vars,
           NEW c \in Client, phase[c] = "room", phase'[c] = "room"
    PROVE  Pending(c)'
<1>1. conn[c] = "up" /\ Find_Session(c) # {}
  BY DEF SessionInv, WaitOK, ListOK, Listed
<1>2. Pending(c)
  BY PendingIs DEF RequestKept
<1>3. ASSUME link' # "joined" PROVE Pending(c)'
  BY <1>3 DEF Pending
<1>4. RoomPacket(c, TRUE) \in Packet /\ ON \in Packet
  BY PacketsTyped
<1>5. CASE link # "joined"
  <2>1. ASSUME OnEnterJoinServer PROVE Holds(toMaster', {ON})
    <3>1. toMaster' = toMaster \o <<ON>> /\ toMaster \in Seq(Packet) /\ <<ON>> \in Seq(Packet)
      BY <1>4, <2>1 DEF OnEnterJoinServer, Send, SessionInv, TypeOK
    <3>2. Holds(<<ON>>, {ON})
      BY HoldsOneElement
    <3>3. Holds(toMaster \o <<ON>>, {ON})
      BY <3>1, <3>2, HoldsJoin
    <3> QED
      BY <3>1, <3>3
  <2>2. ASSUME Connect \/ ReleaseSession PROVE link' # "joined"
    BY <2>2 DEF Connect, ReleaseSession
  <2>3. Holds(toMaster', {ON}) => Pending(c)'
    BY DEF Pending, ON
  <2> QED
    BY <1>3, <1>5, <2>1, <2>2, <2>3, WhoChanges DEF LinkChangedBy
<1>6. CASE InHand(c)
  <2>1. ASSUME Send_Master_Roominfo(c), link # "down"
        PROVE  Holds(toMaster', {RoomPacket(c, TRUE)})
    <3> DEFINE s == <<RoomPacket(c, TRUE)>>
    <3>1. toMaster' = toMaster \o s /\ toMaster \in Seq(Packet) /\ s \in Seq(Packet)
      <4>1. toMaster' = toMaster \o s
        BY <2>1 DEF Send_Master_Roominfo, Send
      <4>2. toMaster \in Seq(Packet)
        BY DEF SessionInv, TypeOK
      <4>3. s \in Seq(Packet)
        BY PacketsTyped
      <4> HIDE DEF s
      <4> QED
        BY <4>1, <4>2, <4>3
    <3>2. Holds(s, {RoomPacket(c, TRUE)})
      BY HoldsOneElement
    <3> HIDE DEF s
    <3>3. Holds(toMaster \o s, {RoomPacket(c, TRUE)})
      BY <3>1, <3>2, HoldsJoin
    <3> QED
      BY <3>1, <3>3
  <2>2. Holds(toMaster', {RoomPacket(c, TRUE)}) => Pending(c)'
    BY DEF Pending, RoomPacket
  <2>3. InHand(c)' => Pending(c)'
    BY DEF Pending
  <2> QED
    BY <1>1, <1>5, <1>6, <2>1, <2>2, <2>3, HandsKeep
<1>7. CASE Offered(c)
  BY <1>7, <1>1, HandsKeep DEF Offered, Response_Session_RoomInfo, SessionInv, TypeOK, Tell,
     Awaits, Leads, Pending
<1>8. CASE Holds(toMaster, {RoomPacket(c, TRUE)})
  <2>1. ASSUME Head(toMaster) = RoomPacket(c, TRUE), NEW found \in BOOLEAN,
               Request_Match_RoomInfo(found)
        PROVE  Replied(c)'
    <3>1. /\ toMatch' = Append(toMatch, RoomPacket(c, found)) /\ toMatch \in Seq(Packet)
          /\ RoomPacket(c, found) \in Packet /\ RoomPacket(c, found) \in RoomPackets(c)
      <4>1. Head(toMaster).client = c
        BY <2>1, PacketsTyped
      <4>2. toMatch' = Append(toMatch, RoomPacket(c, found))
        BY <2>1, <4>1 DEF Request_Match_RoomInfo
      <4>3. RoomPacket(c, found) \in Packet
        BY PacketsTyped
      <4>4. RoomPacket(c, found) \in RoomPackets(c)
        BY PacketsDiffer
      <4> QED
        BY <4>2, <4>3, <4>4 DEF SessionInv, TypeOK
    <3> QED
      BY <3>1, MatchGains
  <2>2. ASSUME Head(toMaster) = RoomPacket(c, TRUE)
        PROVE  ~Request_Match_Login /\ ~Request_Match_UserEnterFail
    BY <2>2, PacketsTyped DEF Request_Match_Login, Request_Match_UserEnterFail, AtMaster
  <2>3. Holds(toMaster', {RoomPacket(c, TRUE)}) \/ Replied(c)' => Pending(c)'
    BY DEF Pending, RoomPacket
  <2> QED
    BY <1>3, <1>4, <1>8, <2>1, <2>2, <2>3, ToMasterKeeps
<1>9. CASE Holds(toMaster, {ON})
  <2>1. ASSUME Head(toMaster) = ON, Request_Match_Login PROVE Holds(toMatch', {ON})
    <3>1. toMatch' = toMatch \o <<ON>> /\ toMatch \in Seq(Packet) /\ <<ON>> \in Seq(Packet)
      BY <1>4, <2>1, AppendIsJoin DEF Request_Match_Login, SessionInv, TypeOK
    <3>2. Holds(<<ON>>, {ON})
      BY HoldsOneElement
    <3>3. Holds(toMatch \o <<ON>>, {ON})
      BY <3>1, <3>2, HoldsJoin
    <3> QED
      BY <3>1, <3>3
  <2>2. ASSUME Head(toMaster) = ON
        PROVE  /\ ~Request_Match_UserEnterFail
               /\ \A found \in BOOLEAN : ~Request_Match_RoomInfo(found)
    BY <2>2, PacketsTyped DEF Request_Match_RoomInfo, Request_Match_UserEnterFail, AtMaster
  <2>3. Holds(toMaster', {ON}) \/ Holds(toMatch', {ON}) => Pending(c)'
    BY DEF Pending, ON
  <2> QED
    BY <1>3, <1>4, <1>9, <2>1, <2>2, <2>3, ToMasterKeeps
<1>10. CASE Replied(c)
  <2>1. ASSUME toMatch # <<>>, Head(toMatch) \in RoomPackets(c)
        PROVE  /\ Head(toMatch).type = "GAME_ROOM" /\ Head(toMatch).client = c
    BY <2>1, PacketsTyped DEF RoomPackets
  <2>2. ASSUME toMatch # <<>>, Head(toMatch) \in RoomPackets(c)
        PROVE  ~Recieve_MasterRequest_Login
    BY <2>1, <2>2 DEF Recieve_MasterRequest_Login, FromMaster
  <2>3. ASSUME toMatch # <<>>, Head(toMatch) \in RoomPackets(c),
               Recieve_MasterRequest_RoomInfo
        PROVE  Offered(c)'
    BY <1>1, <2>1, <2>3 DEF Recieve_MasterRequest_RoomInfo, serverVars, Find_Session, SessionInv,
       TypeOK, Offered, At, Begin, Thread
  <2>4. Replied(c)' \/ Offered(c)' => Pending(c)'
    BY DEF Pending
  <2>5. Holds(toMatch', RoomPackets(c)) => Replied(c)'
    BY DEF Replied, RoomPackets, RoomPacket
  <2> QED
    BY <1>3, <1>10, <2>2, <2>3, <2>4, <2>5, ToMatchKeeps DEF Replied
<1>11. CASE Holds(toMatch, {ON})
  <2>1. ASSUME toMatch # <<>>, Head(toMatch) \in {ON} PROVE ~Recieve_MasterRequest_RoomInfo
    BY <2>1, PacketsTyped DEF Recieve_MasterRequest_RoomInfo, FromMaster
  <2>2. ASSUME toMatch # <<>>, Recieve_MasterRequest_Login
        PROVE  Holds(toMaster', {RoomPacket(c, TRUE)})
    <3>1. PICK o \in Find_Session(c) : TRUE
      BY <1>1
    <3>2. o \in sessionList /\ session[o].client = c /\ StatusOK(o)
      BY <3>1 DEF Find_Session, AllParts
    <3>3. o \in Waiting
      BY <3>2 DEF StatusOK, Waiting
    <3>4. link # "down"
      BY <2>2 DEF RequestKept
    <3>5. PICK s \in SetToSeqs({RoomPacket(session[p].client, TRUE) : p \in Waiting}) :
            toMaster' = toMaster \o s
      BY <2>2, <3>4 DEF Recieve_MasterRequest_Login, Send
    <3>6. /\ s \in Seq(Packet) /\ toMaster \in Seq(Packet)
          /\ \E i \in DOMAIN s : s[i] = RoomPacket(c, TRUE)
      <4>1. TypeOK /\ \A p \in sessionList : session[p].client \in Client
        BY DEF SessionInv, ListOK
      <4>2. /\ s \in Seq(Packet)
            /\ \A p \in Waiting : \E i \in DOMAIN s : s[i] = RoomPacket(session[p].client, TRUE)
        BY <4>1, SentAgain
      <4> QED
        BY <3>2, <3>3, <4>1, <4>2 DEF TypeOK
    <3>7. Holds(s, {RoomPacket(c, TRUE)})
      BY <3>6 DEF Holds
    <3>8. Holds(toMaster \o s, {RoomPacket(c, TRUE)})
      BY <3>6, <3>7, HoldsJoin
    <3> QED
      BY <3>5, <3>8
  <2>3. Holds(toMaster', {RoomPacket(c, TRUE)}) \/ Holds(toMatch', {ON}) => Pending(c)'
    BY DEF Pending, ON, RoomPacket
  <2> QED
    BY <1>3, <1>11, <2>1, <2>2, <2>3, ToMatchKeeps
<1> QED
  BY <1>2, <1>5, <1>6, <1>7, <1>8, <1>9, <1>10, <1>11 DEF Pending

(* A client starts to wait when its worker has its request in hand.        *)
LEMMA RoomAsked ==
    ASSUME SessionInv, [Next]_vars, NEW c \in Client, phase'[c] = "room", phase[c] # "room"
    PROVE  InHand(c)'
<1> DEFINE Goal == Request_Session_RoomInfo(c) \/ phase'[c] # "room"
<1>0. phase \in [Client -> Phase] /\ task \in [Thread -> TaskRec] /\ c \in Thread
  BY DEF SessionInv, TypeOK, Thread
<1>1. ASSUME NEW d \in Client, OnClientJoin(d) PROVE Goal
  BY <1>0, <1>1 DEF OnClientJoin
<1>2. ASSUME NEW d \in Client, Request_Session_Login(d) PROVE Goal
  BY <1>0, <1>2 DEF Request_Session_Login
<1>3. ASSUME NEW d \in Client, Request_Session_Login_Version(d) PROVE Goal
  BY <1>0, <1>3 DEF Request_Session_Login_Version
<1>4. ASSUME NEW d \in Client, Request_Session_RoomInfo(d) PROVE Goal
  BY <1>0, <1>4 DEF Request_Session_RoomInfo
<1>5. ASSUME NEW d \in Client, Request_Session_RoomEnter(d) PROVE Goal
  BY <1>0, <1>5 DEF Request_Session_RoomEnter
<1>6. ASSUME NEW d, Close(d) \/ UNCHANGED phase PROVE Goal
  BY <1>0, <1>6 DEF Close
<1>7. ASSUME NEW d, NEW ok,
             \/ Tell(d, IF ok THEN "LOGIN_OK" ELSE "LOGIN_ERROR")
             \/ Tell(d, IF ok THEN "ROOM" ELSE "NO_ROOM")
      PROVE  Goal
  BY <1>0, <1>7 DEF Tell, Leads
<1>8. Goal
  <2>1. ASSUME NEW d \in Client, Hangup(d) PROVE Goal
    BY <1>6, <2>1 DEF Hangup
  <2>2. ASSUME Response_Session_RoomInfo \/ Response_Session_Login PROVE Goal
    <3> HIDE DEF Goal
    <3> QED
      BY <1>7, <2>2 DEF Response_Session_RoomInfo, Response_Session_Login
  <2>3. ASSUME Fail_HttpRequest_Retry PROVE Goal
    BY <1>6, <2>3 DEF Fail_HttpRequest_Retry
  <2> HIDE DEF Goal
  <2> QED
    BY <1>1, <1>2, <1>3, <1>4, <1>5, <1>6, <2>1, <2>2, <2>3, WhoChanges DEF PhaseChangedBy
<1>9. Request_Session_RoomInfo(c)
  BY <1>8
<1> QED
  BY <1>0, <1>9 DEF Request_Session_RoomInfo, Begin, InHand, At

LEMMA RequestKeptStep ==
    ASSUME SessionInv, AllParts, OneHandler, RequestKept, ~overlap, [Next]_vars
    PROVE  RequestKept'
<1>1. ASSUME NEW c \in Client, phase'[c] = "room"
      PROVE  RequestUnderWay(c)' \/ LoginToCome'
  <2>1. Pending(c)'
    BY <1>1, PendingStep, RoomAsked DEF Pending
  <2>2. (Pending(c) <=> RequestUnderWay(c) \/ LoginToCome)'
    BY PendingIs, PTL
  <2> QED
    BY <2>1, <2>2
<1> QED
  BY <1>1, DownStep DEF RequestKept

LEMMA InitRoom == Init => RoomInv
<1> SUFFICES ASSUME Init PROVE RoomParts
  BY DEF RoomInv
<1>1. /\ sessionList = {} /\ toMaster = <<>> /\ toMatch = <<>> /\ placed = {} /\ resent = {}
      /\ \A t \in Thread : task[t] = Idle
      /\ \A c \in Client : http[c] = 0 /\ taken[c] = 0 /\ conn[c] = "out" /\ phase[c] = "out"
  BY DEF Init
<1>2. ASSUME NEW c \in Client
      PROVE  /\ ~InHand(c) /\ ~Offered(c) /\ ~HttpHolds(c)
             /\ ~Asked(c) /\ ~Replied(c) /\ ~Failing(c)
             /\ \A ok \in BOOLEAN : ~Returned(c, ok)
             /\ HoldsOne(toMaster, RoomPackets(c)) /\ HoldsOne(toMatch, RoomPackets(c))
  BY <1>1, QuietHands DEF Quiet, Asked, Replied, Failing, Returned, Holds, HoldsOne
<1>3. OneHandler
  BY <1>1 DEF OneHandler, Thread
<1>4. ASSUME NEW c \in Client PROVE OneLogin(c) /\ OneRequest(c) /\ OnePlace(c) /\ GivenBack(c)
  <2>1. OneLogin(c)
    BY <1>1, <1>2 DEF OneLogin, LoginOut
  <2>2. OneRequest(c)
    BY <1>1, <1>2 DEF OneRequest, RoomOut
  <2>3. OnePlace(c)
    <3>1. ~Answer(c, TRUE) /\ ~Answer(c, FALSE)
      BY <1>2 DEF Answer
    <3>2. taken[c] = 0 /\ phase[c] = "out"
      BY <1>1
    <3>3. taken[c] <= 1 /\ taken[c] # 1
      BY <3>2
    <3> QED
      BY <1>2, <3>1, <3>2, <3>3 DEF OnePlace
  <2>4. GivenBack(c)
    BY <1>1, <1>2 DEF GivenBack, NeverAsked, RoomOut
  <2> QED
    BY <2>1, <2>2, <2>3, <2>4
<1>5. RequestKept
  BY <1>1 DEF RequestKept
<1> QED
  BY <1>1, <1>3, <1>4, <1>5 DEF RoomParts

LEMMA RoomStep == SessionInv /\ RoomInv /\ [Next]_vars => RoomInv'
  BY WhoChanges, PartsStep, OneHandlerStep, RequestKeptStep DEF RoomInv, OverlapChangedBy,
     RoomParts, AllParts, ClientParts

LEMMA RoomAlways == Spec => [](SessionInv /\ RoomInv)
  BY InitSession, InitRoom, SessionStep, RoomStep, PTL DEF Spec

-----------------------------------------------------------------------------
(* When handlers do not overlap, the match server never tells the master   *)
(* that a client which entered its room failed to enter, and a client that *)
(* left without entering holds no place: OnClientLeave reads curStatus     *)
(* right, whatever was answered or sent again before.                      *)
LEMMA PlacesFollow == SessionInv /\ RoomInv => PlacesKept
<1> SUFFICES ASSUME SessionInv, RoomInv, ~overlap PROVE PlacesKept
  BY DEF PlacesKept, EnteredKeepsPlace, LeaverGivesPlaceBack
<1>1. ASSUME NEW c \in Client, c \notin resent PROVE OnePlace(c)
  BY <1>1 DEF RoomInv, RoomParts
<1>2. \A c \in Client : GivenBack(c)
  BY DEF RoomInv, RoomParts
<1>3. EnteredKeepsPlace
  BY <1>1 DEF EnteredKeepsPlace, OnePlace
<1>4. ASSUME drops = 0, NEW c \in Client, conn[c] = "gone", phase[c] # "inside", ~InTransit(c)
      PROVE  c \notin placed /\ (taken[c] = 0 \/ c \in resent)
  <2>1. ~Closing(c)
    <3>1. FailPacket(c).client = c
      BY PacketsTyped
    <3> QED
      BY <1>4, <3>1 DEF InTransit, Closing, Closes
  <2>2. c \notin placed
    BY <1>2, <1>4, <2>1 DEF GivenBack
  <2>3. taken[c] \in Nat
    BY DEF SessionInv, TypeOK
  <2>4. c \notin resent => taken[c] <= 1 /\ (taken[c] = 1 => c \in placed)
    BY <1>1 DEF OnePlace
  <2> QED
    BY <2>2, <2>3, <2>4
<1> QED
  BY <1>3, <1>4 DEF PlacesKept, LeaverGivesPlaceBack

LEMMA RequestFollows == SessionInv /\ RoomInv => RoomRequestNotLost
  BY DEF RoomRequestNotLost, RoomInv, RoomParts, RequestKept, StatusOK, Find_Session

LEMMA RepliesFollow == SessionInv /\ RoomInv => NoUnaskedReply
<1> SUFFICES ASSUME SessionInv, RoomInv, ~overlap
             PROVE  /\ At(Lan, "offer") => Expected(Lan, "room")
                    /\ At(Http, "login") \/ At(Http, "fail") => Expected(Http, "login")
  BY DEF NoUnaskedReply
<1>1. RoomParts
  BY DEF RoomInv
<1>2. \A t \in Thread : task[t] # Idle => session[task[t].session].client \in Client
  BY <1>1 DEF RoomParts, OneHandler, SessionInv, ListOK
<1>3. Lan \in Thread /\ Http \in Thread /\ Idle.step = "idle"
  BY DEF Thread, Idle
<1>4. ASSUME At(Lan, "offer") PROVE Expected(Lan, "room")
  <2> DEFINE c == session[task[Lan].session].client
  <2>1. c \in Client /\ Offered(c)
    BY <1>2, <1>3, <1>4 DEF At, Offered
  <2>2. c \notin resent => OneRequest(c)
    BY <1>1, <2>1 DEF RoomParts
  <2> HIDE DEF c
  <2>3. conn[c] = "up" /\ c \notin resent => phase[c] = "room"
    BY <2>1, <2>2 DEF OneRequest, RoomOut
  <2> QED
    BY <2>3 DEF Expected, c
<1>5. ASSUME At(Http, "login") \/ At(Http, "fail") PROVE Expected(Http, "login")
  <2> DEFINE c == session[task[Http].session].client
  <2>1. c \in Client /\ HttpHolds(c)
    BY <1>2, <1>3, <1>5 DEF At, HttpHolds
  <2>2. OneLogin(c)
    BY <1>1, <2>1 DEF RoomParts
  <2> HIDE DEF c
  <2>3. conn[c] = "up" => phase[c] = "login"
    BY <2>1, <2>2 DEF OneLogin, LoginOut
  <2> QED
    BY <2>3 DEF Expected, c
<1> QED
  BY <1>4, <1>5

(* A client that entered a room keeps its place with the master, and one   *)
(* that left without entering has given it back once its packets have      *)
(* arrived, for any number of clients, requests sent again and lost links. *)
(* (OnClientLeave, Request_Match_UserEnterFail)                            *)
THEOREM MatchPlacesKept == Spec => []PlacesKept
  BY RoomAlways, PlacesFollow, PTL

(* The request of a client that waits for a room is never lost, though the *)
(* link to the master may break at any moment: what does not reach the     *)
(* master or is not answered is sent again after the next login.           *)
(* (Recieve_MasterRequest_Login)                                           *)
THEOREM MatchRoomRequestNotLost == Spec => []RoomRequestNotLost
  BY RoomAlways, RequestFollows, PTL

(* A login is under way until it is answered, and no client is told what it*)
(* does not wait for, unless its room request was sent again.              *)
(* (Receive_HttpRequest_SessionKey, Response_Session_RoomInfo)             *)
THEOREM MatchLoginsAnswered == Spec => []LoginsAnswered
<1>1. SessionInv /\ RoomInv => LoginsAnswered
  BY RepliesFollow DEF LoginsAnswered, SessionInv
<1> QED
  BY <1>1, RoomAlways, PTL
=============================================================================
