----------------------------- MODULE LanClient ------------------------------
(***************************************************************************)
(* CLanClient (src/Source/Library/CLanClient.cpp): the connection a server *)
(* keeps to another one.  A monitor thread connects it again whenever it   *)
(* is off; workers take completions from the port; SendPacket may be       *)
(* called by any thread at any time; who takes the last reference releases *)
(* the session.  There is one session, used for one link after the other,  *)
(* and no lock.                                                            *)
(*                                                                         *)
(* A thread is what it has left to do, the next step first.  The server    *)
(* at the other end sends the packets Payload gives the sizes of; TCP      *)
(* delivers their bytes cut anywhere.                                      *)
(***************************************************************************)
EXTENDS Integers, Sequences, FiniteSets, SequencesExt

CONSTANTS
    Worker, Caller,  \* threads of the port; threads that call SendPacket
    BufferSize,      \* of the receive ring
    HeaderSize,      \* en_HEADERSIZE_DEFAULT
    MaxPayload,      \* en_BUFSIZE_DEFALUT - en_HEADERSIZE_DEFAULT
    Payload,         \* the packets of a link, each by its number of bytes
    MaxLink, MaxCall \* bounds on the links and on the calls of SendPacket

monitor == "monitor"

ASSUME LanClientAssumption ==
    /\ HeaderSize \in Nat \ {0} /\ MaxPayload \in Nat /\ Payload \in Seq(Nat)
    /\ BufferSize \in Nat /\ HeaderSize + MaxPayload < BufferSize
    /\ MaxLink \in Nat /\ MaxCall \in Nat
    /\ Worker \cap Caller = {} /\ monitor \notin Worker \cup Caller

Thread  == Worker \cup Caller \cup {monitor}

(* What a server sends: each packet's header, then its payload.            *)
Bytes(link, no) == [k \in 1 .. HeaderSize + Payload[no] |-> [link |-> link, no |-> no, k |-> k]]
Stream(link) == FlattenSeq([no \in DOMAIN Payload |-> Bytes(link, no)])
NoByte == [link |-> 0, no |-> 0, k |-> 0]
Byte   == {NoByte} \cup UNION {ToSet(Stream(link)) : link \in 1 .. MaxLink}

VARIABLES
    clientOn,      \* _bClientOn
    disconnectNow, \* bDisconnectNow
    ioCount, bSend, sendq,
    packetBuffer, sendPacketSize,
    recvq,
    link,          \* the link's number
    conn,          \* of sock: "none", "new", "up", "cut" (by the peer or the network), "closed"
    bound,         \* is sock associated with the port
    posted,        \* receives and sends under way
    thread,        \* what each thread has left to do
    mine,          \* wsabuf of send_post
    arrived,       \* how many bytes of the link's stream have been received
    received,      \* the packets of this link given to OnRecv
    wire,          \* the packets sent on this link
    queued,        \* how many packets were put into sendq
    freed, twice,  \* which of them were freed; was one freed again
    calls, crash,
    (* History.  late: a SendPacket that holds no reference was overtaken  *)
    (* by who dropped the last one, or by Connect.  leftover: bytes of a   *)
    (* link were in recvq when the next began.                             *)
    late, leftover

recvVars == <<recvq, arrived, received>>
freeVars == <<packetBuffer, sendPacketSize, freed, twice>>
sendVars == <<bSend, sendq, freeVars, mine, wire, queued>>
sockVars == <<link, conn, bound>>
vars == <<clientOn, disconnectNow, ioCount, recvVars, sendVars, sockVars, posted, thread,
          calls, crash, late, leftover>>

Packet == [no : Nat, link : 1 .. MaxLink]

INSTANCE RingBuffer

Init ==
    /\ clientOn = FALSE /\ disconnectNow = FALSE
    /\ ioCount = 0 /\ bSend = FALSE /\ sendq = <<>>
    /\ packetBuffer = <<>> /\ sendPacketSize = 0 /\ freed = {} /\ twice = FALSE
    /\ recvq = Empty(NoByte)
    /\ link = 0 /\ conn = "none" /\ bound = FALSE
    /\ posted = [recv |-> 0, send |-> 0]
    /\ thread = [t \in Thread |-> <<>>] /\ mine = [t \in Thread |-> <<>>]
    /\ arrived = 0 /\ received = <<>> /\ wire = <<>> /\ queued = 0
    /\ calls = 0 /\ crash = FALSE /\ late = FALSE /\ leftover = FALSE

Free(packets) ==
    /\ freed' = freed \cup packets
    /\ twice' = (twice \/ packets \cap freed /= {})

(* FreeSentPacket.                                                         *)
FreeSentPacket ==
    IF bSend /\ sendPacketSize > 0
    THEN Free(ToSet(SubSeq(packetBuffer, 1, sendPacketSize))) /\ sendPacketSize' = 0
    ELSE UNCHANGED <<freed, twice, sendPacketSize>>

At(t, step) == crash = FALSE /\ thread[t] /= <<>> /\ Head(thread[t]) = step
Then(t, steps) == thread' = [thread EXCEPT ![t] = steps \o Tail(@)]
Done(t) == Then(t, <<>>)

-----------------------------------------------------------------------------
(* References.  The last one releases the session; one too few crashes.    *)

NoneLeft_Early == ioCount - 1 <= 1
NoneLeft_Below == ioCount - 1 < 0
NoneLeft == ioCount - 1 <= 0

Unref(t, steps) ==
    /\ ioCount' = ioCount - 1
    /\ crash' = (ioCount - 1 < 0)
    /\ Then(t, steps \o IF NoneLeft THEN <<"release">> ELSE <<>>)

(* ReleaseSession: OnLeaveServer, InitializeSession, _bClientOn.           *)
ReleaseSession(t) ==
    /\ At(t, "release")
    /\ disconnectNow' = TRUE
    /\ IF disconnectNow
       THEN Done(t) /\ UNCHANGED conn
       ELSE conn' = "closed" /\ Then(t, <<"free", "reset", "off">>)
    /\ UNCHANGED <<clientOn, ioCount, recvVars, sendVars, link, bound, posted, calls, crash,
                   late, leftover>>

FreeSendQueuePacket(t) ==
    /\ At(t, "free")
    /\ Free(ToSet(sendq)) /\ sendq' = <<>>
    /\ Done(t)
    /\ UNCHANGED <<clientOn, disconnectNow, ioCount, recvVars, bSend, packetBuffer, sendPacketSize,
                   mine, wire, queued, sockVars, posted, calls, crash, late, leftover>>

InitializeSession(t) ==
    /\ At(t, "reset")
    /\ FreeSentPacket
    /\ bSend' = FALSE /\ ioCount' = 0
    /\ Done(t)
    /\ UNCHANGED <<clientOn, disconnectNow, recvVars, sendq, packetBuffer, mine, wire, queued,
                   sockVars, posted, calls, crash, late, leftover>>

SwitchOff(t) ==
    /\ At(t, "off")
    /\ clientOn' = FALSE
    /\ Done(t)
    /\ UNCHANGED <<disconnectNow, ioCount, recvVars, sendVars, sockVars, posted, calls, crash,
                   late, leftover>>

-----------------------------------------------------------------------------
(* Connect, called by the monitor thread while the client is off.          *)

Inside(c) == thread[c] /= <<>> /\ ~At(c, "SendPacket")

Connect ==
    /\ thread[monitor] = <<>> /\ crash = FALSE
    /\ ~clientOn /\ link < MaxLink
    /\ clientOn' = TRUE
    /\ link' = link + 1 /\ conn' = "new" /\ bound' = FALSE
    /\ thread' = [thread EXCEPT ![monitor] = <<"free", "reset", "connect">>]
    /\ late' = (late \/ \E c \in Caller : Inside(c))
    /\ leftover' = (leftover \/ GetUsedSize(recvq) > 0)
    /\ arrived' = 0 /\ received' = <<>> /\ wire' = <<>>
    /\ UNCHANGED <<disconnectNow, ioCount, recvq, bSend, sendq, freeVars, mine, queued,
                   posted, calls, crash>>

Connect_Connected ==
    /\ At(monitor, "connect")
    /\ conn' = "up"
    /\ Then(monitor, <<"connected", "bind", "recv_post", "SendPacket">>)
    /\ UNCHANGED <<clientOn, disconnectNow, ioCount, recvVars, sendVars, link, bound, posted,
                   calls, crash, late, leftover>>

Connect_Failed ==
    /\ At(monitor, "connect")
    /\ conn' = "closed" /\ clientOn' = FALSE
    /\ Done(monitor)
    /\ UNCHANGED <<disconnectNow, ioCount, recvVars, sendVars, link, bound, posted, calls, crash,
                   late, leftover>>

Connect_Enable ==
    /\ At(monitor, "connected")
    /\ disconnectNow' = FALSE
    /\ Done(monitor)
    /\ UNCHANGED <<clientOn, ioCount, recvVars, sendVars, sockVars, posted, calls, crash, late,
                   leftover>>

Connect_Bind ==
    /\ At(monitor, "bind")
    /\ bound' = TRUE
    /\ Done(monitor)
    /\ UNCHANGED <<clientOn, disconnectNow, ioCount, recvVars, sendVars, link, conn, posted, calls,
                   crash, late, leftover>>

-----------------------------------------------------------------------------
(* SendPacket and send_post.                                               *)

(* A caller knows of the link, or of one before.                           *)
Call(c) ==
    /\ crash = FALSE /\ thread[c] = <<>>
    /\ calls < MaxCall /\ calls' = calls + 1
    /\ link > 1 \/ received /= <<>>
    /\ thread' = [thread EXCEPT ![c] = <<"SendPacket">>]
    /\ UNCHANGED <<clientOn, disconnectNow, ioCount, recvVars, sendVars, sockVars, posted, crash,
                   late, leftover>>

SendPacket(t) ==
    /\ At(t, "SendPacket")
    /\ IF clientOn /\ ~disconnectNow
       THEN /\ Then(t, <<"enqueue", "send_post">>)
            /\ late' = (late \/ (t /= monitor /\ thread[monitor] /= <<>>))
       ELSE Done(t) /\ UNCHANGED late
    /\ UNCHANGED <<clientOn, disconnectNow, ioCount, recvVars, sendVars, sockVars, posted, calls,
                   crash, leftover>>

Enqueue(t) ==
    /\ At(t, "enqueue")
    /\ queued' = queued + 1
    /\ sendq' = Append(sendq, [no |-> queued + 1, link |-> link])
    /\ Done(t)
    /\ UNCHANGED <<clientOn, disconnectNow, ioCount, recvVars, bSend, freeVars, mine, wire,
                   sockVars, posted, calls, crash, late, leftover>>

Sending_Free == FALSE
Sending == bSend

Send_Post_Claim(t) ==
    /\ At(t, "send_post")
    /\ IF sendq = <<>> \/ Sending
       THEN Done(t) /\ UNCHANGED bSend
       ELSE Then(t, <<"claimed">>) /\ bSend' = TRUE
    /\ UNCHANGED <<clientOn, disconnectNow, ioCount, recvVars, sendq, freeVars, mine, wire,
                   queued, sockVars, posted, calls, crash, late, leftover>>

Send_Post_Take(t) ==
    /\ At(t, "claimed")
    /\ IF sendq = <<>> \/ disconnectNow
       THEN Then(t, <<"giveup">>) /\ UNCHANGED <<sendq, packetBuffer, mine>>
       ELSE /\ packetBuffer' = sendq \o SubSeq(packetBuffer, Len(sendq) + 1, Len(packetBuffer))
            /\ mine' = [mine EXCEPT ![t] = sendq]
            /\ sendq' = <<>>
            /\ Then(t, <<"post">>)
    /\ UNCHANGED <<clientOn, disconnectNow, ioCount, recvVars, bSend, sendPacketSize, freed, twice,
                   wire, queued, sockVars, posted, calls, crash, late, leftover>>

(* The queue was empty: what is put in before bSend is given up stays.     *)
Send_Post_GiveUp(t) ==
    /\ At(t, "giveup")
    /\ bSend' = FALSE
    /\ Done(t)
    /\ UNCHANGED <<clientOn, disconnectNow, ioCount, recvVars, sendq, freeVars, mine, wire,
                   queued, sockVars, posted, calls, crash, late, leftover>>

Send_Post_Ref(t) ==
    /\ At(t, "post")
    /\ ioCount' = ioCount + 1
    /\ sendPacketSize' = Len(mine[t])
    /\ late' = (late \/ ioCount = 0)
    /\ Then(t, <<"WSASend">>)
    /\ UNCHANGED <<clientOn, disconnectNow, recvVars, bSend, sendq, packetBuffer, freed, twice, mine,
                   wire, queued, sockVars, posted, calls, crash, leftover>>

(* A send on a socket that is not yet associated completes nowhere.        *)
Send_Post(t) ==
    /\ At(t, "WSASend")
    /\ \/ /\ conn \in {"up", "cut"}
          /\ wire' = wire \o mine[t]
          /\ posted' = IF bound THEN [posted EXCEPT !.send = @ + 1] ELSE posted
          /\ Done(t)
       \/ /\ conn /= "up"
          /\ Then(t, <<"unsend">>)
          /\ UNCHANGED <<wire, posted>>
    /\ mine' = [mine EXCEPT ![t] = <<>>]
    /\ UNCHANGED <<clientOn, disconnectNow, ioCount, recvVars, bSend, sendq, freeVars, queued,
                   sockVars, calls, crash, late, leftover>>

Send_Post_Fail(t) ==
    /\ At(t, "unsend")
    /\ Unref(t, <<"sent">>)
    /\ UNCHANGED <<clientOn, disconnectNow, recvVars, sendVars, sockVars, posted, calls, late,
                   leftover>>

Send_Complete(t) ==
    /\ At(t, "sent")
    /\ FreeSentPacket
    /\ bSend' = FALSE
    /\ Done(t)
    /\ UNCHANGED <<clientOn, disconnectNow, ioCount, recvVars, sendq, packetBuffer, mine, wire,
                   queued, sockVars, posted, calls, crash, late, leftover>>

-----------------------------------------------------------------------------
(* Receiving.                                                              *)

Recv_Post(t) ==
    /\ At(t, "recv_post")
    /\ ioCount' = ioCount + 1
    /\ Then(t, <<"WSARecv">>)
    /\ UNCHANGED <<clientOn, disconnectNow, recvVars, sendVars, sockVars, posted, calls, crash,
                   late, leftover>>

WSARecv(t) ==
    /\ At(t, "WSARecv")
    /\ \/ /\ conn \in {"up", "cut"}
          /\ posted' = [posted EXCEPT !.recv = @ + 1]
          /\ Done(t)
       \/ /\ conn /= "up"
          /\ Then(t, <<"unrecv">>)
          /\ UNCHANGED posted
    /\ UNCHANGED <<clientOn, disconnectNow, ioCount, recvVars, sendVars, sockVars, calls, crash,
                   late, leftover>>

Recv_Post_Fail(t) ==
    /\ At(t, "unrecv")
    /\ Unref(t, <<>>)
    /\ UNCHANGED <<clientOn, disconnectNow, recvVars, sendVars, sockVars, posted, calls, late,
                   leftover>>

(* What the header at the front of the ring says: anything, if the ring    *)
(* does not begin with a packet.                                           *)
PayloadAtFront ==
    LET header == Peek(recvq, HeaderSize)
        front  == Head(header)
    IN  IF front.no \in DOMAIN Payload /\ header = SubSeq(Bytes(front.link, front.no), 1, HeaderSize)
        THEN {Payload[front.no]} ELSE 0 .. MaxPayload + 1

(* Whether the ring holds a whole packet, header and payload.              *)
Whole(n) == GetUsedSize(recvq) >= n + HeaderSize

(* One turn of recv_complete's loop.  A payload that is too long ends the  *)
(* receiving: nothing is posted again.                                     *)
Recv_Complete(t) ==
    /\ At(t, "packet")
    /\ IF Len(Peek(recvq, HeaderSize)) < HeaderSize
       THEN Then(t, <<"recv_post">>) /\ UNCHANGED <<recvq, received>>
       ELSE \E n \in PayloadAtFront :
               \/ /\ n > MaxPayload
                  /\ Done(t) /\ UNCHANGED <<recvq, received>>
               \/ /\ n <= MaxPayload /\ ~Whole(n)
                  /\ Then(t, <<"recv_post">>) /\ UNCHANGED <<recvq, received>>
               \/ /\ n <= MaxPayload /\ Whole(n)
                  /\ LET ring == MoveFrontforDelete(recvq, HeaderSize) IN
                     /\ received' = Append(received, Peek(ring, n))
                     /\ recvq' = Dequeue(ring, n)
                  /\ UNCHANGED thread
    /\ UNCHANGED <<clientOn, disconnectNow, ioCount, arrived, sendVars, sockVars, posted, calls,
                   crash, late, leftover>>

-----------------------------------------------------------------------------
(* Worker threads.                                                         *)

Complete(w, kind) ==
    /\ crash = FALSE /\ thread[w] = <<>>
    /\ posted[kind] > 0
    /\ posted' = [posted EXCEPT ![kind] = @ - 1]

Complete_Recv(w) ==
    /\ Complete(w, "recv") /\ conn \in {"up", "cut"}
    /\ \E n \in 1 .. GetEmptySize(recvq) :
          /\ arrived + n <= Len(Stream(link))
          /\ recvq' = MoveRearforSave(Write(recvq, SubSeq(Stream(link), arrived + 1, arrived + n)), n)
          /\ arrived' = arrived + n
    /\ thread' = [thread EXCEPT ![w] = <<"packet", "dec">>]
    /\ UNCHANGED <<clientOn, disconnectNow, ioCount, received, sendVars, sockVars, calls, crash,
                   late, leftover>>

Complete_Send(w) ==
    /\ Complete(w, "send") /\ conn \in {"up", "cut"}
    /\ thread' = [thread EXCEPT ![w] = <<"sent", "send_post", "dec">>]
    /\ UNCHANGED <<clientOn, disconnectNow, ioCount, recvVars, sendVars, sockVars, calls, crash,
                   late, leftover>>

Complete_None(w) ==
    /\ \E kind \in {"recv", "send"} : Complete(w, kind)
    /\ conn \in {"cut", "closed"}
    /\ thread' = [thread EXCEPT ![w] = <<"dec">>]
    /\ UNCHANGED <<clientOn, disconnectNow, ioCount, recvVars, sendVars, sockVars, calls, crash,
                   late, leftover>>

Update_WorkerThread_Dec(w) ==
    /\ At(w, "dec")
    /\ Unref(w, <<>>)
    /\ UNCHANGED <<clientOn, disconnectNow, recvVars, sendVars, sockVars, posted, calls, late,
                   leftover>>

Cut ==
    /\ conn = "up"
    /\ conn' = "cut"
    /\ UNCHANGED <<clientOn, disconnectNow, ioCount, recvVars, sendVars, link, bound, posted, thread,
                   calls, crash, late, leftover>>

Step(t) ==
    \/ ReleaseSession(t) \/ FreeSendQueuePacket(t) \/ InitializeSession(t) \/ SwitchOff(t)
    \/ SendPacket(t) \/ Enqueue(t)
    \/ Send_Post_Claim(t) \/ Send_Post_Take(t) \/ Send_Post_GiveUp(t) \/ Send_Post_Ref(t)
    \/ Send_Post(t) \/ Send_Post_Fail(t) \/ Send_Complete(t)
    \/ Recv_Post(t) \/ WSARecv(t) \/ Recv_Post_Fail(t) \/ Recv_Complete(t)
    \/ Update_WorkerThread_Dec(t)

Connecting == Connect \/ Connect_Connected \/ Connect_Failed \/ Connect_Enable \/ Connect_Bind
Completing(w) == Complete_Recv(w) \/ Complete_Send(w) \/ Complete_None(w)

Next ==
    \/ \E t \in Thread : Step(t)
    \/ Connecting
    \/ \E w \in Worker : Completing(w)
    \/ \E c \in Caller : Call(c)
    \/ Cut

Spec == Init /\ [][Next]_vars

(* Threads go on, completions are taken.  Links need not be cut, nor       *)
(* packets be sent.                                                        *)
Fairness ==
    /\ \A t \in Thread : WF_vars(Step(t))
    /\ WF_vars(Connecting)
    /\ WF_vars(\E w \in Worker : Complete_Send(w) \/ Complete_None(w))
    /\ WF_vars(\E w \in Worker : Complete_Recv(w) \/ Complete_None(w))

-----------------------------------------------------------------------------
(* Properties.                                                             *)

TypeOK ==
    /\ clientOn \in BOOLEAN /\ disconnectNow \in BOOLEAN /\ bSend \in BOOLEAN
    /\ ioCount \in Int /\ sendPacketSize \in Nat
    /\ sendq \in Seq(Packet) /\ packetBuffer \in Seq(Packet)
    /\ freed \subseteq Packet /\ twice \in BOOLEAN
    /\ recvq \in Ring
    /\ link \in 0 .. MaxLink /\ conn \in {"none", "new", "up", "cut", "closed"} /\ bound \in BOOLEAN
    /\ posted \in [{"recv", "send"} -> Nat]
    /\ \A t \in Thread : mine[t] \in Seq(Packet)
    /\ crash \in BOOLEAN /\ late \in BOOLEAN /\ leftover \in BOOLEAN

(* How many packets have been received in full.                            *)
Complete_Packets ==
    Cardinality({no \in DOMAIN Payload :
        Last(Bytes(link, no)) \in ToSet(SubSeq(Stream(link), 1, arrived))})

(* However TCP cuts the stream and wherever the ring wraps, OnRecv gets    *)
(* the packets of the link, each once, whole and in order, and when the    *)
(* next receive is posted no whole packet is left waiting in the ring --   *)
(* as long as no link was cut within a packet and no SendPacket overtaken. *)
(* (recv_complete, cRingBuffer)                                            *)
ReceivedIsStream ==
    /\ TypeOK
    /\ ~late /\ ~leftover =>
          /\ \A no \in DOMAIN received :
                received[no] = SubSeq(Bytes(link, no), HeaderSize + 1, HeaderSize + Payload[no])
          /\ posted.recv > 0 => Len(received) = Complete_Packets

(* Threads that hold a reference for what they post, and workers that hold *)
(* the one of the completion they have taken.                              *)
Posting    == {t \in Thread : thread[t] /= <<>>
                                 /\ Head(thread[t]) \in {"WSASend", "WSARecv", "unsend", "unrecv"}}
Completers == {t \in Thread : "dec" \in ToSet(thread[t])}
Refs == Cardinality(Posting) + Cardinality(Completers)

(* The count of references is what is under way and what threads hold, so  *)
(* that the last one releases the session and Crash() is not reached --    *)
(* unless a SendPacket that has found the session in order, but holds no   *)
(* reference yet, is overtaken by who drops the last one, or by Connect.   *)
IoCountExact ==
    ~late =>
        /\ ~crash
        /\ ~disconnectNow => ioCount = posted.recv + posted.send + Refs

(* One sender at a time: the packets of a link are sent on it, in the      *)
(* order they were queued, none twice and none of an earlier link; and     *)
(* each is freed once, however link losses and sends come together.        *)
(* (bSend, FreeSentPacket, FreeSendQueuePacket)                            *)
PacketsSentOnce ==
    ~late =>
        /\ \A i \in DOMAIN wire : wire[i].link = link
        /\ \A i, j \in DOMAIN wire : i < j => wire[i].no < wire[j].no
        /\ ~twice
        /\ (\A t \in Thread : thread[t] = <<>>) /\ sendq = <<>> /\ posted.send = 0
           /\ (conn = "up" \/ ~clientOn)
              => Cardinality(freed) = queued

(* A link that is lost is given up, so that the monitor thread connects    *)
(* again.  (ReleaseSession, _bClientOn)                                    *)
LostLinkGivenUp == conn = "cut" /\ link < MaxLink ~> ~clientOn \/ late \/ crash

=============================================================================
