----------------------------- MODULE IocpServer -----------------------------
(***************************************************************************)
(* The two servers on completion ports, CNetServer for game clients and    *)
(* CLanServer between the servers (src/Source/Library/CNetServer.cpp,      *)
(* CLanServer.cpp).  Both keep an array of slots (st_CLIENT_INFO) that     *)
(* serve one client after another without a lock: ioCount counts what      *)
(* refers to a slot, and whoever counts it down to zero releases it.       *)
(* Worker threads handle completions; any thread may send to a client or   *)
(* disconnect it by its clientID.  A released slot accepts again at once   *)
(* in CLanServer; in CNetServer it goes to an accept thread.               *)
(*                                                                         *)
(* kind says which of the two this is.  The model has one slot: slots      *)
(* share only the counters and the accept pool.  One action is one access  *)
(* to a field of the slot that another thread may come before or after.    *)
(***************************************************************************)
EXTENDS Integers, Sequences, FiniteSets

CONSTANTS
    Kind,       \* the servers to look at, of {"Net", "Lan"}
    Worker,     \* worker threads
    Caller,     \* the threads that call sendPacket and disconnect
    AcceptPool, \* _maxAcceptPool
    MaxClient,  \* bound on the clients that connect
    MaxCall,    \* bound on the calls
    MaxFault    \* bound on failures of the system's own

ASSUME IocpServerAssumption ==
    /\ Kind \subseteq {"Net", "Lan"}
    /\ IsFiniteSet(Worker) /\ IsFiniteSet(Caller) /\ Worker \cap Caller = {}
    /\ AcceptPool \in Nat \ {0}
    /\ MaxClient \in Nat /\ MaxCall \in Nat /\ MaxFault \in Nat

VARIABLES
    kind,       \* "Net" or "Lan"
    serverOn,   \* _bServerOn
    client,     \* the st_CLIENT_INFO
    sock,       \* its socket; "shut": closed by the client or shut down
    posted,     \* operations posted on it; dead: on a socket closed since
    curID,      \* _curID: the connections so far
    curUser,    \* _curUser
    indexQueue, \* how often the slot is in _indexQueue
    curPosted,  \* _curPostedAcceptEx
    acceptor,   \* the accept thread
    thread,     \* what each worker and each caller is doing
    calls, faults,  \* how many there were
    (* History: how many packets were given to sendPacket, and which were  *)
    (* sent on this connection; the clients reported as gone; whether this *)
    (* connection had a reason to end; how far each counter is off for     *)
    (* good; which races were run into.                                    *)
    packets, wire, left, ended, off, window

slotVars   == <<client, sock, posted>>
serverVars == <<curUser, indexQueue, curPosted, acceptor>>
history    == <<packets, wire, left, ended, off, window>>
vars == <<kind, serverOn, curID, slotVars, serverVars, thread, calls, faults, history>>

Thread == Worker \cup Caller
ID == 1 .. MaxClient
Packet == [to : ID, n : 1 .. MaxCall]

(* The steps of a thread that holds a reference to the slot, and of one    *)
(* that has given back the last and releases the slot.                     *)
Locked    == {"locked", "look", "claim", "test", "take", "giveup"}
Holding   == Locked \cup {"accepted", "sent", "check", "same", "unref"}
Releasing == {"free", "flag", "leave", "again"}

(* gen is the connection a releasing thread has seen.                      *)
Idle == [pc |-> "idle", id |-> 0, call |-> "none", gen |-> 0]

NewClient == [clientID |-> 0, ioCount |-> 0, bSend |-> FALSE,
              bReadyToDisconnect |-> FALSE, bDisconnectNow |-> FALSE,
              sendq |-> <<>>, packetBuffer |-> <<>>]
NonePosted == [accp |-> 0, recv |-> 0, send |-> 0, deadRecv |-> 0, deadSend |-> 0]

(* CNetServer puts every slot into the index queue.                        *)
NetStart ==
    /\ kind = "Net" /\ serverOn = TRUE
    /\ client = NewClient /\ sock = "none" /\ posted = NonePosted
    /\ indexQueue = 1

(* CLanServer posts every accept; _bServerOn follows when all are posted.  *)
LanStart ==
    /\ kind = "Lan" /\ serverOn = FALSE
    /\ client = [NewClient EXCEPT !.ioCount = 1]
    /\ sock = "listen" /\ posted = [NonePosted EXCEPT !.accp = 1]
    /\ indexQueue = 0

Init ==
    /\ kind \in Kind
    /\ NetStart \/ LanStart
    /\ curID = 0 /\ curUser = 0 /\ curPosted = 0
    /\ acceptor = "check"
    /\ thread = [t \in Thread |-> Idle]
    /\ calls = 0 /\ faults = 0
    /\ packets = 0 /\ wire = <<>> /\ left = {} /\ ended = FALSE
    /\ off = [ref |-> 0, user |-> 0, posted |-> 0]
    /\ window = {}

Net == kind = "Net"
Lan == kind = "Lan"
At(t, pc) == thread[t].pc = pc
Goto(t, pc) == thread' = [thread EXCEPT ![t].pc = pc]
Finish(t) == thread' = [thread EXCEPT ![t] = Idle]
Wake == acceptor' = IF acceptor = "asleep" THEN "check" ELSE acceptor
Fault == faults < MaxFault /\ faults' = faults + 1
Overtaken(t) == window' = IF thread[t].gen = curID THEN window ELSE window \cup {"overtaken"}

(* shutdown(pClient->sock), whichever connection the socket now is; own    *)
(* tells whether it was meant for this one.                                *)
Shutdown(own) ==
    /\ sock' = IF sock = "open" THEN "shut" ELSE sock
    /\ ended' = (ended \/ own)

(* CLanServer frees them only while bSend is set.                          *)
FreeSentPacket(c) == IF Net \/ c.bSend THEN [c EXCEPT !.packetBuffer = <<>>] ELSE c

ServerStarted ==
    /\ ~serverOn
    /\ serverOn' = TRUE
    /\ UNCHANGED <<kind, curID, slotVars, serverVars, thread, calls, faults, history>>

-----------------------------------------------------------------------------
(* Worker threads: accepts.                                                *)

(* accp_complete, up to OnClientJoin.  OnConnectionRequest lets everyone   *)
(* in, and there is room: see CountersExact.                               *)
Joining_KeepFlag(c) == [c EXCEPT !.bReadyToDisconnect = FALSE, !.sendq = <<>>,
                                 !.packetBuffer = <<>>, !.bSend = FALSE]
Joining(c) == [c EXCEPT !.bReadyToDisconnect = FALSE, !.bDisconnectNow = FALSE,
                        !.sendq = <<>>, !.packetBuffer = FreeSentPacket(c).packetBuffer,
                        !.bSend = FALSE]

Accp_Complete(w) ==
    /\ At(w, "idle")
    /\ posted.accp > 0 /\ curID < MaxClient
    /\ curID' = curID + 1
    /\ client' = [Joining(client) EXCEPT !.clientID = curID + 1]
    /\ sock' = "open" /\ posted' = [posted EXCEPT !.accp = @ - 1]
    /\ Goto(w, "accepted")
    /\ wire' = <<>> /\ ended' = FALSE
    /\ UNCHANGED <<kind, serverOn, serverVars, calls, packets, faults, left, off, window>>

Accepted(n) == IF Net THEN n - 1 ELSE n

(* OnClientJoin, recv_post (or it fails), and the counters.                *)
Accp_Complete_Join(w) ==
    /\ At(w, "accepted")
    /\ \/ /\ client' = [client EXCEPT !.ioCount = @ + 1]
          /\ posted' = [posted EXCEPT !.recv = @ + 1]
          /\ UNCHANGED <<faults, ended>>
       \/ /\ Fault /\ ended' = TRUE
          /\ UNCHANGED <<client, posted>>
    /\ curUser' = curUser + 1
    /\ curPosted' = Accepted(curPosted)
    /\ IF Net THEN Wake ELSE UNCHANGED acceptor
    /\ Goto(w, "unref")
    /\ UNCHANGED <<kind, serverOn, curID, sock, indexQueue, calls, packets, wire, left, off, window>>

(* An AcceptEx that was aborted: CLanServer goes on to the next completion *)
(* and never gives the reference back; CNetServer does not count it off.   *)
Accp_Aborted(w) ==
    /\ At(w, "idle")
    /\ posted.accp > 0
    /\ Fault
    /\ posted' = [posted EXCEPT !.accp = @ - 1]
    /\ sock' = "closed"
    /\ IF Lan THEN UNCHANGED thread ELSE Goto(w, "unref")
    /\ off' = IF Lan THEN [off EXCEPT !.ref = @ + 1] ELSE [off EXCEPT !.posted = @ + 1]
    /\ UNCHANGED <<kind, serverOn, curID, client, serverVars, calls, packets, wire, left, ended, window>>

-----------------------------------------------------------------------------
(* Worker threads: receives and sends.                                     *)

(* recv_complete, and recv_post again.  The handler's own calls are those  *)
(* of a caller that comes before the reference is given back.              *)
Recv_Complete(w) ==
    /\ At(w, "idle")
    /\ posted.recv > 0 /\ sock = "open"
    /\ client' = [client EXCEPT !.ioCount = @ + 1]
    /\ Goto(w, "unref")
    /\ UNCHANGED <<kind, serverOn, curID, sock, posted, serverVars, calls, faults, history>>

(* A header with a length that cannot be: CNetServer shuts the connection  *)
(* down, CLanServer just does not receive any more.                        *)
Recv_Complete_Bad(w) ==
    /\ At(w, "idle")
    /\ posted.recv > 0 /\ sock = "open"
    /\ posted' = [posted EXCEPT !.recv = @ - 1]
    /\ IF Net THEN Shutdown(TRUE) ELSE UNCHANGED sock /\ ended' = TRUE
    /\ Goto(w, "unref")
    /\ UNCHANGED <<kind, serverOn, curID, client, serverVars, calls, packets, faults, wire, left, off, window>>

(* Nothing was transferred.  The completion may be of a socket that was    *)
(* closed since; the shutdown is of the present one.                       *)
Recv_Zero(w) ==
    /\ At(w, "idle")
    /\ \/ posted.recv > 0 /\ sock = "shut" /\ posted' = [posted EXCEPT !.recv = @ - 1]
       \/ posted.deadRecv > 0 /\ posted' = [posted EXCEPT !.deadRecv = @ - 1]
    /\ Shutdown(FALSE)
    /\ Goto(w, "unref")
    /\ UNCHANGED <<kind, serverOn, curID, client, serverVars, calls, packets, faults, wire, left, off, window>>

(* CNetServer treats a failed send like any other.                         *)
Send_Complete(w) ==
    /\ At(w, "idle")
    /\ \/ posted.send > 0 /\ posted' = [posted EXCEPT !.send = @ - 1]
       \/ Net /\ posted.deadSend > 0 /\ posted' = [posted EXCEPT !.deadSend = @ - 1]
    /\ client' = FreeSentPacket(client)
    /\ Goto(w, "sent")
    /\ UNCHANGED <<kind, serverOn, curID, sock, serverVars, calls, faults, history>>

Send_Complete_Next(w) ==
    /\ At(w, "sent")
    /\ client' = [client EXCEPT !.bSend = FALSE]
    /\ Goto(w, IF Lan THEN "look" ELSE "claim")
    /\ UNCHANGED <<kind, serverOn, curID, sock, posted, serverVars, calls, faults, history>>

(* CLanServer shuts down and leaves bSend and the packets as they are.     *)
Send_Zero(w) ==
    /\ Lan /\ At(w, "idle")
    /\ \/ posted.send > 0 /\ sock = "shut" /\ posted' = [posted EXCEPT !.send = @ - 1]
       \/ posted.deadSend > 0 /\ posted' = [posted EXCEPT !.deadSend = @ - 1]
    /\ Shutdown(FALSE)
    /\ Goto(w, "unref")
    /\ UNCHANGED <<kind, serverOn, curID, client, serverVars, calls, packets, faults, wire, left, off, window>>

-----------------------------------------------------------------------------
(* sendPacket and disconnect: AcquireSessionLock takes a reference and     *)
(* only then looks whether the slot may be used.  A caller may hold the    *)
(* clientID of a client that has left.                                     *)

Joined == curID - IF \E w \in Worker : At(w, "accepted") THEN 1 ELSE 0

AcquireSessionLock(t, id, call) ==
    /\ At(t, "idle")
    /\ calls < MaxCall /\ calls' = calls + 1
    /\ id <= Joined
    /\ client' = [client EXCEPT !.ioCount = @ + 1]
    /\ thread' = [thread EXCEPT ![t] = [pc |-> IF client.ioCount = 0 THEN "unref" ELSE "check",
                                        id |-> id, call |-> call, gen |-> 0]]
    /\ UNCHANGED <<kind, serverOn, curID, sock, posted, serverVars, faults, history>>

MayLock_Always == TRUE
MayLock == ~client.bReadyToDisconnect

AcquireSessionLock_Ready(t) ==
    /\ At(t, "check")
    /\ Goto(t, IF MayLock THEN "same" ELSE "unref")
    /\ UNCHANGED <<kind, serverOn, curID, slotVars, serverVars, calls, faults, history>>

AcquireSessionLock_Same(t) ==
    LET late == \E u \in Thread : thread[u].pc \in Releasing /\ thread[u].gen = client.clientID
    IN
    /\ At(t, "same")
    /\ IF client.clientID = thread[t].id
       THEN Goto(t, "locked") /\ window' = IF late THEN window \cup {"late"} ELSE window
       ELSE Goto(t, "unref") /\ UNCHANGED window
    /\ UNCHANGED <<kind, serverOn, curID, slotVars, serverVars, calls, packets, faults, wire, left, ended, off>>

SendPacket(t) ==
    /\ At(t, "locked") /\ thread[t].call = "send"
    /\ client' = [client EXCEPT !.sendq = Append(@, [to |-> thread[t].id, n |-> packets + 1])]
    /\ packets' = packets + 1
    /\ Goto(t, IF Lan THEN "look" ELSE "claim")
    /\ UNCHANGED <<kind, serverOn, curID, sock, posted, serverVars, calls, faults,
                   wire, left, ended, off, window>>

Disconnect(t) ==
    /\ At(t, "locked") /\ thread[t].call = "disconnect"
    /\ Shutdown(thread[t].id = curID)
    /\ Goto(t, "unref")
    /\ UNCHANGED <<kind, serverOn, curID, client, posted, serverVars, calls, packets, faults, wire, left, off, window>>

-----------------------------------------------------------------------------
(* send_post: bSend is claimed, and given up again if there is nothing to  *)
(* send.  CLanServer looks first.                                          *)

Send_Post_Look(t) ==
    /\ At(t, "look")
    /\ Goto(t, IF client.sendq = <<>> \/ client.packetBuffer /= <<>> THEN "unref" ELSE "claim")
    /\ UNCHANGED <<kind, serverOn, curID, slotVars, serverVars, calls, faults, history>>

ClaimedBefore_Never == FALSE
ClaimedBefore == client.bSend

Send_Post_Claim(t) ==
    /\ At(t, "claim")
    /\ client' = [client EXCEPT !.bSend = TRUE]
    /\ Goto(t, IF ClaimedBefore THEN "unref" ELSE "test")
    /\ UNCHANGED <<kind, serverOn, curID, sock, posted, serverVars, calls, faults, history>>

Send_Post_Test(t) ==
    /\ At(t, "test")
    /\ Goto(t, IF client.sendq = <<>> \/ client.bReadyToDisconnect THEN "giveup" ELSE "take")
    /\ UNCHANGED <<kind, serverOn, curID, slotVars, serverVars, calls, faults, history>>

Send_Post_GiveUp(t) ==
    /\ At(t, "giveup")
    /\ client' = [client EXCEPT !.bSend = FALSE]
    /\ Goto(t, "unref")
    /\ UNCHANGED <<kind, serverOn, curID, sock, posted, serverVars, calls, faults, history>>

Sending_NotCounted(c) == [c EXCEPT !.sendq = <<>>, !.packetBuffer = c.sendq]
Sending(c) == [c EXCEPT !.sendq = <<>>, !.packetBuffer = c.sendq, !.ioCount = @ + 1]

(* The packets move to packetBuffer, and WSASend takes them ...            *)
Send_Post(t) ==
    /\ At(t, "take") /\ sock \in {"open", "shut"}
    /\ client' = Sending(client)
    /\ posted' = [posted EXCEPT !.send = @ + 1]
    /\ wire' = wire \o client.sendq
    /\ Goto(t, "unref")
    /\ UNCHANGED <<kind, serverOn, curID, sock, serverVars, calls, packets, faults, left, ended, off, window>>

(* ... or fails: the packets are freed.                                    *)
Send_Post_Fail(t) ==
    /\ At(t, "take") /\ sock /= "open"
    /\ client' = FreeSentPacket([client EXCEPT !.sendq = <<>>, !.packetBuffer = client.sendq])
    /\ Goto(t, "giveup")
    /\ UNCHANGED <<kind, serverOn, curID, sock, posted, serverVars, calls, faults, history>>

-----------------------------------------------------------------------------
(* ReleaseSessionLock, the end of a completion, and ReleaseSession.        *)

Unref(t) ==
    /\ At(t, "unref")
    /\ client' = [client EXCEPT !.ioCount = @ - 1]
    /\ thread' = [thread EXCEPT ![t] = IF client.ioCount > 1 THEN Idle
                                       ELSE [Idle EXCEPT !.pc = "release", !.gen = curID]]
    /\ UNCHANGED <<kind, serverOn, curID, sock, posted, serverVars, calls, faults, history>>

(* CNetServer bars the slot; CLanServer resets a flag that is never set.   *)
ReleaseSession(t) ==
    /\ At(t, "release")
    /\ client' = [client EXCEPT !.bReadyToDisconnect = Net]
    /\ Goto(t, "count")
    /\ Overtaken(t)
    /\ UNCHANGED <<kind, serverOn, curID, sock, posted, serverVars, calls, packets, faults, wire, left, ended, off>>

InUse_Never == FALSE
InUse == client.ioCount /= 0

ReleaseSession_Count(t) ==
    /\ At(t, "count")
    /\ thread' = [thread EXCEPT ![t] = IF InUse THEN Idle
                      ELSE [@ EXCEPT !.pc = IF Net THEN "free" ELSE "flag", !.gen = curID]]
    /\ IF InUse THEN UNCHANGED window ELSE Overtaken(t)
    /\ UNCHANGED <<kind, serverOn, curID, slotVars, serverVars, calls, faults, packets, wire, left, ended, off>>

ReleaseSession_Free(t) ==
    /\ At(t, "free")
    /\ client' = [client EXCEPT !.packetBuffer = <<>>, !.sendq = <<>>]
    /\ Goto(t, "flag")
    /\ Overtaken(t)
    /\ UNCHANGED <<kind, serverOn, curID, sock, posted, serverVars, calls, packets, faults, wire, left, ended, off>>

ReleaseSession_Flag(t) ==
    /\ At(t, "flag")
    /\ client' = [client EXCEPT !.bDisconnectNow = TRUE]
    /\ IF client.bDisconnectNow THEN Finish(t) ELSE Goto(t, "leave")
    /\ IF client.bDisconnectNow THEN UNCHANGED window ELSE Overtaken(t)
    /\ UNCHANGED <<kind, serverOn, curID, sock, posted, serverVars, calls, packets, faults, wire, left, ended, off>>

(* closesocket aborts what is posted; OnClientLeave; InitializeSession.    *)
(* After the first accept of a slot was aborted there is no client, but    *)
(* one is counted off.                                                     *)
ReleaseSession_Leave(t) ==
    /\ At(t, "leave")
    /\ sock' = "closed"
    /\ posted' = [posted EXCEPT !.recv = 0, !.deadRecv = @ + posted.recv,
                                !.send = 0, !.deadSend = @ + posted.send]
    /\ left' = IF client.clientID = 0 THEN left ELSE left \cup {client.clientID}
    /\ client' = [client EXCEPT !.clientID = 0]
    /\ curUser' = curUser - 1
    /\ off' = IF client.clientID = 0 THEN [off EXCEPT !.user = @ + 1] ELSE off
    /\ Goto(t, "again")
    /\ UNCHANGED <<kind, serverOn, curID, indexQueue, curPosted, acceptor, calls, packets, faults, wire, ended, window>>

ReleaseSession_Again_Net(t) ==
    /\ Net /\ At(t, "again")
    /\ indexQueue' = indexQueue + 1
    /\ Wake
    /\ Finish(t)
    /\ UNCHANGED <<kind, serverOn, curID, slotVars, curUser, curPosted, calls, faults, history>>

(* accept_post.  When it fails ReleaseSession finds bDisconnectNow set;    *)
(* before start has ended there is no accept at all.                       *)
ReleaseSession_Again_Lan(t) ==
    /\ Lan /\ At(t, "again")
    /\ \/ /\ serverOn
          /\ client' = [client EXCEPT !.ioCount = @ + 1]
          /\ posted' = [posted EXCEPT !.accp = @ + 1]
          /\ sock' = "listen"
          /\ UNCHANGED <<faults, window>>
       \/ /\ serverOn /\ Fault
          /\ UNCHANGED <<slotVars, window>>
       \/ /\ ~serverOn
          /\ window' = window \cup {"early"}
          /\ UNCHANGED <<slotVars, faults>>
    /\ Finish(t)
    /\ UNCHANGED <<kind, serverOn, curID, serverVars, calls, packets, wire, left, ended, off>>

-----------------------------------------------------------------------------
(* The accept thread of CNetServer.  WakeConditionVariable is called       *)
(* without its lock: between the test and the sleep the call is lost.      *)

Update_AcceptThread_Check ==
    /\ Net /\ acceptor = "check"
    /\ acceptor' = IF indexQueue = 0 \/ curPosted >= AcceptPool THEN "drowsy" ELSE "take"
    /\ UNCHANGED <<kind, serverOn, curID, slotVars, curUser, indexQueue, curPosted, thread, calls, faults, history>>

Update_AcceptThread_Sleep ==
    /\ Net /\ acceptor = "drowsy"
    /\ acceptor' = "asleep"
    /\ UNCHANGED <<kind, serverOn, curID, slotVars, curUser, indexQueue, curPosted, thread, calls, faults, history>>

(* accept_post counts the accept in curPosted even if it fails.            *)
Update_AcceptThread_Accept ==
    /\ Net /\ acceptor = "take"
    /\ curPosted' = curPosted + 1
    /\ \/ /\ indexQueue' = indexQueue - 1
          /\ client' = [client EXCEPT !.ioCount = @ + 1]
          /\ posted' = [posted EXCEPT !.accp = @ + 1]
          /\ sock' = "listen"
          /\ UNCHANGED <<faults, off>>
       \/ /\ Fault
          /\ off' = [off EXCEPT !.posted = @ + 1]
          /\ UNCHANGED <<slotVars, indexQueue>>
    /\ acceptor' = "check"
    /\ UNCHANGED <<kind, serverOn, curID, curUser, thread, calls, packets, wire, left, ended, window>>

(* The client closes its end.                                              *)
PeerClose ==
    /\ sock = "open"
    /\ Shutdown(TRUE)
    /\ UNCHANGED <<kind, serverOn, curID, client, posted, serverVars, thread, calls, packets, faults, wire, left, off, window>>

Complete(w) ==
    \/ Accp_Complete(w) \/ Accp_Aborted(w)
    \/ Recv_Complete(w) \/ Recv_Complete_Bad(w) \/ Recv_Zero(w)
    \/ Send_Complete(w) \/ Send_Zero(w)

Step(t) ==
    \/ t \in Worker /\ (Accp_Complete_Join(t) \/ Send_Complete_Next(t))
    \/ AcquireSessionLock_Ready(t) \/ AcquireSessionLock_Same(t)
    \/ SendPacket(t) \/ Disconnect(t)
    \/ Send_Post_Look(t) \/ Send_Post_Claim(t) \/ Send_Post_Test(t)
    \/ Send_Post_GiveUp(t) \/ Send_Post(t) \/ Send_Post_Fail(t)
    \/ Unref(t) \/ ReleaseSession(t) \/ ReleaseSession_Count(t) \/ ReleaseSession_Free(t)
    \/ ReleaseSession_Flag(t) \/ ReleaseSession_Leave(t)
    \/ ReleaseSession_Again_Net(t) \/ ReleaseSession_Again_Lan(t)

Update_AcceptThread ==
    Update_AcceptThread_Check \/ Update_AcceptThread_Sleep \/ Update_AcceptThread_Accept

Next ==
    \/ ServerStarted
    \/ \E w \in Worker : Complete(w)
    \/ \E t \in Caller, id \in ID, call \in {"send", "disconnect"} : AcquireSessionLock(t, id, call)
    \/ \E t \in Thread : Step(t)
    \/ Update_AcceptThread
    \/ PeerClose

Spec == Init /\ [][Next]_vars

(* The threads run, posted operations complete, and the accept thread runs *)
(* while it is awake.                                                      *)
Fairness ==
    /\ WF_vars(ServerStarted)
    /\ \A t \in Thread : WF_vars(Step(t))
    /\ \A w \in Worker :
          /\ WF_vars(Recv_Zero(w))
          /\ WF_vars(Send_Complete(w) \/ Send_Zero(w))
    /\ WF_vars(Update_AcceptThread)

FairSpec == Spec /\ Fairness

-----------------------------------------------------------------------------
(* Properties.                                                             *)

TypeOK ==
    /\ kind \in Kind /\ serverOn \in BOOLEAN
    /\ client \in [clientID : ID \cup {0}, ioCount : Nat, bSend : BOOLEAN,
                   bReadyToDisconnect : BOOLEAN, bDisconnectNow : BOOLEAN,
                   sendq : Seq(Packet), packetBuffer : Seq(Packet)]
    /\ sock \in {"none", "listen", "open", "shut", "closed"}
    /\ posted \in [{"accp", "recv", "send", "deadRecv", "deadSend"} -> Nat]
    /\ curID \in 0 .. MaxClient /\ curUser \in Int /\ curPosted \in Int
    /\ indexQueue \in Nat
    /\ acceptor \in {"check", "drowsy", "asleep", "take"}
    /\ thread \in [Thread -> [pc : Holding \cup Releasing \cup {"idle", "release", "count"},
                              id : ID \cup {0}, call : {"none", "send", "disconnect"},
                              gen : 0 .. MaxClient]]
    /\ calls \in 0 .. MaxCall /\ packets \in 0 .. MaxCall /\ faults \in 0 .. MaxFault
    /\ wire \in Seq(Packet) /\ left \subseteq ID /\ ended \in BOOLEAN
    /\ off \in [ref : Nat, user : Nat, posted : Nat]
    /\ window \subseteq {"overtaken", "late", "early"}

NoRace == window \cap {"overtaken", "late"} = {}

(* ioCount is never below the references there are, so that the Crash() of *)
(* the servers is not reached, and every reference is given back, except   *)
(* that of an aborted accept in CLanServer.  _curUser and _curPostedAcceptEx *)
(* count what they are meant to, except after a failed accept, and unless  *)
(* a releaser was overtaken (see the next property): there is always room  *)
(* for the client of a posted accept.                                      *)
CountersExact ==
    /\ TypeOK
    /\ client.ioCount = posted.accp + posted.recv + posted.send + posted.deadRecv
                        + posted.deadSend + off.ref
                        + Cardinality({t \in Thread : thread[t].pc \in Holding})
    /\ Net => curPosted = posted.accp + off.posted
                            + Cardinality({w \in Worker : At(w, "accepted")})
    /\ NoRace =>
          /\ curUser = Joined - Cardinality(left) - off.user
          /\ posted.accp > 0 => curUser < 1

(* A caller that holds the slot holds it for the client it asked for, so   *)
(* that nothing is sent to another and no other is disconnected, unless    *)
(* one of two races was run into: a thread that had counted down to 0 was  *)
(* held up until the slot served the next client; or, in CLanServer only,  *)
(* it was locked while it was being released.  (AcquireSessionLock,        *)
(* ReleaseSession)                                                         *)
LocksHoldTheirClient ==
    /\ "late" \in window => Lan \/ "overtaken" \in window
    /\ NoRace => \A t \in Caller :
           thread[t].pc \in Locked => client.clientID = thread[t].id

(* A client is reported as gone only when its connection has ended, by the *)
(* client, by a disconnect of that client or by a bad header, unless a     *)
(* releaser was overtaken as above; and once a slot listens again nothing  *)
(* of the last client is left to be counted off.  (ReleaseSession)         *)
ClientsLeaveForCause ==
    NoRace =>
        /\ curID \in left => ended
        /\ posted.deadRecv = 0 /\ posted.deadSend = 0
        /\ sock = "listen" => client.clientID = 0

(* On a connection only packets for its client are sent, in the order of   *)
(* sendPacket, and one WSASend at a time, though workers and callers       *)
(* compete to send.  (send_post, bSend)                                    *)
SendsInOrder ==
    NoRace =>
        /\ \A i \in DOMAIN wire : wire[i].to = curID
        /\ \A i, j \in DOMAIN wire : i < j => wire[i].n < wire[j].n
        /\ posted.send + Cardinality({t \in Thread : thread[t].pc \in {"test", "take", "sent"}}) <= 1

(* The slot of a connection that has ended is released.                    *)
EndedClientsLeave ==
    \A id \in ID : curID = id /\ ended ~> id \in left \/ ~NoRace

(* A released slot accepts again, unless a failed accept has been counted  *)
(* for good, the accept thread missed its wake-up, or, in CLanServer, the  *)
(* client left before start had ended or the accept failed.                *)
SlotsAcceptAgain ==
    \A id \in ID : id \in left ~>
        \/ posted.accp > 0 \/ curID > id
        \/ faults > 0
        \/ acceptor = "asleep" /\ indexQueue > 0 /\ curPosted < AcceptPool
        \/ "early" \in window

=============================================================================
