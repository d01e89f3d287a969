----------------------------- MODULE MMOSession -----------------------------
(***************************************************************************)
(* The sessions of the MMO server (src/Source/Library/CMMOServer.cpp,      *)
(* CNetSession.cpp): an array of session objects that serve one client     *)
(* after another.  Worker threads handle the completed accepts, receives   *)
(* and sends, the send thread posts sends, the Auth and Game threads move  *)
(* a session through its modes and release it, the accept thread posts an  *)
(* accept for each free session.  They share the fields of a session       *)
(* without a lock: _ioCount counts what still refers to it, _sendIO is set *)
(* while it is being sent, and the worker that counts down to zero raises  *)
(* _bLogoutFlag.                                                           *)
(*                                                                         *)
(* One action is one access to these fields that another thread may come   *)
(* before or after, with the private work around it.  With Overlap = FALSE *)
(* a thread starts a visit of a session only when no other is in one.      *)
(***************************************************************************)
EXTENDS Integers, Sequences, FiniteSets

CONSTANTS
    Session,        \* the session objects of _pSessionArray
    NoSession,
    Worker,         \* worker threads
    MaxAcceptPool,  \* _maxAcceptPool
    MaxClient,      \* bound on the clients that connect, one after another
    MaxQueue,       \* bound on the packets waiting in a send queue
    MaxFail,        \* bound on accepts that fail
    MayStop,        \* is the server stopped at some time
    Caller,         \* the threads that send to a player or disconnect one
    Overlap         \* may visits of different threads interleave

ASSUME MMOSessionAssumption ==
    /\ IsFiniteSet(Session) /\ IsFiniteSet(Worker) /\ IsFiniteSet(Caller)
    /\ NoSession \notin Session
    /\ MaxAcceptPool \in Nat \ {0}
    /\ MaxClient \in Nat
    /\ MaxQueue \in Nat \ {0}
    /\ MaxFail \in Nat
    /\ MayStop \in BOOLEAN
    /\ Overlap \in BOOLEAN

VARIABLES
    session,      \* what each session object holds
    line,         \* the connection of a session: "none", "open", "closed" (by
                  \* the client), "shut" (by the server)
    posted,       \* how many operations of each kind are pending on a session
    worker,       \* what each worker thread is doing
    task,         \* ... the Auth and Game threads and the callers
    sender,       \* ... the send thread
    acceptor,     \* ... the accept thread
    main,         \* ... the thread that calls Stop
    indexQueue,   \* _indexQueue
    curPosted,    \* _curPostedAcceptEx
    curUser,      \* _curUser
    curID,        \* _curID
    fails,        \* how many accepts failed while the server listened
    lost,         \* the sessions whose accept failed after it was posted
    bound,        \* the sessions whose socket is in the completion port
    freed,        \* how many waited in indexQueue when ClearBuffer freed its nodes
    crash         \* did cCrashDump::Crash() end the process

poolVars   == <<indexQueue, curPosted, curUser, curID, fails, lost, bound, freed>>
threadVars == <<worker, task, sender, acceptor, main>>
vars       == <<session, line, posted, threadVars, poolVars, crash>>

-----------------------------------------------------------------------------
Op      == {"accept", "recv", "send"}
Outcome == {"accepted", "refused", "received", "spoilt", "closed", "sent"}
Thread  == {"auth", "game"} \cup Caller
Client  == 1 .. MaxClient      \* clientIDs; 0 is nobody's
Mode    == {"NONE", "AUTH", "AUTH_TO_GAME", "GAME", "LOGOUT_IN_AUTH",
            "LOGOUT_IN_GAME", "WAIT_LOGOUT"}

SessionRec == [mode : Mode, clientID : Client \cup {0}, bLogoutFlag : BOOLEAN,
               bShutdown : BOOLEAN, bAuthToGameFlag : BOOLEAN,
               bDisconnect : BOOLEAN, sendIO : {0, 1}, ioCount : Int,
               sendq : Seq(Client), packetBuffer : Seq(Client),
               sendPacketSize : Nat]

NewSession == [mode |-> "NONE", clientID |-> 0, bLogoutFlag |-> FALSE,
               bShutdown |-> FALSE, bAuthToGameFlag |-> FALSE,
               bDisconnect |-> FALSE, sendIO |-> 0, ioCount |-> 0,
               sendq |-> <<>>, packetBuffer |-> <<>>, sendPacketSize |-> 0]

Idle   == [step |-> "idle", session |-> NoSession]
NoWork == [step |-> "idle", session |-> NoSession, outcome |-> "closed"]
NoCall == [step |-> "idle", session |-> NoSession, packet |-> 0]

(* Start: every index goes into the queue, the accept thread looks at it.  *)
Init ==
    /\ session = [s \in Session |-> NewSession]
    /\ line = [s \in Session |-> "none"]
    /\ posted = [s \in Session |-> [o \in Op |-> 0]]
    /\ worker = [w \in Worker |-> NoWork]
    /\ task = [t \in Thread |-> NoCall]
    /\ sender = Idle
    /\ acceptor = "check"
    /\ main = "run"
    /\ \E q \in [1 .. Cardinality(Session) -> Session] :
         /\ \A s \in Session : \E n \in DOMAIN q : q[n] = s
         /\ indexQueue = q
    /\ curPosted = 0
    /\ curUser = 0
    /\ curID = 0
    /\ fails = 0
    /\ lost = {}
    /\ bound = {}
    /\ freed = 0
    /\ crash = FALSE

-----------------------------------------------------------------------------
(* A visit starts when the thread is in no other, and, unless visits may   *)
(* overlap, when nobody is in one.                                         *)
Visiting == \/ \E w \in Worker : worker[w].step \notin {"idle", "exit"}
            \/ \E t \in Thread : task[t].step \notin {"idle", "exit"}
            \/ sender.step \notin {"idle", "exit"}

MayVisit == ~crash /\ (Overlap \/ ~Visiting)

(* _bServerOn, the listen socket, and the _bExit flags, by how far Stop is.*)
ServerOn  == main = "run"
Listening == main \in {"run", "off", "shut"}

(* FreeSentPacket: the count is exchanged, so packets are freed once.      *)
FreeSentPacket(r) ==
    IF r.sendPacketSize = 0 THEN r
    ELSE [r EXCEPT !.sendPacketSize = 0, !.packetBuffer = <<>>]

(* Fault: what waits in the send queue is not freed.                       *)
InitBuffer_KeepQueue(r) == FreeSentPacket(r)

InitBuffer(r) == [FreeSentPacket(r) EXCEPT !.sendq = <<>>]

(* Fault: the mode is left as it is.                                       *)
InitSession_KeepMode(r) == [InitBuffer(r) EXCEPT !.clientID = 0]

InitSession(r) == [InitBuffer(r) EXCEPT !.mode = "NONE", !.clientID = 0]

(* ClearBuffer gives the nodes of what waits in the queue back to the pool *)
(* and leaves head and tail as they are: IsEmpty answers as before.  The   *)
(* next Enqueue gets the last node back, sets its pNext to null, and links *)
(* it to itself: the queue ends in a circle, in which an Enqueue and       *)
(* ClearBuffer go round for ever.                                          *)
ClearBuffer == freed' = Len(indexQueue)

Tied == freed > 0 /\ Len(indexQueue) > freed

(* WakeConditionVariable: lost on a thread that does not sleep yet.        *)
WakeAcceptor == acceptor' = IF acceptor = "asleep" THEN "check" ELSE acceptor

Set(s, r) == session' = [session EXCEPT ![s] = r]

(* InterlockedIncrement and InterlockedDecrement of _ioCount.              *)
Count(r, d) == [r EXCEPT !.ioCount = @ + d]

Post(s, o) == posted' = [posted EXCEPT ![s][o] = @ + 1]

-----------------------------------------------------------------------------
(* The accept thread.                                                      *)

(* _indexLock is held from the test to the sleep, but who enqueues or wakes*)
(* does not take it.                                                       *)
Update_AcceptThread_Check ==
    /\ ~crash
    /\ acceptor = "check"
    /\ acceptor' = IF indexQueue = <<>> \/ curPosted >= MaxAcceptPool
                   THEN IF Overlap THEN "drowsy" ELSE "asleep"
                   ELSE "go"
    /\ UNCHANGED <<session, line, posted, worker, task, sender, main, poolVars, crash>>

Update_AcceptThread_Sleep ==
    /\ ~crash
    /\ acceptor = "drowsy"
    /\ acceptor' = "asleep"
    /\ UNCHANGED <<session, line, posted, worker, task, sender, main, poolVars, crash>>

Update_AcceptThread_Exit ==
    /\ ~crash
    /\ acceptor = "go"
    /\ ~ServerOn
    /\ acceptor' = "exit"
    /\ UNCHANGED <<session, line, posted, worker, task, sender, main, poolVars, crash>>

(* A session leaves the queue, gets a new socket, and waits for a client.  *)
Accept_Post(s) ==
    /\ MayVisit
    /\ acceptor = "go"
    /\ ServerOn
    /\ indexQueue # <<>> /\ s = Head(indexQueue)
    /\ Set(s, Count(session[s], 1))
    /\ line' = [line EXCEPT ![s] = "none"]
    /\ Post(s, "accept")
    /\ curPosted' = curPosted + 1
    /\ indexQueue' = Tail(indexQueue)
    /\ bound' = bound \ {s}
    /\ acceptor' = "check"
    /\ UNCHANGED <<worker, task, sender, main, curUser, curID, fails, lost, freed, crash>>

(* AcceptEx fails: the session goes back to the queue, _curPostedAcceptEx  *)
(* stays as it was raised.                                                 *)
Accept_Post_Fail(s) ==
    /\ MayVisit
    /\ acceptor = "go"
    /\ ServerOn
    /\ indexQueue # <<>> /\ s = Head(indexQueue)
    /\ fails < MaxFail
    /\ fails' = fails + 1
    /\ line' = [line EXCEPT ![s] = "none"]
    /\ curPosted' = curPosted + 1
    /\ indexQueue' = Append(Tail(indexQueue), s)
    /\ bound' = bound \ {s}
    /\ acceptor' = "check"
    /\ UNCHANGED <<session, posted, worker, task, sender, main, curUser, curID, lost,
                   freed, crash>>

-----------------------------------------------------------------------------
(* The worker threads.                                                     *)

Joining == {w \in Worker : worker[w].step = "handle" /\ worker[w].outcome = "accepted"}

(* How a pending operation may end: a client connects, or the accept fails *)
(* (the listen socket is closed, or the client is gone again by then);     *)
(* bytes come in, well formed or not, or the connection is down; a send    *)
(* ends, and is heard of when the socket is in the completion port.        *)
MayEnd(s, outcome) ==
    CASE outcome = "accepted" -> Listening /\ curID + Cardinality(Joining) < MaxClient
      [] outcome = "refused"  -> ~Listening \/ fails < MaxFail
      [] outcome \in {"received", "spoilt"} -> line[s] \in {"open", "closed"}
      [] outcome = "closed"   -> line[s] \in {"closed", "shut"}
      [] outcome = "sent"     -> s \in bound

EndOf(outcome) == CASE outcome \in {"accepted", "refused"} -> "accept"
                    [] outcome \in {"received", "spoilt", "closed"} -> "recv"
                    [] outcome = "sent" -> "send"

(* Nobody makes up for an accept that fails while the server listens: the  *)
(* session is not queued again and _curPostedAcceptEx is not lowered.      *)
GetQueuedCompletionStatus(w, s, outcome) ==
    /\ MayVisit
    /\ worker[w].step = "idle"
    /\ posted[s][EndOf(outcome)] > 0
    /\ MayEnd(s, outcome)
    /\ posted' = [posted EXCEPT ![s][EndOf(outcome)] = @ - 1]
    /\ worker' = [worker EXCEPT ![w] = [step |-> "handle", session |-> s, outcome |-> outcome]]
    /\ IF outcome = "refused" /\ Listening
       THEN fails' = fails + 1 /\ lost' = lost \cup {s}
       ELSE UNCHANGED <<fails, lost>>
    /\ UNCHANGED <<session, line, task, sender, acceptor, main, indexQueue, curPosted,
                   curUser, curID, bound, freed, crash>>

(* What the handlers below share: w handles an operation of s that ended   *)
(* so, and gives its reference back next.                                  *)
Handles(w, s, outcome) ==
    /\ ~crash
    /\ worker[w].step = "handle" /\ worker[w].session = s
    /\ worker[w].outcome = outcome
    /\ worker' = [worker EXCEPT ![w].step = "release"]

(* Recv_Post, with the worker's own reference held: it fails on a socket   *)
(* that is shut, may fail on one the client closed, and then only gives    *)
(* back the reference it took.                                             *)
Recv_Post(s, r) ==
    \/ line'[s] \in {"open", "closed"} /\ Set(s, Count(r, 1)) /\ Post(s, "recv")
    \/ line'[s] \in {"closed", "shut"} /\ Set(s, r) /\ UNCHANGED posted

(* The session as Accept_Complete hands it to the next client.             *)
Joined(r, id) ==
    [InitBuffer(r) EXCEPT !.clientID = id, !.sendIO = 0, !.mode = "AUTH",
        !.bAuthToGameFlag = FALSE, !.bLogoutFlag = FALSE, !.bShutdown = FALSE,
        !.bDisconnect = FALSE]

(* The steps of Accept_Complete: the session is in use at once, its socket *)
(* goes into the completion port, and the counters follow.                 *)
Joins(w, s, from, to) ==
    /\ ~crash
    /\ worker[w].step = from /\ worker[w].session = s
    /\ worker' = [worker EXCEPT ![w].step = to]

Accept_Complete(w, s) ==
    /\ worker[w].outcome = "accepted"
    /\ Joins(w, s, "handle", "port")
    /\ curID' = curID + 1
    /\ line' = [line EXCEPT ![s] = "open"]
    /\ Set(s, Joined(session[s], curID + 1))
    /\ UNCHANGED <<posted, task, sender, acceptor, main, indexQueue, curPosted, curUser,
                   fails, lost, bound, freed, crash>>

(* When the port cannot take the socket no receive is posted.              *)
SetIoCompletionPort(w, s) ==
    /\ Joins(w, s, "port", "posted")
    /\ UNCHANGED line
    /\ \/ bound' = bound \cup {s} /\ Recv_Post(s, session[s])
       \/ UNCHANGED <<session, posted, bound>>
    /\ UNCHANGED <<task, sender, acceptor, main, indexQueue, curPosted, curUser, curID,
                   fails, lost, freed, crash>>

Accept_Complete_Posted(w, s) ==
    /\ Joins(w, s, "posted", "user")
    /\ curPosted' = curPosted - 1
    /\ UNCHANGED <<session, line, posted, task, sender, acceptor, main, indexQueue,
                   curUser, curID, fails, lost, bound, freed, crash>>

Accept_Complete_User(w, s) ==
    /\ Joins(w, s, "user", "release")
    /\ curUser' = curUser + 1
    /\ WakeAcceptor
    /\ UNCHANGED <<session, line, posted, task, sender, main, indexQueue, curPosted,
                   curID, fails, lost, bound, freed, crash>>

(* An accept that ends in failure, or bytes that are no packet: nothing is *)
(* handled, no receive is posted again.                                    *)
Update_WorkerThread_Drop(w, s) ==
    /\ \/ Handles(w, s, "refused")
       \/ Handles(w, s, "spoilt")
    /\ UNCHANGED <<session, line, posted, task, sender, acceptor, main, poolVars, crash>>

Recv_Complete(w, s) ==
    /\ Handles(w, s, "received")
    /\ UNCHANGED line
    /\ Recv_Post(s, session[s])
    /\ UNCHANGED <<task, sender, acceptor, main, poolVars, crash>>

(* The client is gone: shutdown(SD_SEND).                                  *)
Update_WorkerThread_Zero(w, s) ==
    /\ Handles(w, s, "closed")
    /\ line' = [line EXCEPT ![s] = "shut"]
    /\ UNCHANGED <<session, posted, task, sender, acceptor, main, poolVars, crash>>

Send_Complete(w, s) ==
    /\ Handles(w, s, "sent")
    /\ Set(s, [FreeSentPacket(session[s]) EXCEPT !.sendIO = 0])
    /\ UNCHANGED <<line, posted, task, sender, acceptor, main, poolVars, crash>>

(* After the handler: who counts down to zero marks the session.           *)
Update_WorkerThread_Release(w, s) ==
    /\ ~crash
    /\ worker[w].step = "release" /\ worker[w].session = s
    /\ Set(s, Count(session[s], -1))
    /\ crash' = (session[s].ioCount - 1 < 0)
    /\ worker' = [worker EXCEPT ![w] = IF session[s].ioCount - 1 = 0
                                       THEN [@ EXCEPT !.step = "flag"] ELSE NoWork]
    /\ UNCHANGED <<line, posted, task, sender, acceptor, main, poolVars>>

Update_WorkerThread_Flag(w, s) ==
    /\ ~crash
    /\ worker[w].step = "flag" /\ worker[w].session = s
    /\ Set(s, [session[s] EXCEPT !.bLogoutFlag = TRUE])
    /\ worker' = [worker EXCEPT ![w].step = "free"]
    /\ UNCHANGED <<line, posted, task, sender, acceptor, main, poolVars, crash>>

Update_WorkerThread_Free(w, s) ==
    /\ ~crash
    /\ worker[w].step = "free" /\ worker[w].session = s
    /\ Set(s, [FreeSentPacket(session[s]) EXCEPT !.sendIO = 0])
    /\ worker' = [worker EXCEPT ![w] = NoWork]
    /\ UNCHANGED <<line, posted, task, sender, acceptor, main, poolVars, crash>>

(* The completion that Stop posts, and each worker posts again.            *)
Update_WorkerThread_Exit(w) ==
    /\ MayVisit
    /\ worker[w].step = "idle"
    /\ ~Listening
    /\ worker' = [worker EXCEPT ![w].step = "exit"]
    /\ UNCHANGED <<session, line, posted, task, sender, acceptor, main, poolVars, crash>>

-----------------------------------------------------------------------------
(* The send thread.                                                        *)

UnchangedBySender == <<line, worker, task, acceptor, main, poolVars>>

(* InterlockedCompareExchange of _sendIO.                                  *)
Update_SendThread_Claim(s) ==
    /\ MayVisit
    /\ sender.step = "idle"
    /\ session[s].sendIO = 0
    /\ Set(s, [session[s] EXCEPT !.sendIO = 1])
    /\ sender' = [step |-> "check", session |-> s]
    /\ UNCHANGED <<UnchangedBySender, posted, crash>>

At(s, step) == ~crash /\ sender = [step |-> step, session |-> s]

NothingToSend(r) == \/ r.mode \notin {"AUTH", "GAME"} /\ r.bLogoutFlag
                    \/ r.sendq = <<>>

Update_SendThread_Check(s) ==
    /\ At(s, "check")
    /\ \/ /\ NothingToSend(session[s])
          /\ Set(s, [session[s] EXCEPT !.sendIO = 0])
          /\ sender' = Idle
       \/ /\ ~NothingToSend(session[s])
          /\ sender' = [sender EXCEPT !.step = "dequeue"]
          /\ UNCHANGED session
    /\ UNCHANGED <<UnchangedBySender, posted, crash>>

Send_Post_Dequeue(s) ==
    /\ At(s, "dequeue")
    /\ Set(s, [session[s] EXCEPT !.packetBuffer = session[s].sendq, !.sendq = <<>>])
    /\ sender' = [sender EXCEPT !.step = "count"]
    /\ UNCHANGED <<UnchangedBySender, posted, crash>>

Send_Post_Count(s) ==
    /\ At(s, "count")
    /\ Set(s, [Count(session[s], 1) EXCEPT !.sendPacketSize = Len(session[s].packetBuffer)])
    /\ sender' = [sender EXCEPT !.step = "send"]
    /\ UNCHANGED <<UnchangedBySender, posted, crash>>

Send_Post(s) ==
    /\ At(s, "send")
    /\ line[s] \in {"open", "closed"}
    /\ Post(s, "send")
    /\ sender' = Idle
    /\ UNCHANGED <<UnchangedBySender, session, crash>>

(* WSASend fails: the reference goes first, then the packets and the flag, *)
(* and the session is marked last.                                         *)
Send_Post_Fail(s) ==
    /\ At(s, "send")
    /\ line[s] # "open"
    /\ Set(s, Count(session[s], -1))
    /\ crash' = (session[s].ioCount - 1 < 0)
    /\ sender' = [sender EXCEPT !.step = IF session[s].ioCount - 1 = 0
                                         THEN "unsend_last" ELSE "unsend"]
    /\ UNCHANGED <<UnchangedBySender, posted>>

Send_Post_Unsend(s) ==
    /\ At(s, "unsend") \/ At(s, "unsend_last")
    /\ Set(s, [FreeSentPacket(session[s]) EXCEPT !.sendIO = 0])
    /\ sender' = IF sender.step = "unsend" THEN Idle ELSE [sender EXCEPT !.step = "flag"]
    /\ UNCHANGED <<UnchangedBySender, posted, crash>>

Send_Post_Flag(s) ==
    /\ At(s, "flag")
    /\ Set(s, [session[s] EXCEPT !.bLogoutFlag = TRUE])
    /\ sender' = Idle
    /\ UNCHANGED <<UnchangedBySender, posted, crash>>

Update_SendThread_Exit ==
    /\ MayVisit
    /\ sender.step = "idle"
    /\ main = "sender"
    /\ sender' = [Idle EXCEPT !.step = "exit"]
    /\ UNCHANGED <<session, line, posted, worker, task, acceptor, main, poolVars, crash>>

-----------------------------------------------------------------------------
(* CNetSession::SendPacket and Disconnect, called by the Auth thread for a *)
(* session in authentication, by the Game thread for one in the game, by   *)
(* another thread for any it found in use.                                 *)

MayCall(t, mode) ==
    /\ t \in Caller
    /\ CASE t = "auth" -> mode \in {"AUTH", "LOGOUT_IN_AUTH"}
         [] t = "game" -> mode \in {"GAME", "LOGOUT_IN_GAME"}
         [] OTHER -> mode # "NONE"

Call(t, s) ==
    /\ MayVisit
    /\ task[t].step = "idle"
    /\ MayCall(t, session[s].mode)
    /\ \/ Len(session[s].sendq) < MaxQueue
          /\ task' = [task EXCEPT ![t] = [step |-> "SendPacket", session |-> s,
                                          packet |-> session[s].clientID]]
       \/ task' = [task EXCEPT ![t] = [step |-> "Disconnect", session |-> s, packet |-> 0]]
    /\ UNCHANGED <<session, line, posted, worker, sender, acceptor, main, poolVars, crash>>

In(t, s, step) == ~crash /\ task[t].step = step /\ task[t].session = s

Goto(t, step) == task' = [task EXCEPT ![t].step = step]

UnchangedByCall == <<posted, worker, sender, acceptor, main, poolVars, crash>>

(* A reference is taken; the packet is dropped when nothing else refers to *)
(* the session, or it is on its way out.                                   *)
SendPacket(t, s) ==
    /\ In(t, s, "SendPacket")
    /\ Set(s, Count(session[s], 1))
    /\ Goto(t, IF session[s].ioCount = 0 \/ session[s].bLogoutFlag \/ session[s].bShutdown
               THEN "unref" ELSE "enqueue")
    /\ UNCHANGED <<UnchangedByCall, line>>

SendPacket_Enqueue(t, s) ==
    /\ In(t, s, "enqueue")
    /\ Set(s, [session[s] EXCEPT !.sendq = Append(@, task[t].packet)])
    /\ Goto(t, "unref")
    /\ UNCHANGED <<UnchangedByCall, line>>

Disconnect(t, s) ==
    /\ In(t, s, "Disconnect")
    /\ Set(s, Count(session[s], 1))
    /\ Goto(t, IF session[s].ioCount = 0 \/ session[s].bLogoutFlag THEN "unref" ELSE "shut")
    /\ UNCHANGED <<UnchangedByCall, line>>

Disconnect_Shutdown(t, s) ==
    /\ In(t, s, "shut")
    /\ Set(s, [session[s] EXCEPT !.bShutdown = TRUE])
    /\ line' = [line EXCEPT ![s] = IF @ = "none" THEN @ ELSE "shut"]
    /\ Goto(t, "unref")
    /\ UNCHANGED UnchangedByCall

(* Fault: the reference is not given back.                                 *)
Unreference_Keep(t, s) ==
    /\ In(t, s, "unref")
    /\ task' = [task EXCEPT ![t] = NoCall]
    /\ UNCHANGED <<UnchangedByCall, session, line>>

Unreference(t, s) ==
    /\ In(t, s, "unref")
    /\ Set(s, Count(session[s], -1))
    /\ task' = [task EXCEPT ![t] = IF session[s].ioCount = 1 THEN [@ EXCEPT !.step = "flag"]
                                                             ELSE NoCall]
    /\ UNCHANGED <<UnchangedByCall, line>>

Unreference_Flag(t, s) ==
    /\ In(t, s, "flag")
    /\ Set(s, [session[s] EXCEPT !.bLogoutFlag = TRUE])
    /\ task' = [task EXCEPT ![t] = NoCall]
    /\ UNCHANGED <<UnchangedByCall, line>>

-----------------------------------------------------------------------------
(* The Auth and Game threads move a session on.                            *)

Moves(t, s, from, to) ==
    /\ MayVisit
    /\ task[t].step = "idle"
    /\ session[s].mode = from
    /\ Set(s, [session[s] EXCEPT !.mode = to])
    /\ UNCHANGED <<line, posted, threadVars, poolVars, crash>>

(* The player's room starts its game.                                      *)
SetMode_GAME(s) ==
    /\ MayVisit
    /\ task["auth"].step = "idle"
    /\ session[s].mode \in {"AUTH", "LOGOUT_IN_AUTH"}
    /\ ~session[s].bAuthToGameFlag
    /\ Set(s, [session[s] EXCEPT !.bAuthToGameFlag = TRUE])
    /\ UNCHANGED <<line, posted, threadVars, poolVars, crash>>

Auth_PacketProc_Logout(s) == session[s].bLogoutFlag /\ Moves("auth", s, "AUTH", "LOGOUT_IN_AUTH")
Auth_LeaveProc(s)   == session[s].bAuthToGameFlag /\ Moves("auth", s, "AUTH", "AUTH_TO_GAME")
Game_AuthToGameProc(s)    == Moves("game", s, "AUTH_TO_GAME", "GAME")
Game_PacketProc_Logout(s) == session[s].bLogoutFlag /\ Moves("game", s, "GAME", "LOGOUT_IN_GAME")

Auth_LogoutProc(s) == session[s].sendIO = 0 /\ Moves("auth", s, "LOGOUT_IN_AUTH", "WAIT_LOGOUT")
Game_LeaveProc(s)  == session[s].sendIO = 0 /\ Moves("game", s, "LOGOUT_IN_GAME", "WAIT_LOGOUT")

Game_ReleaseProc(s) ==
    /\ MayVisit
    /\ task["game"].step = "idle"
    /\ session[s].mode = "WAIT_LOGOUT"
    /\ session[s].sendIO = 0
    /\ task' = [task EXCEPT !["game"] = [step |-> "ioCount", session |-> s, packet |-> 0]]
    /\ UNCHANGED <<session, line, posted, worker, sender, acceptor, main, poolVars, crash>>

(* After OnGame_ClientRelease; while something refers to the session both  *)
(* come again in every frame.                                              *)
ReleaseSession_Check(s) ==
    /\ In("game", s, "ioCount")
    /\ task' = [task EXCEPT !["game"] = IF session[s].ioCount # 0 THEN NoCall
                                        ELSE [@ EXCEPT !.step = "ReleaseSession"]]
    /\ UNCHANGED <<session, line, posted, worker, sender, acceptor, main, poolVars, crash>>

(* Fault: nobody wakes the accept thread.                                  *)
ReleaseSession_NoWake(s) ==
    /\ In("game", s, "ReleaseSession")
    /\ session[s].bDisconnect \/ ~Tied
    /\ task' = [task EXCEPT !["game"] = NoCall]
    /\ IF session[s].bDisconnect
       THEN UNCHANGED <<session, acceptor, indexQueue, curUser>>
       ELSE /\ Set(s, [InitSession(session[s]) EXCEPT !.bDisconnect = TRUE])
            /\ curUser' = curUser - 1
            /\ indexQueue' = Append(indexQueue, s)
            /\ UNCHANGED acceptor
    /\ UNCHANGED <<line, posted, worker, sender, main, curPosted, curID, fails, lost,
                   bound, freed, crash>>

ReleaseSession(s) ==
    /\ In("game", s, "ReleaseSession")
    /\ session[s].bDisconnect \/ ~Tied
    /\ task' = [task EXCEPT !["game"] = NoCall]
    /\ IF session[s].bDisconnect
       THEN UNCHANGED <<session, acceptor, indexQueue, curUser>>
       ELSE /\ Set(s, [InitSession(session[s]) EXCEPT !.bDisconnect = TRUE])
            /\ curUser' = curUser - 1
            /\ indexQueue' = Append(indexQueue, s)
            /\ WakeAcceptor
    /\ UNCHANGED <<line, posted, worker, sender, main, curPosted, curID, fails, lost,
                   bound, freed, crash>>

(* _bExitGame and _bExitAuth; the callers end with the Auth thread here.   *)
Update_Thread_Exit(t) ==
    /\ MayVisit
    /\ task[t].step = "idle"
    /\ main = t \/ (t \notin {"auth", "game"} /\ main = "auth")
    /\ task' = [task EXCEPT ![t].step = "exit"]
    /\ UNCHANGED <<session, line, posted, worker, sender, acceptor, main, poolVars, crash>>

-----------------------------------------------------------------------------
(* The clients, and the end of the server.                                 *)

ClientCloses(s) ==
    /\ MayVisit
    /\ line[s] = "open"
    /\ line' = [line EXCEPT ![s] = "closed"]
    /\ UNCHANGED <<session, posted, threadVars, poolVars, crash>>

Stop_Go(from, to) == ~crash /\ main = from /\ main' = to

Stop ==
    /\ MayStop
    /\ MayVisit
    /\ Stop_Go("run", "off")
    /\ UNCHANGED <<session, line, posted, worker, task, sender, acceptor, poolVars, crash>>

Stop_Shutdown ==
    /\ Stop_Go("off", "shut")
    /\ line' = [s \in Session |-> IF session[s].clientID # 0 THEN "shut" ELSE line[s]]
    /\ UNCHANGED <<session, posted, worker, task, sender, acceptor, poolVars, crash>>

Stop_Listen ==
    /\ Stop_Go("shut", "worker")
    /\ UNCHANGED <<session, line, posted, worker, task, sender, acceptor, poolVars, crash>>

(* The accept thread is woken once.                                        *)
Stop_Accept ==
    /\ Stop_Go("worker", "acceptor")
    /\ \A w \in Worker : worker[w].step = "exit"
    /\ ClearBuffer
    /\ curPosted' = 0
    /\ WakeAcceptor
    /\ UNCHANGED <<session, line, posted, worker, task, sender, indexQueue, curUser,
                   curID, fails, lost, bound, crash>>

Stop_Send ==
    /\ Stop_Go("acceptor", "sender")
    /\ acceptor = "exit"
    /\ ~Tied
    /\ ClearBuffer
    /\ UNCHANGED <<session, line, posted, worker, task, sender, acceptor, indexQueue,
                   curPosted, curUser, curID, fails, lost, bound, crash>>

(* Fault: each thread is waited for before it is told to exit.             *)
Stop_Threads_WaitFirst ==
    /\ \/ Stop_Go("sender", "game") /\ task["game"].step = "exit"
       \/ Stop_Go("game", "auth") /\ task["auth"].step = "exit"
       \/ Stop_Go("auth", "stopped")
    /\ UNCHANGED <<session, line, posted, worker, task, sender, acceptor, poolVars, crash>>

Stop_Threads ==
    /\ \/ Stop_Go("sender", "game") /\ sender.step = "exit"
       \/ Stop_Go("game", "auth") /\ task["game"].step = "exit"
       \/ Stop_Go("auth", "stopped") /\ task["auth"].step = "exit"
    /\ UNCHANGED <<session, line, posted, worker, task, sender, acceptor, poolVars, crash>>

-----------------------------------------------------------------------------
AcceptThread == \/ Update_AcceptThread_Check
                \/ Update_AcceptThread_Sleep
                \/ Update_AcceptThread_Exit
                \/ \E s \in Session : Accept_Post(s) \/ Accept_Post_Fail(s)

(* What a worker does for s once it has taken a completion.                *)
Handle(w, s) == \/ Accept_Complete(w, s)
                \/ SetIoCompletionPort(w, s)
                \/ Accept_Complete_Posted(w, s)
                \/ Accept_Complete_User(w, s)
                \/ Update_WorkerThread_Drop(w, s)
                \/ Recv_Complete(w, s)
                \/ Update_WorkerThread_Zero(w, s)
                \/ Send_Complete(w, s)
                \/ Update_WorkerThread_Release(w, s)
                \/ Update_WorkerThread_Flag(w, s)
                \/ Update_WorkerThread_Free(w, s)

WorkerThread(w) ==
    \/ \E s \in Session : \/ Handle(w, s)
                          \/ \E o \in Outcome : GetQueuedCompletionStatus(w, s, o)
    \/ Update_WorkerThread_Exit(w)

SendStep(s) == \/ Update_SendThread_Check(s)
               \/ Send_Post_Dequeue(s)
               \/ Send_Post_Count(s)
               \/ Send_Post(s)
               \/ Send_Post_Fail(s)
               \/ Send_Post_Unsend(s)
               \/ Send_Post_Flag(s)

SendThread == Update_SendThread_Exit \/ \E s \in Session : Update_SendThread_Claim(s) \/ SendStep(s)

CallStep(t, s) == \/ SendPacket(t, s)
                  \/ SendPacket_Enqueue(t, s)
                  \/ Disconnect(t, s)
                  \/ Disconnect_Shutdown(t, s)
                  \/ Unreference(t, s)
                  \/ Unreference_Flag(t, s)

(* The frames of the Auth and Game threads visit every session.            *)
AuthFrame(s) == Auth_PacketProc_Logout(s) \/ Auth_LogoutProc(s) \/ Auth_LeaveProc(s)
GameFrame(s) == \/ Game_AuthToGameProc(s)
                \/ Game_PacketProc_Logout(s)
                \/ Game_LeaveProc(s)
                \/ Game_ReleaseProc(s)

Threads == \/ \E t \in Thread : \/ Update_Thread_Exit(t)
                                \/ \E s \in Session : Call(t, s) \/ CallStep(t, s)
           \/ \E s \in Session : \/ SetMode_GAME(s)
                                 \/ AuthFrame(s)
                                 \/ GameFrame(s)
                                 \/ ReleaseSession_Check(s)
                                 \/ ReleaseSession(s)

StopSteps == Stop_Shutdown \/ Stop_Listen \/ Stop_Accept \/ Stop_Send \/ Stop_Threads

Next == \/ AcceptThread
        \/ \E w \in Worker : WorkerThread(w)
        \/ SendThread
        \/ Threads
        \/ \E s \in Session : ClientCloses(s)
        \/ Stop
        \/ StopSteps

Spec == Init /\ [][Next]_vars

(* The loops of the threads visit every session again and again; a handler *)
(* goes on to its end; a posted operation of a closed connection, every    *)
(* send the port hears of, and every accept once the listen socket is      *)
(* closed, completes.  Clients, packets and failures are free.             *)
Exits == \/ \E w \in Worker : \/ Update_WorkerThread_Exit(w)
                              \/ /\ ~Listening
                                 /\ \E s \in Session : GetQueuedCompletionStatus(w, s, "refused")
         \/ Update_SendThread_Exit
         \/ \E t \in Thread : Update_Thread_Exit(t)

Completes(s, outcome) == \E w \in Worker : GetQueuedCompletionStatus(w, s, outcome)

Fairness ==
    /\ SF_vars(AcceptThread)
    /\ SF_vars(Exits)
    /\ WF_vars(StopSteps)
    /\ \A s \in Session :
         /\ \A w \in Worker : WF_vars(Handle(w, s))
         /\ \A t \in Thread : WF_vars(CallStep(t, s))
         /\ WF_vars(SendStep(s))
         /\ WF_vars(ReleaseSession_Check(s) \/ ReleaseSession(s))
         /\ SF_vars(AuthFrame(s))
         /\ SF_vars(GameFrame(s))
         /\ SF_vars(Completes(s, "closed"))
         /\ SF_vars(Completes(s, "sent"))

FairSpec == Spec /\ Fairness

-----------------------------------------------------------------------------
WorkerStep == {"idle", "handle", "port", "posted", "user", "release", "flag",
               "free", "exit"}
TaskStep   == {"idle", "SendPacket", "enqueue", "Disconnect", "shut", "unref",
               "flag", "ioCount", "ReleaseSession", "exit"}
SenderStep == {"idle", "check", "dequeue", "count", "send", "unsend",
               "unsend_last", "flag", "exit"}

(* Every variable stays within its type.                                   *)
TypeOK ==
    /\ session \in [Session -> SessionRec]
    /\ line \in [Session -> {"none", "open", "closed", "shut"}]
    /\ posted \in [Session -> [Op -> Nat]]
    /\ worker \in [Worker -> [step : WorkerStep, session : Session \cup {NoSession},
                              outcome : Outcome]]
    /\ task \in [Thread -> [step : TaskStep, session : Session \cup {NoSession},
                            packet : Client \cup {0}]]
    /\ sender \in [step : SenderStep, session : Session \cup {NoSession}]
    /\ acceptor \in {"check", "drowsy", "asleep", "go", "exit"}
    /\ main \in {"run", "off", "shut", "worker", "acceptor", "sender", "game",
                 "auth", "stopped"}
    /\ indexQueue \in Seq(Session)
    /\ curPosted \in Nat
    /\ curUser \in Nat
    /\ curID \in Nat
    /\ fails \in Nat
    /\ lost \subseteq Session
    /\ bound \subseteq Session
    /\ freed \in Nat
    /\ crash \in BOOLEAN

(* The threads that hold a reference to s at this moment.                  *)
HoldingWorkers(s) == {w \in Worker : worker[w].session = s
                                     /\ worker[w].step \in {"handle", "port", "posted",
                                                            "user", "release"}}
HoldingTasks(s)   == {t \in Thread : task[t].session = s
                                     /\ task[t].step \in {"enqueue", "shut", "unref"}}
Holders(s) == Cardinality(HoldingWorkers(s)) + Cardinality(HoldingTasks(s))
              + IF sender = [step |-> "send", session |-> s] THEN 1 ELSE 0

(* _ioCount is at any moment the pending operations and the threads that   *)
(* hold the session, however posts, completions, sends and disconnects of  *)
(* different threads mix: no reference is lost and none given back twice,  *)
(* so it never goes below zero and cCrashDump::Crash is not reached.       *)
IoCountExact ==
    /\ \A s \in Session :
         session[s].ioCount = posted[s]["accept"] + posted[s]["recv"] + posted[s]["send"]
                              + Holders(s)
    /\ ~crash

(* How often s is in the queue, waits for a client, or serves one.         *)
JoiningAt(s) == {w \in Joining : worker[w].session = s}
Places(s) == Cardinality({n \in DOMAIN indexQueue : indexQueue[n] = s})
             + posted[s]["accept"]
             + Cardinality(JoiningAt(s))
             + IF session[s].mode = "NONE" THEN 0 ELSE 1

(* A session is free in the queue, waiting for a client, or serving one,   *)
(* and only one of them: ReleaseSession never frees a session twice, and   *)
(* the accept thread never posts an accept for one in use.  A session whose*)
(* accept failed after it was posted, and no other, is in none of them: it *)
(* never serves again.                                                     *)
SessionInOnePlace ==
    Listening => \A s \in Session : Places(s) = IF s \in lost THEN 0 ELSE 1

(* The workers that have not yet lowered _curPostedAcceptEx, nor raised    *)
(* _curUser, for the client they let in.                                   *)
Unposted    == Joining \cup {w \in Worker : worker[w].step \in {"port", "posted"}}
Entering(s) == {w \in Worker : worker[w].session = s
                               /\ worker[w].step \in {"port", "posted", "user"}}

InUse     == {s \in Session : session[s].mode # "NONE"}
Served    == {s \in InUse : Entering(s) = {}}
Accepting == {s \in Session : posted[s]["accept"] > 0}

(* _curUser counts the sessions in use, but for those a worker is letting  *)
(* in; _curPostedAcceptEx the accepts that are pending or being handled,   *)
(* and those that failed, at once or when they completed: each of these    *)
(* costs the pool one accept for good.                                     *)
CountersExact ==
    /\ curUser = Cardinality(Served)
    /\ Listening => curPosted = fails + Cardinality(Unposted) + Cardinality(Accepting)

(* References, posted accepts and connected clients are counted exactly,   *)
(* at every access. (_ioCount, _curPostedAcceptEx, _curUser)                *)
CountsSound == TypeOK /\ IoCountExact /\ CountersExact

-----------------------------------------------------------------------------
(* What holds only when no thread is held up between two steps of a visit. *)

(* A session has one send under way at most.                               *)
OneSendAtATime == \A s \in Session : posted[s]["send"] <= 1

(* The packets of a send are kept until it completes, though the worker    *)
(* that drops the last reference frees what was sent.                      *)
PacketsKeptUntilSent ==
    \A s \in Session : posted[s]["send"] > 0 => session[s].sendPacketSize > 0

(* A session in the queue, or waiting for its next client, has nothing left*)
(* of the last one: no receive or send pending, no packet waiting.         *)
FreeSessionIsQuiet ==
    \A s \in Session :
      session[s].mode = "NONE" =>
        /\ posted[s]["recv"] = 0
        /\ posted[s]["send"] = 0
        /\ session[s].sendq = <<>>

(* What waits for a session or is being sent on it was meant for the client*)
(* it serves.                                                              *)
PacketsReachTheirClient ==
    \A s \in Session :
      LET r == session[s]
      IN  /\ \A n \in DOMAIN r.sendq : r.sendq[n] = r.clientID
          /\ r.sendPacketSize > 0 =>
               \A n \in DOMAIN r.packetBuffer : r.packetBuffer[n] = r.clientID

(* A session passes clean from one client to the next: what is sent goes   *)
(* to the client it is meant for, by one send at a time, from packets that *)
(* are kept until then, and nothing goes on in a session that is free.     *)
(* (Send_Post, InitBuffer, InitSession)                                    *)
SessionPassesClean ==
    OneSendAtATime /\ PacketsKeptUntilSent /\ FreeSessionIsQuiet /\ PacketsReachTheirClient

(* A session whose connection is down, or that waits for no more bytes,    *)
(* goes through the logout modes and is freed.                             *)
Ended(s) == /\ session[s].mode # "NONE"
            /\ line[s] # "open" \/ posted[s]["recv"] = 0
            /\ \A w \in Worker : worker[w].session # s

EndedSessionsAreFreed ==
    \A s \in Session : Ended(s) ~> session[s].mode = "NONE" \/ main # "run"

(* While the pool has room, a free session gets its accept.                *)
FreeSessionsGetAccept ==
    \A s \in Session :
      (\E n \in DOMAIN indexQueue : indexQueue[n] = s)
        ~> \/ posted[s]["accept"] > 0
           \/ curPosted >= MaxAcceptPool
           \/ main # "run"

(* Stop comes to its end, unless the accept thread sleeps when it is       *)
(* waited for: nothing wakes it then; or a session was released into the   *)
(* queue whose nodes were freed.                                           *)
StopEndsOrSleeps ==
    main = "off" ~> main = "stopped" \/ (main = "acceptor" /\ acceptor = "asleep") \/ Tied

=============================================================================
