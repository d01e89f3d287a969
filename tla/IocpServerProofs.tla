-------------------------- MODULE IocpServerProofs --------------------------
(* Proofs about two parts of the network library.                          *)
(*                                                                         *)
(* IocpServer, for any number of workers, callers, clients and failures,   *)
(* in both servers: every reference is counted, and unless one of the two  *)
(* races was run into a slot serves one client at a time, for that client  *)
(* only, and reports it gone for a cause.                                  *)
(*                                                                         *)
(* LockFreeQueue, called LF below, the queue such servers hand packets and *)
(* sessions through, for any number of producers, calls and nodes: nodes   *)
(* are neither shared nor lost, and it implements FifoQueue.               *)
EXTENDS IocpServer, QueuePromises, Queues, FiniteSetTheorems, WellFoundedInduction, TLAPS

-----------------------------------------------------------------------------
(* The size of a set when one element comes or goes.                       *)

(* Two sets that agree on all but one element.                             *)
LEMMA CountStep ==
    ASSUME NEW A, NEW B, NEW x, IsFiniteSet(A), A \ {x} = B \ {x}
    PROVE  /\ IsFiniteSet(B)
           /\ Cardinality(A) \in Nat /\ Cardinality(B) \in Nat
           /\ Cardinality(B) = Cardinality(A) + One(x \in B) - One(x \in A)
           /\ Cardinality(A) >= One(x \in A)
<1> DEFINE C == A \ {x}
<1>1. IsFiniteSet(C) /\ Cardinality(C) = Cardinality(A) - One(x \in A)
  BY FS_RemoveElement, FS_CardinalityType DEF One
<1>2. x \notin C
  OBVIOUS
<1>3. B = C \/ B = C \cup {x}
  OBVIOUS
<1>4. B = C <=> x \notin B
  OBVIOUS
<1> HIDE DEF C
<1>5. IsFiniteSet(C \cup {x}) /\ Cardinality(C \cup {x}) = Cardinality(C) + 1
  BY <1>1, <1>2, FS_AddElement
<1>6. Cardinality(A) \in Nat /\ Cardinality(C) \in Nat
  BY <1>1, FS_CardinalityType
<1>7. CASE x \in B
  <2>1. B = C \cup {x}
    BY <1>3, <1>4, <1>7
  <2> QED
    BY <1>1, <1>5, <1>6, <1>7, <2>1 DEF One
<1>8. CASE x \notin B
  BY <1>4, <1>8, <1>1, <1>6 DEF One
<1> QED
  BY <1>7, <1>8

-----------------------------------------------------------------------------
(* References and counters, whatever the threads run into.                  *)

Holders   == {t \in Thread : thread[t].pc \in Holding}
Accepting == {w \in Worker : At(w, "accepted")}

RefsExact ==
    client.ioCount = posted.accp + posted.recv + posted.send + posted.deadRecv
                     + posted.deadSend + off.ref + Cardinality(Holders)

AcceptsExact == Net => curPosted = posted.accp + off.posted + Cardinality(Accepting)

(* What a thread can be doing, and what it knows while it does it.          *)
LockSteps == {"check", "same", "locked"}
ThreadOK(t) ==
    /\ thread[t].gen <= curID
    /\ thread[t].call # "none" => t \in Caller /\ thread[t].id \in ID
    /\ thread[t].pc \in LockSteps => thread[t].call # "none"
    /\ thread[t].pc \in {"accepted", "sent"} => t \in Worker
ThreadsOK == \A t \in Thread : ThreadOK(t)

(* Every packet was given to sendPacket by a call of its own.               *)
ToSend == {t \in Thread : thread[t].call = "send" /\ thread[t].pc \in LockSteps}
CallsOK == packets + Cardinality(ToSend) <= calls

AcceptorOK ==
    /\ acceptor = "take" => Net /\ indexQueue > 0
    /\ Lan => indexQueue = 0

(* What was sent and what is to be sent is in the order of sendPacket.      *)
Numbered(s) ==
    /\ \A i \in DOMAIN s : s[i].n <= packets
    /\ \A i, j \in DOMAIN s : i < j => s[i].n < s[j].n
OrderOK == Numbered(wire \o client.sendq)

BaseInv == /\ TypeOK
           /\ RefsExact
           /\ AcceptsExact
           /\ ThreadsOK
           /\ CallsOK
           /\ AcceptorOK
           /\ OrderOK

-----------------------------------------------------------------------------
(* The life of a slot, as long as there was no race.                        *)

Used == client.clientID # 0

(* Nobody does anything for a client, and nothing of one is posted.         *)
Silent ==
    /\ \A t \in Thread : thread[t].pc \notin Locked \cup {"accepted", "sent"}
    /\ posted.recv = 0 /\ posted.send = 0

(* The threads that release the present connection.                         *)
Releases(t) == thread[t].gen = curID /\ thread[t].pc \in Releasing

(* The clients so far have left, but for the present one.                   *)
ClientsInv ==
    /\ Used => client.clientID = curID
    /\ left = IF Used THEN 1 .. (curID - 1) ELSE 1 .. curID
    /\ curUser = (IF Used /\ ~\E w \in Worker : At(w, "accepted") THEN 1 ELSE 0) - off.user

(* A slot is in one place: queued, listening, in use, or being released.    *)
PlaceInv ==
    /\ posted.accp + indexQueue <= 1
    /\ Used => posted.accp + indexQueue = 0
    /\ \A t \in Thread : thread[t].pc \in {"leave", "again"} =>
          /\ thread[t].gen = curID
          /\ client.bDisconnectNow
          /\ posted.accp + indexQueue = 0
          /\ thread[t].pc = "again" => ~Used
          /\ \A u \in Thread : thread[u].pc \in {"leave", "again"} => u = t
    /\ \A v, w \in Worker : At(v, "accepted") /\ At(w, "accepted") => v = w

(* bDisconnectNow is not set while it is in use, and before its first use:  *)
(* then only a worker whose accept was aborted can release it.              *)
FirstInv ==
    ~client.bDisconnectNow =>
        \/ Used
        \/ /\ curID = 0
           /\ \A t \in Thread : thread[t].pc # "idle" =>
                 /\ posted.accp + indexQueue = 0
                 /\ \A u \in Thread : thread[u].pc # "idle" => u = t

(* Who releases the connection has it for itself.  CNetServer bars the slot *)
(* before it looks at the count; in CLanServer a caller may come in later,  *)
(* which is the race "late".                                                *)
ReleaseInv ==
    /\ posted.deadRecv = 0 /\ posted.deadSend = 0
    /\ ~Used => Silent
    /\ \A t \in Thread : Releases(t) => Silent
    /\ Net => \A t \in Thread :
          /\ thread[t].pc = "count" /\ thread[t].gen = curID => client.bReadyToDisconnect
          /\ Releases(t) => /\ client.bReadyToDisconnect
                            /\ \A u \in Thread : thread[u].pc # "same"

(* While there is no reason to end it, a connection keeps its receive.      *)
EndInv ==
    /\ sock = "shut" => ended
    /\ sock = "listen" => ~Used
    /\ ~Used /\ curID > 0 => ended
    /\ Used /\ ~ended => posted.recv > 0 \/ \E w \in Worker : At(w, "accepted")

(* Callers hold the slot for their client, and what it has to send is for   *)
(* that client.                                                             *)
SentTo(s, id) == \A i \in DOMAIN s : s[i].to = id
OwnInv ==
    /\ \A t \in Caller : thread[t].pc \in Locked => client.clientID = thread[t].id
    /\ SentTo(wire \o client.sendq, curID)

(* bSend is set while somebody sends, and one does at a time.               *)
Sends(t) == thread[t].pc \in {"test", "take", "giveup", "sent"}
SendInv ==
    /\ posted.send <= 1
    /\ posted.send = 1 => client.bSend
    /\ \A t \in Thread : Sends(t) => /\ client.bSend
                                     /\ posted.send = 0
                                     /\ \A u \in Thread : Sends(u) => u = t

Slot == /\ ClientsInv
        /\ PlaceInv
        /\ FirstInv
        /\ ReleaseInv
        /\ EndInv
        /\ OwnInv
        /\ SendInv
SlotInv == NoRace => Slot

LateInv == "late" \in window => Lan \/ "overtaken" \in window

IInv == BaseInv /\ SlotInv /\ LateInv

-----------------------------------------------------------------------------
(* One thread moves.                                                        *)

Others(t) == \A u \in Thread \ {t} : thread'[u] = thread[u]

(* The threads are finitely many, so that they can be counted.              *)
LEMMA ThreadFinite == IsFiniteSet(Thread)
BY FS_Union, IocpServerAssumption DEF Thread

(* And so are those that hold a reference, accept or are to send.           *)
LEMMA CountsOfThreads ==
    /\ Cardinality(Holders) \in Nat /\ IsFiniteSet(Holders)
    /\ Cardinality(Accepting) \in Nat /\ IsFiniteSet(Accepting)
    /\ Cardinality(ToSend) \in Nat /\ IsFiniteSet(ToSend)
  BY ThreadFinite, FS_Subset, FS_CardinalityType DEF Holders, Accepting, ToSend, Thread

(* A thread that moves changes the three counts by itself.                  *)
LEMMA ThreadMoves ==
    ASSUME NEW t \in Thread, Others(t)
    PROVE  /\ Cardinality(Holders)' = Cardinality(Holders)
                + One(thread'[t].pc \in Holding) - One(thread[t].pc \in Holding)
           /\ Cardinality(ToSend)' = Cardinality(ToSend)
                + One(thread'[t].call = "send" /\ thread'[t].pc \in LockSteps)
                - One(thread[t].call = "send" /\ thread[t].pc \in LockSteps)
           /\ t \in Worker => Cardinality(Accepting)' = Cardinality(Accepting)
                + One(At(t, "accepted")') - One(At(t, "accepted"))
           /\ t \notin Worker => Cardinality(Accepting)' = Cardinality(Accepting)
<1>1. Cardinality(Holders)' = Cardinality(Holders)
                + One(thread'[t].pc \in Holding) - One(thread[t].pc \in Holding)
  <2>1. Holders \ {t} = Holders' \ {t}
    BY DEF Holders, Others
  <2>2. /\ (t \in Holders) = (thread[t].pc \in Holding)
        /\ (t \in Holders') = (thread'[t].pc \in Holding)
    BY DEF Holders
  <2>3. Cardinality(Holders') = Cardinality(Holders) + One(t \in Holders') - One(t \in Holders)
    BY <2>1, CountStep, CountsOfThreads
  <2>4. QED
    BY <2>2, <2>3
<1>2. Cardinality(ToSend)' = Cardinality(ToSend)
                + One(thread'[t].call = "send" /\ thread'[t].pc \in LockSteps)
                - One(thread[t].call = "send" /\ thread[t].pc \in LockSteps)
  <2>1. ToSend \ {t} = ToSend' \ {t}
    BY DEF ToSend, Others
  <2>2. /\ (t \in ToSend) = (thread[t].call = "send" /\ thread[t].pc \in LockSteps)
        /\ (t \in ToSend') = (thread'[t].call = "send" /\ thread'[t].pc \in LockSteps)
    BY DEF ToSend
  <2>3. Cardinality(ToSend') = Cardinality(ToSend) + One(t \in ToSend') - One(t \in ToSend)
    BY <2>1, CountStep, CountsOfThreads
  <2>4. QED
    BY <2>2, <2>3
<1>3. ASSUME t \in Worker
      PROVE  Cardinality(Accepting)' = Cardinality(Accepting)
                + One(At(t, "accepted")') - One(At(t, "accepted"))
  <2>1. Accepting \ {t} = Accepting' \ {t}
    BY DEF Accepting, Others, At, Thread
  <2>2. /\ (t \in Accepting) = At(t, "accepted")
        /\ (t \in Accepting') = At(t, "accepted")'
    BY <1>3 DEF Accepting, At
  <2>3. Cardinality(Accepting') = Cardinality(Accepting)
           + One(t \in Accepting') - One(t \in Accepting)
    BY <2>1, CountStep, CountsOfThreads
  <2>4. QED
    BY <2>2, <2>3
<1>4. ASSUME t \notin Worker PROVE Cardinality(Accepting)' = Cardinality(Accepting)
  BY <1>4 DEF Accepting, Others, At, Thread
<1>5. QED
  BY <1>1, <1>2, <1>3, <1>4

(* A thread that is counted makes the count at least one.                   *)
LEMMA Counted ==
    /\ \A t \in Thread : thread[t].pc \in Holding => Cardinality(Holders) >= 1
    /\ \A t \in Thread : thread[t].call = "send" /\ thread[t].pc \in LockSteps
           => Cardinality(ToSend) >= 1
    /\ \A w \in Worker : At(w, "accepted") => Cardinality(Accepting) >= 1
  BY CountStep, CountsOfThreads DEF Holders, One, ToSend, Accepting

-----------------------------------------------------------------------------
(* Types.                                                                   *)

PacketSeq == Seq(Packet)
ClientRec == [clientID : ID \cup {0}, ioCount : Nat, bSend : BOOLEAN,
              bReadyToDisconnect : BOOLEAN, bDisconnectNow : BOOLEAN,
              sendq : PacketSeq, packetBuffer : PacketSeq]
PC == Holding \cup Releasing \cup {"idle", "release", "count"}
ThreadRec == [pc : PC, id : ID \cup {0}, call : {"none", "send", "disconnect"},
              gen : 0 .. MaxClient]
PostedRec == [accp : Nat, recv : Nat, send : Nat, deadRecv : Nat, deadSend : Nat]
OffRec    == [ref : Nat, user : Nat, posted : Nat]

(* The parts of TypeOK that a step changes one at a time.                   *)
OtherTypes ==
    /\ kind \in Kind /\ serverOn \in BOOLEAN
    /\ sock \in {"none", "listen", "open", "shut", "closed"}
    /\ curID \in 0 .. MaxClient /\ curUser \in Int /\ curPosted \in Int
    /\ indexQueue \in Nat
    /\ acceptor \in {"check", "drowsy", "asleep", "take"}
    /\ calls \in 0 .. MaxCall /\ packets \in 0 .. MaxCall /\ faults \in 0 .. MaxFault
    /\ wire \in PacketSeq /\ left \subseteq ID /\ ended \in BOOLEAN
    /\ off \in OffRec
    /\ window \subseteq {"overtaken", "late", "early"}
Types == client \in ClientRec /\ thread \in [Thread -> ThreadRec] /\ posted \in PostedRec
         /\ OtherTypes

(* The posted operations are a record.                                      *)
LEMMA PostedIs == [{"accp", "recv", "send", "deadRecv", "deadSend"} -> Nat] = PostedRec
BY DEF PostedRec

(* The same types, in parts that the provers can take one at a time.        *)
LEMMA TypesIs == TypeOK <=> Types
BY PostedIs DEF TypeOK, Types, OtherTypes, ClientRec, ThreadRec, PC, OffRec, PacketSeq

(* No packet is a sequence of packets.                                      *)
LEMMA EmptyPackets == <<>> \in PacketSeq
BY DEF PacketSeq

(* The steps a thread can be at.                                            *)
LEMMA EveryPC ==
    /\ "idle" \in PC /\ "release" \in PC /\ "count" \in PC
    /\ "accepted" \in PC /\ "sent" \in PC /\ "check" \in PC /\ "same" \in PC /\ "unref" \in PC
    /\ "locked" \in PC /\ "look" \in PC /\ "claim" \in PC /\ "test" \in PC /\ "take" \in PC
    /\ "giveup" \in PC /\ "free" \in PC /\ "flag" \in PC /\ "leave" \in PC /\ "again" \in PC
BY DEF PC, Holding, Locked, Releasing

(* A thread goes to a step, or is done.                                     *)
LEMMA GotoMoves ==
    ASSUME Types, NEW t \in Thread, NEW pc \in PC, Goto(t, pc)
    PROVE  /\ thread' \in [Thread -> ThreadRec] /\ Others(t)
           /\ thread'[t] = [thread[t] EXCEPT !.pc = pc]
BY DEF Types, Goto, Others, ThreadRec

(* A thread that is done is idle.                                           *)
LEMMA FinishMoves ==
    ASSUME Types, NEW t \in Thread, Finish(t)
    PROVE  /\ thread' \in [Thread -> ThreadRec] /\ Others(t)
           /\ thread'[t] = Idle
  BY EveryPC, IocpServerAssumption DEF ThreadRec, Idle, Types, Finish, Others

(* A thread that gives its reference back is done, or releases the slot.    *)
LEMMA UnrefMoves ==
    ASSUME Types, NEW t \in Thread, Unref(t)
    PROVE  /\ thread' \in [Thread -> ThreadRec] /\ Others(t)
           /\ thread[t].pc = "unref"
           /\ thread'[t].pc \in {"idle", "release"}
           /\ thread'[t].id = 0 /\ thread'[t].call = "none"
           /\ thread'[t].gen \in {0, curID}
           /\ thread'[t].pc = "release" => thread'[t].gen = curID
<1> DEFINE released == [Idle EXCEPT !.pc = "release", !.gen = curID]
<1>1. Idle \in ThreadRec
  BY EveryPC, IocpServerAssumption DEF ThreadRec, Idle
<1>2. released \in ThreadRec
  BY <1>1, EveryPC DEF Types, OtherTypes, ThreadRec
<1>3. /\ Idle.pc = "idle" /\ Idle.id = 0 /\ Idle.call = "none" /\ Idle.gen = 0
      /\ released.pc = "release" /\ released.id = 0 /\ released.call = "none"
      /\ released.gen = curID
  BY DEF Idle
<1>4. thread' = [thread EXCEPT ![t] = IF client.ioCount > 1 THEN Idle ELSE released]
  BY DEF Unref
<1> HIDE DEF released
<1>5. thread' \in [Thread -> ThreadRec] /\ Others(t) /\ thread[t].pc = "unref"
  BY <1>1, <1>2, <1>4 DEF Types, Others, Unref, At
<1>6. thread'[t] = Idle \/ thread'[t] = released
  BY <1>4 DEF Types
<1>7. QED
  BY <1>3, <1>5, <1>6

(* A thread that finds the slot in use is done, else it goes on to release. *)
LEMMA CountMoves ==
    ASSUME Types, NEW t \in Thread, ReleaseSession_Count(t)
    PROVE  /\ thread' \in [Thread -> ThreadRec] /\ Others(t)
           /\ thread[t].pc = "count"
           /\ thread'[t].pc \in {"idle", "free", "flag"}
           /\ InUse => thread'[t] = Idle /\ thread'[t].pc = "idle" /\ thread'[t].call = "none"
                       /\ thread'[t].gen = 0
           /\ ~InUse => thread'[t].gen = curID /\ thread'[t].call = thread[t].call
                        /\ thread'[t].id = thread[t].id
<1> DEFINE releases == [thread[t] EXCEPT !.pc = IF Net THEN "free" ELSE "flag", !.gen = curID]
<1>1. Idle \in ThreadRec
  BY EveryPC, IocpServerAssumption DEF ThreadRec, Idle
<1>2. releases \in ThreadRec
  BY EveryPC DEF Types, OtherTypes, ThreadRec
<1>3. Idle.pc = "idle" /\ Idle.call = "none" /\ Idle.gen = 0
  BY DEF Idle
<1>4. /\ releases.pc \in {"free", "flag"} /\ releases.gen = curID
      /\ releases.call = thread[t].call /\ releases.id = thread[t].id
  BY DEF Types, ThreadRec
<1>5. thread' = [thread EXCEPT ![t] = IF InUse THEN Idle ELSE releases]
  BY DEF ReleaseSession_Count
<1> HIDE DEF releases
<1>6. /\ thread' \in [Thread -> ThreadRec] /\ Others(t) /\ thread[t].pc = "count"
      /\ InUse => thread'[t] = Idle
      /\ ~InUse => thread'[t] = releases
  BY <1>1, <1>2, <1>5 DEF Types, Others, ReleaseSession_Count, At
<1>7. QED
  BY <1>3, <1>4, <1>6

(* A caller that takes a reference knows whom it is for.                    *)
LEMMA AcquireMoves ==
    ASSUME Types, NEW t \in Caller, NEW id \in ID, NEW call \in {"send", "disconnect"},
           AcquireSessionLock(t, id, call)
    PROVE  /\ t \in Thread /\ thread' \in [Thread -> ThreadRec] /\ Others(t)
           /\ thread[t].pc = "idle"
           /\ thread'[t].pc \in {"unref", "check"}
           /\ client.ioCount = 0 => thread'[t].pc = "unref"
           /\ thread'[t].id = id /\ thread'[t].call = call /\ thread'[t].gen = 0
<1> DEFINE asks == [pc |-> IF client.ioCount = 0 THEN "unref" ELSE "check",
                    id |-> id, call |-> call, gen |-> 0]
<1>1. asks \in ThreadRec /\ t \in Thread
  BY EveryPC, IocpServerAssumption DEF ThreadRec, Thread
<1>2. /\ asks.pc \in {"unref", "check"}
      /\ client.ioCount = 0 => asks.pc = "unref"
      /\ asks.id = id /\ asks.call = call /\ asks.gen = 0
  OBVIOUS
<1>3. thread' = [thread EXCEPT ![t] = asks]
  BY DEF AcquireSessionLock
<1> HIDE DEF asks
<1>4. /\ thread' \in [Thread -> ThreadRec] /\ Others(t) /\ thread[t].pc = "idle"
      /\ thread'[t] = asks
  BY <1>1, <1>3 DEF Types, Others, AcquireSessionLock, At
<1>5. QED
  BY <1>1, <1>2, <1>4

(* The threads keep their type.                                             *)
LEMMA ThreadTypes ==
    ASSUME Types, [Next]_vars
    PROVE  thread' \in [Thread -> ThreadRec]
<1>0. Types /\ MaxClient \in Nat
  BY IocpServerAssumption
<1>1. CASE ServerStarted \/ PeerClose \/ UNCHANGED vars
  BY <1>0, <1>1 DEF ServerStarted, PeerClose, vars, Types
<1>2. ASSUME NEW w \in Worker, Complete(w)
      PROVE  thread' \in [Thread -> ThreadRec]
  <2>1. CASE Accp_Complete(w)
    BY <1>0, <2>1, GotoMoves, EveryPC DEF Accp_Complete, Thread
  <2>2. CASE Accp_Aborted(w)
    BY <1>0, <2>2, GotoMoves, EveryPC DEF Accp_Aborted, Thread, Types
  <2>3. CASE Recv_Complete(w)
    BY <1>0, <2>3, GotoMoves, EveryPC DEF Recv_Complete, Thread
  <2>4. CASE Recv_Complete_Bad(w)
    BY <1>0, <2>4, GotoMoves, EveryPC DEF Recv_Complete_Bad, Thread
  <2>5. CASE Recv_Zero(w)
    BY <1>0, <2>5, GotoMoves, EveryPC DEF Recv_Zero, Thread
  <2>6. CASE Send_Complete(w)
    BY <1>0, <2>6, GotoMoves, EveryPC DEF Send_Complete, Thread
  <2>7. CASE Send_Zero(w)
    BY <1>0, <2>7, GotoMoves, EveryPC DEF Send_Zero, Thread
  <2>8. QED
    BY <1>2, <2>1, <2>2, <2>3, <2>4, <2>5, <2>6, <2>7 DEF Complete
<1>3. ASSUME NEW t \in Caller, NEW id \in ID, NEW call \in {"send", "disconnect"},
             AcquireSessionLock(t, id, call)
      PROVE  thread' \in [Thread -> ThreadRec]
  BY <1>0, <1>3, AcquireMoves DEF AcquireSessionLock
<1>4. ASSUME NEW t \in Thread, Step(t)
      PROVE  thread' \in [Thread -> ThreadRec]
  <2>1. CASE t \in Worker /\ Accp_Complete_Join(t)
    BY <1>0, <2>1, GotoMoves, EveryPC DEF Accp_Complete_Join, Thread
  <2>2. CASE t \in Worker /\ Send_Complete_Next(t)
    BY <1>0, <2>2, GotoMoves, EveryPC DEF Send_Complete_Next, Thread
  <2>3. CASE AcquireSessionLock_Ready(t)
    BY <1>0, <2>3, GotoMoves, EveryPC DEF AcquireSessionLock_Ready, Thread
  <2>4. CASE AcquireSessionLock_Same(t)
    BY <1>0, <2>4, GotoMoves, EveryPC DEF AcquireSessionLock_Same, Thread
  <2>5. CASE SendPacket(t)
    BY <1>0, <2>5, GotoMoves, EveryPC DEF SendPacket, Thread
  <2>6. CASE Disconnect(t)
    BY <1>0, <2>6, GotoMoves, EveryPC DEF Disconnect, Thread
  <2>7. CASE Send_Post_Look(t)
    BY <1>0, <2>7, GotoMoves, EveryPC DEF Send_Post_Look, Thread
  <2>8. CASE Send_Post_Claim(t)
    BY <1>0, <2>8, GotoMoves, EveryPC DEF Send_Post_Claim, Thread
  <2>9. CASE Send_Post_Test(t)
    BY <1>0, <2>9, GotoMoves, EveryPC DEF Send_Post_Test, Thread
  <2>10. CASE Send_Post_GiveUp(t)
    BY <1>0, <2>10, GotoMoves, EveryPC DEF Send_Post_GiveUp, Thread
  <2>11. CASE Send_Post(t)
    BY <1>0, <2>11, GotoMoves, EveryPC DEF Send_Post, Thread
  <2>12. CASE Send_Post_Fail(t)
    BY <1>0, <2>12, GotoMoves, EveryPC DEF Send_Post_Fail, Thread
  <2>13. CASE Unref(t)
    BY <1>0, <2>13, UnrefMoves DEF Unref
  <2>14. CASE ReleaseSession(t)
    BY <1>0, <2>14, GotoMoves, EveryPC DEF ReleaseSession, Thread
  <2>15. CASE ReleaseSession_Count(t)
    BY <1>0, <2>15, CountMoves DEF ReleaseSession_Count
  <2>16. CASE ReleaseSession_Free(t)
    BY <1>0, <2>16, GotoMoves, EveryPC DEF ReleaseSession_Free, Thread
  <2>17. CASE ReleaseSession_Flag(t)
    BY <1>0, <2>17, GotoMoves, FinishMoves, EveryPC DEF ReleaseSession_Flag
  <2>18. CASE ReleaseSession_Leave(t)
    BY <1>0, <2>18, GotoMoves, EveryPC DEF ReleaseSession_Leave, Thread
  <2>19. CASE ReleaseSession_Again_Net(t)
    BY <1>0, <2>19, FinishMoves DEF ReleaseSession_Again_Net
  <2>20. CASE ReleaseSession_Again_Lan(t)
    BY <1>0, <2>20, FinishMoves DEF ReleaseSession_Again_Lan
  <2>21. QED
    BY <1>4, <2>1, <2>2, <2>3, <2>4, <2>5, <2>6, <2>7, <2>8, <2>9, <2>10, <2>11, <2>12,
       <2>13, <2>14, <2>15, <2>16, <2>17, <2>18, <2>19, <2>20 DEF Step
<1>5. CASE Update_AcceptThread
  BY <1>0, <1>5 DEF Update_AcceptThread_Check, Update_AcceptThread_Sleep,
     Update_AcceptThread_Accept, Types, Update_AcceptThread
<1>6. QED
  BY <1>1, <1>2, <1>3, <1>4, <1>5 DEF Next

(* Who holds a reference is counted; when none is counted there is none.    *)
LEMMA HolderCounts ==
    ASSUME BaseInv
    PROVE  /\ \A t \in Thread : thread[t].pc \in Holding => client.ioCount >= 1
           /\ client.ioCount = 0 =>
                /\ \A t \in Thread : thread[t].pc \notin Holding
                /\ posted = [accp |-> 0, recv |-> 0, send |-> 0, deadRecv |-> 0, deadSend |-> 0]
<1>1. /\ Types /\ RefsExact /\ Cardinality(Holders) \in Nat
      /\ \A t \in Thread : thread[t].pc \in Holding => Cardinality(Holders) >= 1
  BY TypesIs, Counted, CountsOfThreads DEF BaseInv
<1>2. /\ posted \in PostedRec /\ off.ref \in Nat /\ client.ioCount \in Nat
  BY <1>1 DEF Types, OtherTypes, ClientRec, OffRec
<1>3. /\ posted.accp \in Nat /\ posted.recv \in Nat /\ posted.send \in Nat
      /\ posted.deadRecv \in Nat /\ posted.deadSend \in Nat
  BY <1>2 DEF PostedRec
<1>4. /\ Cardinality(Holders) >= 1 => client.ioCount >= 1
      /\ client.ioCount = 0 =>
           /\ Cardinality(Holders) = 0
           /\ posted.accp = 0 /\ posted.recv = 0 /\ posted.send = 0
           /\ posted.deadRecv = 0 /\ posted.deadSend = 0
  <2> DEFINE a == posted.accp
             r == posted.recv
             s == posted.send
             dr == posted.deadRecv
             ds == posted.deadSend
             o == off.ref
             h == Cardinality(Holders)
  <2>1. client.ioCount = a + r + s + dr + ds + o + h
    BY <1>1 DEF RefsExact
  <2>2. a \in Nat /\ r \in Nat /\ s \in Nat /\ dr \in Nat /\ ds \in Nat /\ o \in Nat /\ h \in Nat
    BY <1>1, <1>2, <1>3
  <2> HIDE DEF a, r, s, dr, ds, o, h
  <2>3. /\ h >= 1 => a + r + s + dr + ds + o + h >= 1
        /\ a + r + s + dr + ds + o + h = 0 =>
             a = 0 /\ r = 0 /\ s = 0 /\ dr = 0 /\ ds = 0 /\ h = 0
    BY <2>2
  <2>4. QED
    BY <2>1, <2>3 DEF a, r, s, dr, ds, h
<1>5. client.ioCount = 0 =>
        posted = [accp |-> 0, recv |-> 0, send |-> 0, deadRecv |-> 0, deadSend |-> 0]
  BY <1>2, <1>4 DEF PostedRec
<1>6. client.ioCount = 0 => \A t \in Thread : thread[t].pc \notin Holding
  BY <1>1, <1>4
<1>7. QED
  BY <1>1, <1>4, <1>5, <1>6

(* A packet that is sent has a call of its own, and a client.               *)
LEMMA NewPacket ==
    ASSUME BaseInv, NEW t \in Thread, SendPacket(t)
    PROVE  /\ packets + 1 \in 1 .. MaxCall /\ packets + 1 <= calls
           /\ thread[t].id \in ID
           /\ [to |-> thread[t].id, n |-> packets + 1] \in Packet
<1>1. /\ Types /\ ThreadsOK /\ CallsOK /\ Cardinality(ToSend) \in Nat
      /\ thread[t].call = "send" /\ thread[t].pc = "locked"
  BY TypesIs, CountsOfThreads DEF BaseInv, SendPacket, At
<1>2. Cardinality(ToSend) >= 1
  BY <1>1, Counted DEF LockSteps
<1>3. packets + 1 \in 1 .. MaxCall /\ packets + 1 <= calls
  BY <1>1, <1>2, IocpServerAssumption DEF Types, OtherTypes, CallsOK
<1>4. thread[t].id \in ID
  BY <1>1 DEF ThreadsOK, ThreadOK
<1>5. QED
  BY <1>3, <1>4 DEF Packet

(* The client keeps its type: ioCount does not fall below zero.             *)
LEMMA ClientTypes ==
    ASSUME BaseInv, [Next]_vars
    PROVE  client' \in ClientRec
<1>0. Types /\ <<>> \in PacketSeq /\ MaxClient \in Nat
  BY TypesIs, IocpServerAssumption, EmptyPackets DEF BaseInv
<1>1. CASE ServerStarted \/ PeerClose \/ UNCHANGED vars
  BY <1>0, <1>1 DEF ServerStarted, PeerClose, vars, slotVars, Types
<1>2. ASSUME NEW w \in Worker, Complete(w)
      PROVE  client' \in ClientRec
  <2>1. CASE \/ Accp_Aborted(w)
             \/ Recv_Complete_Bad(w)
             \/ Recv_Zero(w)
             \/ Send_Zero(w)
    BY <1>0, <2>1 DEF Accp_Aborted, Recv_Complete_Bad, Recv_Zero, Send_Zero, slotVars, Types
  <2>2. CASE Accp_Complete(w)
    <3>1. curID + 1 \in ID \cup {0} /\ FreeSentPacket(client).packetBuffer \in PacketSeq
      BY <1>0, <2>2 DEF Accp_Complete, Types, OtherTypes, ClientRec, ID, FreeSentPacket
    <3>2. client' = [Joining(client) EXCEPT !.clientID = curID + 1]
      BY <2>2 DEF Accp_Complete
    <3>3. Joining(client) \in ClientRec
      BY <1>0, <3>1 DEF Joining, Types, ClientRec
    <3>4. QED
      BY <3>1, <3>2, <3>3 DEF ClientRec
  <2>3. CASE Recv_Complete(w)
    BY <1>0, <2>3 DEF Recv_Complete, Types, ClientRec
  <2>4. CASE Send_Complete(w)
    BY <1>0, <2>4 DEF Send_Complete, FreeSentPacket, Types, ClientRec
  <2>5. QED
    BY <1>2, <2>1, <2>2, <2>3, <2>4 DEF Complete
<1>3. ASSUME NEW t \in Caller, NEW id \in ID, NEW call \in {"send", "disconnect"},
             AcquireSessionLock(t, id, call)
      PROVE  client' \in ClientRec
  BY <1>0, <1>3 DEF AcquireSessionLock, Types, ClientRec
<1>4. ASSUME NEW t \in Thread, Step(t)
      PROVE  client' \in ClientRec
  <2>1. CASE \/ AcquireSessionLock_Ready(t)
             \/ AcquireSessionLock_Same(t)
             \/ Disconnect(t)
             \/ Send_Post_Look(t)
             \/ Send_Post_Test(t)
             \/ ReleaseSession_Count(t)
             \/ ReleaseSession_Again_Net(t)
    BY <1>0, <2>1 DEF AcquireSessionLock_Ready, AcquireSessionLock_Same, Disconnect,
       Send_Post_Look, Send_Post_Test, ReleaseSession_Count, ReleaseSession_Again_Net,
       slotVars, Types
  <2>2. CASE t \in Worker /\ Accp_Complete_Join(t)
    BY <1>0, <2>2 DEF Accp_Complete_Join, Types, ClientRec
  <2>3. CASE t \in Worker /\ Send_Complete_Next(t)
    BY <1>0, <2>3 DEF Send_Complete_Next, Types, ClientRec
  <2>4. CASE SendPacket(t)
    <3>1. Append(client.sendq, [to |-> thread[t].id, n |-> packets + 1]) \in PacketSeq
      BY <1>0, <2>4, NewPacket DEF Types, ClientRec, PacketSeq
    <3>2. QED
      BY <1>0, <2>4, <3>1 DEF SendPacket, Types, ClientRec
  <2>5. CASE Send_Post_Claim(t)
    BY <1>0, <2>5 DEF Send_Post_Claim, Types, ClientRec
  <2>6. CASE Send_Post_GiveUp(t)
    BY <1>0, <2>6 DEF Send_Post_GiveUp, Types, ClientRec
  <2>7. CASE Send_Post(t)
    <3>1. client' = Sending(client)
      BY <2>7 DEF Send_Post
    <3>2. /\ client \in ClientRec /\ client.ioCount + 1 \in Nat
          /\ client.sendq \in PacketSeq /\ <<>> \in PacketSeq
      BY <1>0 DEF Types, ClientRec
    <3>3. client' = [client EXCEPT !.sendq = <<>>, !.packetBuffer = client.sendq,
                                   !.ioCount = client.ioCount + 1]
      BY <3>1 DEF Sending
    <3>4. QED
      BY <3>2, <3>3 DEF ClientRec
  <2>8. CASE Send_Post_Fail(t)
    BY <1>0, <2>8 DEF Send_Post_Fail, FreeSentPacket, Types, ClientRec
  <2>9. CASE Unref(t)
    <3>1. client.ioCount >= 1
      BY <2>9, UnrefMoves, HolderCounts, <1>0 DEF Holding
    <3>2. QED
      BY <1>0, <2>9, <3>1 DEF Unref, Types, ClientRec
  <2>10. CASE ReleaseSession(t)
    BY <1>0, <2>10 DEF ReleaseSession, Net, Types, ClientRec
  <2>11. CASE ReleaseSession_Free(t)
    BY <1>0, <2>11 DEF ReleaseSession_Free, Types, ClientRec
  <2>12. CASE ReleaseSession_Flag(t)
    BY <1>0, <2>12 DEF ReleaseSession_Flag, Types, ClientRec
  <2>13. CASE ReleaseSession_Leave(t)
    BY <1>0, <2>13 DEF ReleaseSession_Leave, Types, ClientRec
  <2>14. CASE ReleaseSession_Again_Lan(t)
    BY <1>0, <2>14 DEF ReleaseSession_Again_Lan, slotVars, Types, ClientRec
  <2>15. QED
    BY <1>4, <2>1, <2>2, <2>3, <2>4, <2>5, <2>6, <2>7, <2>8, <2>9, <2>10, <2>11, <2>12, <2>13,
       <2>14 DEF Step
<1>5. CASE Update_AcceptThread
  BY <1>0, <1>5 DEF Update_AcceptThread_Check, Update_AcceptThread_Sleep, slotVars, Types,
     Update_AcceptThread_Accept, ClientRec, Update_AcceptThread
<1>6. QED
  BY <1>1, <1>2, <1>3, <1>4, <1>5 DEF Next

(* What is posted keeps its type.                                           *)
LEMMA PostedTypes ==
    ASSUME Types, [Next]_vars
    PROVE  posted' \in PostedRec
<1>0. Types
  OBVIOUS
<1>1. CASE ServerStarted \/ PeerClose \/ UNCHANGED vars
  BY <1>0, <1>1 DEF ServerStarted, PeerClose, vars, Types, PostedRec, Types, slotVars
<1>2. ASSUME NEW w \in Worker, Complete(w)
      PROVE  posted' \in PostedRec
  <2>1. CASE Recv_Complete(w)
    BY <1>0, <2>1 DEF Recv_Complete, Types, slotVars
  <2>2. CASE Accp_Complete(w)
    BY <1>0, <2>2 DEF Accp_Complete, Types, PostedRec
  <2>3. CASE Accp_Aborted(w)
    BY <1>0, <2>3 DEF Accp_Aborted, Types, PostedRec
  <2>4. CASE Recv_Complete_Bad(w)
    BY <1>0, <2>4 DEF Recv_Complete_Bad, Types, PostedRec
  <2>5. CASE Recv_Zero(w)
    BY <1>0, <2>5 DEF Recv_Zero, Types, PostedRec
  <2>6. CASE Send_Complete(w)
    BY <1>0, <2>6 DEF Send_Complete, Types, PostedRec
  <2>7. CASE Send_Zero(w)
    BY <1>0, <2>7 DEF Send_Zero, Types, PostedRec
  <2>8. QED
    BY <1>2, <2>1, <2>2, <2>3, <2>4, <2>5, <2>6, <2>7 DEF Complete
<1>3. ASSUME NEW t \in Caller, NEW id \in ID, NEW call \in {"send", "disconnect"},
             AcquireSessionLock(t, id, call)
      PROVE  posted' \in PostedRec
  BY <1>0, <1>3 DEF AcquireSessionLock, Types, PostedRec
<1>4. ASSUME NEW t \in Thread, Step(t)
      PROVE  posted' \in PostedRec
  <2>1. CASE \/ Send_Complete_Next(t)
             \/ AcquireSessionLock_Ready(t)
             \/ AcquireSessionLock_Same(t)
             \/ SendPacket(t)
             \/ Disconnect(t)
             \/ Send_Post_Look(t)
             \/ Send_Post_Claim(t)
             \/ Send_Post_Test(t)
             \/ Send_Post_GiveUp(t)
             \/ Send_Post_Fail(t)
             \/ Unref(t)
             \/ ReleaseSession(t)
             \/ ReleaseSession_Count(t)
             \/ ReleaseSession_Free(t)
             \/ ReleaseSession_Flag(t)
             \/ ReleaseSession_Again_Net(t)
    BY <1>0, <2>1 DEF Send_Complete_Next, AcquireSessionLock_Ready, AcquireSessionLock_Same,
       SendPacket, Disconnect, Send_Post_Look, Send_Post_Claim, Send_Post_Test,
       Send_Post_GiveUp, Send_Post_Fail, Unref, ReleaseSession, ReleaseSession_Count,
       ReleaseSession_Free, ReleaseSession_Flag, ReleaseSession_Again_Net, Types, slotVars
  <2>2. CASE t \in Worker /\ Accp_Complete_Join(t)
    BY <1>0, <2>2 DEF Accp_Complete_Join, Types, PostedRec
  <2>3. CASE Send_Post(t)
    BY <1>0, <2>3 DEF Send_Post, Types, PostedRec
  <2>4. CASE ReleaseSession_Leave(t)
    <3>1. posted.deadRecv + posted.recv \in Nat /\ posted.deadSend + posted.send \in Nat
      BY <1>0 DEF Types, PostedRec
    <3>2. QED
      BY <1>0, <2>4, <3>1 DEF ReleaseSession_Leave, Types, PostedRec
  <2>5. CASE ReleaseSession_Again_Lan(t)
    BY <1>0, <2>5 DEF ReleaseSession_Again_Lan, Types, PostedRec, slotVars
  <2>6. QED
    BY <1>4, <2>1, <2>2, <2>3, <2>4, <2>5 DEF Step
<1>5. CASE Update_AcceptThread
  BY <1>0, <1>5 DEF Update_AcceptThread_Check, Update_AcceptThread_Sleep, Types, slotVars,
     Update_AcceptThread_Accept, PostedRec, Update_AcceptThread
<1>6. QED
  BY <1>1, <1>2, <1>3, <1>4, <1>5 DEF Next

(* So do the other variables.                                               *)
LEMMA OtherTypesNext ==
    ASSUME BaseInv, [Next]_vars
    PROVE  OtherTypes'
<1>0. Types /\ AcceptorOK /\ <<>> \in PacketSeq
      /\ MaxClient \in Nat /\ MaxCall \in Nat /\ MaxFault \in Nat
  BY TypesIs, IocpServerAssumption, EmptyPackets DEF BaseInv
<1>1. CASE ServerStarted \/ PeerClose \/ UNCHANGED vars
  BY <1>0, <1>1 DEF ServerStarted, PeerClose, vars, Types, OtherTypes, OffRec, Shutdown, Wake,
     Fault, Overtaken, slotVars, serverVars, history
<1>2. ASSUME NEW w \in Worker, Complete(w)
      PROVE  OtherTypes'
  <2>1. CASE Accp_Complete(w)
    <3>1. curID + 1 \in 0 .. MaxClient
      BY <1>0, <2>1 DEF Accp_Complete, Types, OtherTypes
    <3>2. QED
      BY <1>0, <2>1, <3>1 DEF Accp_Complete, Types, OtherTypes, serverVars
  <2>2. CASE Accp_Aborted(w)
    BY <1>0, <2>2 DEF Accp_Aborted, Types, OtherTypes, OffRec, Shutdown, Wake, Fault,
       Overtaken, slotVars, serverVars, history
  <2>3. CASE Recv_Complete(w)
    BY <1>0, <2>3 DEF Recv_Complete, Types, OtherTypes, OffRec, Shutdown, Wake, Fault,
       Overtaken, slotVars, serverVars, history
  <2>4. CASE Recv_Complete_Bad(w)
    BY <1>0, <2>4 DEF Recv_Complete_Bad, Types, OtherTypes, OffRec, Shutdown, Wake, Fault,
       Overtaken, slotVars, serverVars, history
  <2>5. CASE Recv_Zero(w)
    BY <1>0, <2>5 DEF Recv_Zero, Types, OtherTypes, OffRec, Shutdown, Wake, Fault, Overtaken,
       slotVars, serverVars, history
  <2>6. CASE Send_Complete(w)
    BY <1>0, <2>6 DEF Send_Complete, Types, OtherTypes, OffRec, Shutdown, Wake, Fault,
       Overtaken, slotVars, serverVars, history
  <2>7. CASE Send_Zero(w)
    BY <1>0, <2>7 DEF Send_Zero, Types, OtherTypes, OffRec, Shutdown, Wake, Fault, Overtaken,
       slotVars, serverVars, history
  <2>8. QED
    BY <1>2, <2>1, <2>2, <2>3, <2>4, <2>5, <2>6, <2>7 DEF Complete
<1>3. ASSUME NEW t \in Caller, NEW id \in ID, NEW call \in {"send", "disconnect"},
             AcquireSessionLock(t, id, call)
      PROVE  OtherTypes'
  BY <1>0, <1>3 DEF AcquireSessionLock, Types, OtherTypes, OffRec, Shutdown, Wake, Fault,
     Overtaken, slotVars, serverVars, history
<1>4. ASSUME NEW t \in Thread, Step(t)
      PROVE  OtherTypes'
  <2>1. CASE t \in Worker /\ Accp_Complete_Join(t)
    <3>1. curUser + 1 \in Int /\ Accepted(curPosted) \in Int
      BY <1>0 DEF Accepted, Types, OtherTypes
    <3>2. acceptor' \in {"check", "drowsy", "asleep", "take"}
      BY <1>0, <2>1 DEF Accp_Complete_Join, Types, OtherTypes, Wake
    <3>3. (faults' = faults /\ ended' = ended) \/ (Fault /\ ended' = TRUE)
      BY <2>1 DEF Accp_Complete_Join
    <3>4. faults' \in 0 .. MaxFault
      BY <1>0, <3>3 DEF Types, OtherTypes, Fault
    <3>5. ended' \in BOOLEAN
      BY <1>0, <3>3 DEF Types, OtherTypes
    <3>6. QED
      BY <1>0, <2>1, <3>1, <3>2, <3>4, <3>5 DEF Accp_Complete_Join, Types, OtherTypes
  <2>2. CASE t \in Worker /\ Send_Complete_Next(t)
    BY <1>0, <2>2 DEF Send_Complete_Next, Types, OtherTypes, OffRec, Shutdown, Wake, Fault,
       Overtaken, slotVars, serverVars, history
  <2>3. CASE AcquireSessionLock_Ready(t)
    BY <1>0, <2>3 DEF AcquireSessionLock_Ready, Types, OtherTypes, OffRec, Shutdown, Wake,
       Fault, Overtaken, slotVars, serverVars, history
  <2>4. CASE AcquireSessionLock_Same(t)
    BY <1>0, <2>4 DEF AcquireSessionLock_Same, Types, OtherTypes, OffRec, Shutdown, Wake,
       Fault, Overtaken, slotVars, serverVars, history
  <2>5. CASE SendPacket(t)
    BY <1>0, <2>5, NewPacket DEF SendPacket, Types, OtherTypes, OffRec, Shutdown, Wake, Fault,
       Overtaken, slotVars, serverVars, history
  <2>6. CASE Disconnect(t)
    BY <1>0, <2>6 DEF Disconnect, Types, OtherTypes, OffRec, Shutdown, Wake, Fault, Overtaken,
       slotVars, serverVars, history
  <2>7. CASE Send_Post_Look(t)
    BY <1>0, <2>7 DEF Send_Post_Look, Types, OtherTypes, OffRec, Shutdown, Wake, Fault,
       Overtaken, slotVars, serverVars, history
  <2>8. CASE Send_Post_Claim(t)
    BY <1>0, <2>8 DEF Send_Post_Claim, Types, OtherTypes, OffRec, Shutdown, Wake, Fault,
       Overtaken, slotVars, serverVars, history
  <2>9. CASE Send_Post_Test(t)
    BY <1>0, <2>9 DEF Send_Post_Test, Types, OtherTypes, OffRec, Shutdown, Wake, Fault,
       Overtaken, slotVars, serverVars, history
  <2>10. CASE Send_Post_GiveUp(t)
    BY <1>0, <2>10 DEF Send_Post_GiveUp, Types, OtherTypes, OffRec, Shutdown, Wake, Fault,
       Overtaken, slotVars, serverVars, history
  <2>11. CASE Send_Post(t)
    BY <1>0, <2>11 DEF Send_Post, Types, OtherTypes, OffRec, Shutdown, Wake, Fault, Overtaken,
       slotVars, serverVars, history, ClientRec, PacketSeq
  <2>12. CASE Send_Post_Fail(t)
    BY <1>0, <2>12 DEF Send_Post_Fail, Types, OtherTypes, OffRec, Shutdown, Wake, Fault,
       Overtaken, slotVars, serverVars, history
  <2>13. CASE Unref(t)
    BY <1>0, <2>13 DEF Unref, Types, OtherTypes, OffRec, Shutdown, Wake, Fault, Overtaken,
       slotVars, serverVars, history
  <2>14. CASE ReleaseSession(t)
    BY <1>0, <2>14 DEF ReleaseSession, Types, OtherTypes, OffRec, Shutdown, Wake, Fault,
       Overtaken, slotVars, serverVars, history
  <2>15. CASE ReleaseSession_Count(t)
    BY <1>0, <2>15 DEF ReleaseSession_Count, Types, OtherTypes, OffRec, Shutdown, Wake, Fault,
       Overtaken, slotVars, serverVars, history
  <2>16. CASE ReleaseSession_Free(t)
    BY <1>0, <2>16 DEF ReleaseSession_Free, Types, OtherTypes, OffRec, Shutdown, Wake, Fault,
       Overtaken, slotVars, serverVars, history
  <2>17. CASE ReleaseSession_Flag(t)
    BY <1>0, <2>17 DEF ReleaseSession_Flag, Types, OtherTypes, OffRec, Shutdown, Wake, Fault,
       Overtaken, slotVars, serverVars, history
  <2>18. CASE ReleaseSession_Leave(t)
    <3>1. client.clientID \in ID \cup {0}
      BY <1>0 DEF Types, ClientRec
    <3>2. off' \in OffRec
      BY <1>0, <2>18 DEF ReleaseSession_Leave, Types, OtherTypes, OffRec
    <3>3. left' \subseteq ID
      BY <1>0, <2>18, <3>1 DEF ReleaseSession_Leave, Types, OtherTypes
    <3>4. QED
      BY <1>0, <2>18, <3>2, <3>3 DEF ReleaseSession_Leave, Types, OtherTypes
  <2>19. CASE ReleaseSession_Again_Net(t)
    BY <1>0, <2>19 DEF ReleaseSession_Again_Net, Types, OtherTypes, OffRec, Shutdown, Wake,
       Fault, Overtaken, slotVars, serverVars, history
  <2>20. CASE ReleaseSession_Again_Lan(t)
    BY <1>0, <2>20 DEF ReleaseSession_Again_Lan, Types, OtherTypes, OffRec, Shutdown, Wake,
       Fault, Overtaken, slotVars, serverVars, history
  <2>21. QED
    BY <1>4, <2>1, <2>2, <2>3, <2>4, <2>5, <2>6, <2>7, <2>8, <2>9, <2>10, <2>11, <2>12, <2>13,
       <2>14, <2>15, <2>16, <2>17, <2>18, <2>19, <2>20 DEF Step
<1>5. CASE Update_AcceptThread
  <2>1. CASE Update_AcceptThread_Check
    BY <1>0, <2>1 DEF Update_AcceptThread_Check, Types, OtherTypes, OffRec, Shutdown, Wake,
       Fault, Overtaken, slotVars, serverVars, history
  <2>2. CASE Update_AcceptThread_Sleep
    BY <1>0, <2>2 DEF Update_AcceptThread_Sleep, Types, OtherTypes, OffRec, Shutdown, Wake,
       Fault, Overtaken, slotVars, serverVars, history
  <2>3. CASE Update_AcceptThread_Accept
    BY <1>0, <2>3 DEF Update_AcceptThread_Accept, AcceptorOK, Types, OtherTypes, OffRec,
       Shutdown, Wake, Fault, Overtaken, slotVars, serverVars, history
  <2>4. QED
    BY <1>5, <2>1, <2>2, <2>3 DEF Update_AcceptThread
<1>6. QED
  BY <1>1, <1>2, <1>3, <1>4, <1>5 DEF Next

(* Every step keeps the types.                                              *)
LEMMA TypesNext ==
    ASSUME BaseInv, [Next]_vars
    PROVE  Types'
  BY TypesIs, ThreadTypes, ClientTypes, PostedTypes, OtherTypesNext DEF BaseInv, Types

-----------------------------------------------------------------------------
(* Where a thread goes with each step.                                      *)

Goes(t, from, to) ==
    /\ Others(t) /\ thread[t].pc = from /\ thread'[t].pc \in to
    /\ thread'[t].id = thread[t].id /\ thread'[t].call = thread[t].call
    /\ thread'[t].gen = thread[t].gen

(* A thread that goes somewhere keeps what it knows.                        *)
LEMMA GotoGoes ==
    ASSUME Types, NEW t \in Thread, NEW pc \in PC, Goto(t, pc)
    PROVE  Goes(t, thread[t].pc, {pc})
<1>1. thread[t] \in ThreadRec /\ thread'[t] = [thread[t] EXCEPT !.pc = pc] /\ Others(t)
  BY GotoMoves DEF Types
<1>2. QED
  BY <1>1 DEF Goes, ThreadRec

(* From where to where each step takes its thread.                          *)
LEMMA StepGoes ==
    ASSUME Types, NEW t \in Thread
    PROVE  /\ AcquireSessionLock_Ready(t) => Goes(t, "check", {"same", "unref"})
           /\ AcquireSessionLock_Same(t) => Goes(t, "same", {"locked", "unref"})
           /\ SendPacket(t) => Goes(t, "locked", {"look", "claim"})
           /\ Disconnect(t) => Goes(t, "locked", {"unref"})
           /\ Send_Post_Look(t) => Goes(t, "look", {"unref", "claim"})
           /\ Send_Post_Claim(t) => Goes(t, "claim", {"unref", "test"})
           /\ Send_Post_Test(t) => Goes(t, "test", {"giveup", "take"})
           /\ Send_Post_GiveUp(t) => Goes(t, "giveup", {"unref"})
           /\ Send_Post(t) => Goes(t, "take", {"unref"})
           /\ Send_Post_Fail(t) => Goes(t, "take", {"giveup"})
           /\ Accp_Complete_Join(t) => Goes(t, "accepted", {"unref"})
           /\ Send_Complete_Next(t) => Goes(t, "sent", {"look", "claim"})
           /\ ReleaseSession(t) => Goes(t, "release", {"count"})
           /\ ReleaseSession_Free(t) => Goes(t, "free", {"flag"})
           /\ ReleaseSession_Leave(t) => Goes(t, "leave", {"again"})
           /\ Accp_Complete(t) => Goes(t, "idle", {"accepted"})
           /\ Recv_Complete(t) => Goes(t, "idle", {"unref"})
           /\ Recv_Complete_Bad(t) => Goes(t, "idle", {"unref"})
           /\ Recv_Zero(t) => Goes(t, "idle", {"unref"})
           /\ Send_Complete(t) => Goes(t, "idle", {"sent"})
           /\ Send_Zero(t) => Goes(t, "idle", {"unref"})
<1>1. ASSUME AcquireSessionLock_Ready(t) PROVE Goes(t, "check", {"same", "unref"})
  BY <1>1, EveryPC, GotoGoes DEF AcquireSessionLock_Ready, At, Goes
<1>2. ASSUME AcquireSessionLock_Same(t) PROVE Goes(t, "same", {"locked", "unref"})
  BY <1>2, EveryPC, GotoGoes DEF AcquireSessionLock_Same, At, Goes
<1>3. ASSUME SendPacket(t) PROVE Goes(t, "locked", {"look", "claim"})
  BY <1>3, EveryPC, GotoGoes DEF SendPacket, At, Goes
<1>4. ASSUME Disconnect(t) PROVE Goes(t, "locked", {"unref"})
  BY <1>4, EveryPC, GotoGoes DEF Disconnect, At, Goes
<1>5. ASSUME Send_Post_Look(t) PROVE Goes(t, "look", {"unref", "claim"})
  BY <1>5, EveryPC, GotoGoes DEF Send_Post_Look, At, Goes
<1>6. ASSUME Send_Post_Claim(t) PROVE Goes(t, "claim", {"unref", "test"})
  BY <1>6, EveryPC, GotoGoes DEF Send_Post_Claim, At, Goes
<1>7. ASSUME Send_Post_Test(t) PROVE Goes(t, "test", {"giveup", "take"})
  BY <1>7, EveryPC, GotoGoes DEF Send_Post_Test, At, Goes
<1>8. ASSUME Send_Post_GiveUp(t) PROVE Goes(t, "giveup", {"unref"})
  BY <1>8, EveryPC, GotoGoes DEF Send_Post_GiveUp, At, Goes
<1>9. ASSUME Send_Post(t) PROVE Goes(t, "take", {"unref"})
  BY <1>9, EveryPC, GotoGoes DEF Send_Post, At, Goes
<1>10. ASSUME Send_Post_Fail(t) PROVE Goes(t, "take", {"giveup"})
  BY <1>10, EveryPC, GotoGoes DEF Send_Post_Fail, At, Goes
<1>11. ASSUME Accp_Complete_Join(t) PROVE Goes(t, "accepted", {"unref"})
  BY <1>11, EveryPC, GotoGoes DEF Accp_Complete_Join, At, Goes
<1>12. ASSUME Send_Complete_Next(t) PROVE Goes(t, "sent", {"look", "claim"})
  BY <1>12, EveryPC, GotoGoes DEF Send_Complete_Next, At, Goes
<1>13. ASSUME ReleaseSession(t) PROVE Goes(t, "release", {"count"})
  BY <1>13, EveryPC, GotoGoes DEF ReleaseSession, At, Goes
<1>14. ASSUME ReleaseSession_Free(t) PROVE Goes(t, "free", {"flag"})
  BY <1>14, EveryPC, GotoGoes DEF ReleaseSession_Free, At, Goes
<1>15. ASSUME ReleaseSession_Leave(t) PROVE Goes(t, "leave", {"again"})
  BY <1>15, EveryPC, GotoGoes DEF ReleaseSession_Leave, At, Goes
<1>16. ASSUME Accp_Complete(t) PROVE Goes(t, "idle", {"accepted"})
  BY <1>16, EveryPC, GotoGoes DEF Accp_Complete, At, Goes
<1>17. ASSUME Recv_Complete(t) PROVE Goes(t, "idle", {"unref"})
  BY <1>17, EveryPC, GotoGoes DEF Recv_Complete, At, Goes
<1>18. ASSUME Recv_Complete_Bad(t) PROVE Goes(t, "idle", {"unref"})
  BY <1>18, EveryPC, GotoGoes DEF Recv_Complete_Bad, At, Goes
<1>19. ASSUME Recv_Zero(t) PROVE Goes(t, "idle", {"unref"})
  BY <1>19, EveryPC, GotoGoes DEF Recv_Zero, At, Goes
<1>20. ASSUME Send_Complete(t) PROVE Goes(t, "idle", {"sent"})
  BY <1>20, EveryPC, GotoGoes DEF Send_Complete, At, Goes
<1>21. ASSUME Send_Zero(t) PROVE Goes(t, "idle", {"unref"})
  BY <1>21, EveryPC, GotoGoes DEF Send_Zero, At, Goes
<1>22. QED
  BY <1>1, <1>2, <1>3, <1>4, <1>5, <1>6, <1>7, <1>8, <1>9, <1>10, <1>11, <1>12, <1>13, <1>14,
     <1>15, <1>16, <1>17, <1>18, <1>19, <1>20, <1>21

-----------------------------------------------------------------------------
(* References.                                                              *)

(* The steps at which a thread holds no reference.                          *)
LEMMA HoldingIs ==
    \A pc \in PC : pc \notin Holding <=>
        pc \in {"idle", "release", "count", "free", "flag", "leave", "again"}
BY DEF PC, Holding, Locked, Releasing

Posted == posted.accp + posted.recv + posted.send + posted.deadRecv + posted.deadSend + off.ref

(* A balance is kept when what is put on both sides is the same.            *)
LEMMA Balance ==
    ASSUME NEW b \in Int, NEW h \in Int, NEW n \in Int, NEW o \in Int, NEW p \in Int
    PROVE  (b + h) + (p + n - o) = (b + p) + (h + n - o)
OBVIOUS

(* A thread moves, and what it holds is counted.                            *)
LEMMA RefsMove ==
    ASSUME Types, Types', RefsExact, NEW t \in Thread, Others(t),
           NEW i \in Int, NEW p \in Int,
           client'.ioCount = client.ioCount + i,
           Posted' = Posted + p,
           i = p + One(thread'[t].pc \in Holding) - One(thread[t].pc \in Holding)
    PROVE  RefsExact'
<1> DEFINE h == Cardinality(Holders)
           n == One(thread'[t].pc \in Holding)
           o == One(thread[t].pc \in Holding)
<1>1. h' = h + n - o /\ h \in Nat
  BY ThreadMoves, CountsOfThreads
<1>2. n \in Int /\ o \in Int
  BY DEF One
<1>3. Posted \in Int
  BY DEF Posted, Types, OtherTypes, PostedRec, OffRec
<1>4. client.ioCount = Posted + h
  BY DEF RefsExact, Posted
<1>5. i = p + n - o
  OBVIOUS
<1> HIDE DEF h, n, o
<1>6. client'.ioCount = Posted' + h'
  BY <1>1, <1>2, <1>3, <1>4, <1>5, Balance
<1>7. QED
  BY <1>6 DEF RefsExact, Posted, h

(* A thread moves and neither takes nor gives back a reference.             *)
LEMMA RefsKeep ==
    ASSUME Types, Types', RefsExact, NEW t \in Thread, Others(t),
           client'.ioCount = client.ioCount, UNCHANGED <<posted, off>>,
           thread'[t].pc \in Holding <=> thread[t].pc \in Holding
    PROVE  RefsExact'
  BY RefsMove DEF Posted, Types, OtherTypes, PostedRec, OffRec, ClientRec, One

(* Every step keeps the count of the references.                            *)
LEMMA RefsNext ==
    ASSUME BaseInv, [Next]_vars
    PROVE  RefsExact'
<1>0. Types /\ Types' /\ RefsExact
  BY TypesIs, TypesNext DEF BaseInv
<1>a. /\ posted \in PostedRec /\ off \in OffRec /\ client \in ClientRec
      /\ posted.accp \in Int /\ posted.recv \in Int /\ posted.send \in Int
      /\ posted.deadRecv \in Int /\ posted.deadSend \in Int /\ off.ref \in Int
  BY <1>0 DEF Types, OtherTypes, PostedRec, OffRec
<1>1. CASE ServerStarted \/ PeerClose \/ Update_AcceptThread_Check \/ Update_AcceptThread_Sleep
           \/ UNCHANGED vars
  BY <1>1, <1>0 DEF ServerStarted, PeerClose, Update_AcceptThread_Check, Update_AcceptThread_Sleep,
     vars, slotVars, history, RefsExact, Holders
<1>2. ASSUME NEW w \in Worker, Complete(w)
      PROVE  RefsExact'
  <2>0. w \in Thread
    BY DEF Thread
  <2>1. CASE Accp_Complete(w)
    <3>1. Goes(w, "idle", {"accepted"})
      BY <1>0, <2>0, <2>1, StepGoes
    <3>2. client'.ioCount = client.ioCount + 0 /\ Posted' = Posted + (-1)
      BY <1>a, <2>1 DEF Accp_Complete, Joining, ClientRec, PostedRec, Posted
    <3>3. QED
      BY <1>0, <2>0, <3>1, <3>2, RefsMove DEF Goes, Holding, Locked, One
  <2>2. CASE Accp_Aborted(w)
    <3>1. \/ UNCHANGED thread /\ Posted' = Posted + 0
          \/ Goto(w, "unref") /\ Posted' = Posted + (-1)
      BY <1>a, <2>2 DEF Accp_Aborted, PostedRec, OffRec, Posted
    <3>2. thread[w].pc = "idle" /\ client'.ioCount = client.ioCount + 0
      BY <1>a, <2>2 DEF Accp_Aborted, At, ClientRec
    <3>3. CASE UNCHANGED thread /\ Posted' = Posted + 0
      BY <1>0, <2>0, <3>2, <3>3, RefsMove DEF Others, One
    <3>4. CASE Goto(w, "unref") /\ Posted' = Posted + (-1)
      BY <1>0, <2>0, <3>4, GotoGoes, EveryPC, <3>2, RefsMove DEF Goes, Holding, Locked, One
    <3>5. QED
      BY <3>1, <3>3, <3>4
  <2>3. CASE Recv_Complete(w)
    <3>1. Goes(w, "idle", {"unref"})
      BY <1>0, <2>0, <2>3, StepGoes
    <3>2. client'.ioCount = client.ioCount + 1 /\ Posted' = Posted + 0
      BY <1>a, <2>3 DEF Recv_Complete, ClientRec, history, Posted
    <3>3. QED
      BY <1>0, <2>0, <3>1, <3>2, RefsMove DEF Goes, Holding, Locked, One
  <2>4. CASE Recv_Complete_Bad(w) \/ Recv_Zero(w) \/ Send_Zero(w) \/ Send_Complete(w)
    <3>1. Goes(w, "idle", {"unref"}) \/ Goes(w, "idle", {"sent"})
      BY <1>0, <2>0, <2>4, StepGoes
    <3>2. client' = client \/ client' = FreeSentPacket(client)
      BY <2>4 DEF Recv_Complete_Bad, Recv_Zero, Send_Zero, Send_Complete
    <3>a. client'.ioCount = client.ioCount + 0
      BY <1>a, <3>2 DEF FreeSentPacket, ClientRec
    <3>3. Posted' = Posted + (-1)
      <4>1. \/ posted' = [posted EXCEPT !.recv = @ - 1]
            \/ posted' = [posted EXCEPT !.deadRecv = @ - 1]
            \/ posted' = [posted EXCEPT !.send = @ - 1]
            \/ posted' = [posted EXCEPT !.deadSend = @ - 1]
        BY <2>4 DEF Recv_Complete_Bad, Recv_Zero, Send_Zero, Send_Complete
      <4>2. off' = off
        BY <2>4 DEF Recv_Complete_Bad, Recv_Zero, Send_Zero, Send_Complete, history
      <4>3. QED
        BY <1>a, <4>1, <4>2 DEF PostedRec, Posted
    <3>4. QED
      BY <1>0, <2>0, <3>1, <3>a, <3>3, RefsMove DEF Goes, Holding, Locked, One
  <2>5. QED
    BY <1>2, <2>1, <2>2, <2>3, <2>4 DEF Complete
<1>3. ASSUME NEW t \in Caller, NEW id \in ID, NEW call \in {"send", "disconnect"},
             AcquireSessionLock(t, id, call)
      PROVE  RefsExact'
  <2>1. /\ t \in Thread /\ Others(t) /\ thread[t].pc = "idle"
        /\ thread'[t].pc \in {"unref", "check"}
    BY <1>0, <1>3, AcquireMoves
  <2>2. client'.ioCount = client.ioCount + 1 /\ Posted' = Posted + 0
    BY <1>a, <1>3 DEF AcquireSessionLock, ClientRec, history, Posted
  <2>3. QED
    BY <1>0, <2>1, <2>2, RefsMove DEF Holding, Locked, One
<1>4. ASSUME NEW t \in Thread, Step(t)
      PROVE  RefsExact'
  <2>1. CASE \/ AcquireSessionLock_Ready(t) \/ AcquireSessionLock_Same(t)
             \/ SendPacket(t) \/ Disconnect(t)
             \/ Send_Post_Look(t) \/ Send_Post_Claim(t) \/ Send_Post_Test(t)
             \/ Send_Post_GiveUp(t) \/ Send_Post_Fail(t) \/ Send_Complete_Next(t)
    <3>1. /\ Others(t)
          /\ thread[t].pc \in Locked \cup {"check", "same", "sent"}
          /\ thread'[t].pc \in Locked \cup {"same", "unref"}
      BY <1>0, <2>1, StepGoes DEF Goes, Locked
    <3>2. client'.ioCount = client.ioCount /\ UNCHANGED <<posted, off>>
      BY <1>a, <2>1 DEF AcquireSessionLock_Ready, AcquireSessionLock_Same, SendPacket,
         Disconnect,
         Send_Post_Look, Send_Post_Claim, Send_Post_Test, Send_Post_GiveUp, Send_Post_Fail,
         Send_Complete_Next, FreeSentPacket, ClientRec, slotVars, history
    <3>3. QED
      BY <1>0, <3>1, <3>2, RefsKeep DEF Holding
  <2>2. CASE ReleaseSession(t) \/ ReleaseSession_Free(t) \/ ReleaseSession_Flag(t)
             \/ ReleaseSession_Count(t) \/ ReleaseSession_Again_Net(t)
    <3>1. /\ Others(t)
          /\ thread[t].pc \in Releasing \cup {"release", "count"}
          /\ thread'[t].pc \in Releasing \cup {"count", "idle"}
      BY <1>0, StepGoes, CountMoves, GotoGoes, FinishMoves, EveryPC, <2>2 DEF Goes, Releasing,
         ReleaseSession_Flag, ReleaseSession_Again_Net, At, Idle
    <3>2. client'.ioCount = client.ioCount /\ UNCHANGED <<posted, off>>
      BY <1>a, <2>2 DEF ReleaseSession, ReleaseSession_Free, ReleaseSession_Flag,
         ReleaseSession_Count, ReleaseSession_Again_Net, ClientRec, slotVars, history
    <3>3. QED
      BY <1>0, <3>1, <3>2, RefsKeep DEF Holding, Locked, Releasing
  <2>3. CASE t \in Worker /\ Accp_Complete_Join(t)
    <3>1. Goes(t, "accepted", {"unref"})
      BY <1>0, <2>3, StepGoes
    <3>2. \/ client'.ioCount = client.ioCount + 0 /\ Posted' = Posted + 0
          \/ client'.ioCount = client.ioCount + 1 /\ Posted' = Posted + 1
      BY <1>a, <2>3 DEF Accp_Complete_Join, ClientRec, PostedRec, Posted
    <3>3. QED
      BY <1>0, <3>1, <3>2, RefsMove DEF Goes, Holding, Locked, One
  <2>4. CASE Send_Post(t)
    <3>1. Goes(t, "take", {"unref"})
      BY <1>0, <2>4, StepGoes
    <3>2. client'.ioCount = client.ioCount + 1
      BY <1>a, <2>4 DEF Send_Post, Sending, ClientRec
    <3>3. Posted' = Posted + 1
      BY <1>a, <2>4 DEF Send_Post, PostedRec, Posted
    <3>4. QED
      BY <1>0, <3>1, <3>2, <3>3, RefsMove DEF Goes, Holding, Locked, One
  <2>5. CASE Unref(t)
    <3>1. Others(t) /\ thread[t].pc = "unref" /\ thread'[t].pc \in {"idle", "release"}
      BY <1>0, <2>5, UnrefMoves
    <3>2. client'.ioCount = client.ioCount + (-1) /\ Posted' = Posted + 0
      BY <1>a, <2>5 DEF Unref, ClientRec, history, Posted
    <3>3. QED
      BY <1>0, <3>1, <3>2, RefsMove DEF Holding, Locked, One
  <2>6. CASE ReleaseSession_Leave(t)
    <3>1. Goes(t, "leave", {"again"})
      BY <1>0, <2>6, StepGoes
    <3>2. client'.ioCount = client.ioCount + 0
      BY <1>a, <2>6 DEF ReleaseSession_Leave, ClientRec
    <3>3. Posted' = Posted + 0
      BY <1>a, <2>6 DEF ReleaseSession_Leave, PostedRec, OffRec, Posted
    <3>4. QED
      BY <1>0, <3>1, <3>2, <3>3, RefsMove DEF Goes, Holding, Locked, One
  <2>7. CASE ReleaseSession_Again_Lan(t)
    <3>1. Others(t) /\ thread[t].pc = "again" /\ thread'[t].pc = "idle"
      BY <1>0, <2>7, FinishMoves DEF ReleaseSession_Again_Lan, At, Idle
    <3>2. \/ client'.ioCount = client.ioCount + 0 /\ Posted' = Posted + 0
          \/ client'.ioCount = client.ioCount + 1 /\ Posted' = Posted + 1
      BY <1>a, <2>7 DEF ReleaseSession_Again_Lan, ClientRec, PostedRec, Posted, slotVars
    <3>3. QED
      BY <1>0, <3>1, <3>2, RefsMove DEF Holding, Locked, One
  <2>8. QED
    BY <1>4, <2>1, <2>2, <2>3, <2>4, <2>5, <2>6, <2>7 DEF Step
<1>5. CASE Update_AcceptThread_Accept
  BY <1>a, <1>5, CountsOfThreads, <1>0 DEF Update_AcceptThread_Accept, ClientRec, PostedRec,
     OffRec, Posted, slotVars, Holders, RefsExact
<1>6. QED
  BY <1>1, <1>2, <1>3, <1>4, <1>5 DEF Next, Update_AcceptThread

-----------------------------------------------------------------------------
(* What the threads know, and the order of the packets.                     *)

(* Who releases does it for a connection there has been; what a thread that *)
(* moves knows stays.                                                       *)
LEMMA ThreadsNext ==
    ASSUME BaseInv, [Next]_vars
    PROVE  ThreadsOK'
<1>0. Types /\ Types' /\ ThreadsOK
  BY TypesIs, TypesNext DEF BaseInv
<1>a. curID \in Nat /\ curID' \in Nat
  BY <1>0, IocpServerAssumption DEF Types, OtherTypes
<1>b. curID <= curID'
  <2>1. curID' = curID \/ curID' = curID + 1
    BY DEF Next, vars, ServerStarted, Complete, Accp_Complete, Accp_Aborted, Recv_Complete,
       Recv_Complete_Bad, Recv_Zero, Send_Complete, Send_Zero, AcquireSessionLock, Step,
       Accp_Complete_Join, Send_Complete_Next, AcquireSessionLock_Ready,
          AcquireSessionLock_Same,
       SendPacket, Disconnect, Send_Post_Look, Send_Post_Claim, Send_Post_Test,
          Send_Post_GiveUp,
       Send_Post, Send_Post_Fail, Unref, ReleaseSession, ReleaseSession_Count,
          ReleaseSession_Free,
       ReleaseSession_Flag, ReleaseSession_Leave, ReleaseSession_Again_Net,
       ReleaseSession_Again_Lan, Update_AcceptThread, Update_AcceptThread_Check,
       Update_AcceptThread_Sleep, Update_AcceptThread_Accept, PeerClose
  <2>2. QED
    BY <1>a, <2>1
<1>c. \A t \in Thread : thread[t].gen \in Int /\ thread'[t].gen \in Int
  BY <1>0 DEF Types, ThreadRec
<1>d. ASSUME NEW t \in Thread, Others(t), ThreadOK(t)' PROVE ThreadsOK'
  BY <1>0, <1>a, <1>b, <1>c, <1>d DEF Others, ThreadsOK, ThreadOK
<1>e. ASSUME UNCHANGED thread PROVE ThreadsOK'
  BY <1>0, <1>a, <1>b, <1>c, <1>e DEF ThreadsOK, ThreadOK
<1>f. ASSUME NEW t \in Thread, NEW from, NEW to, Goes(t, from, to),
             to \cap {"check", "accepted", "sent"} = {},
             to \cap {"same", "locked"} # {} => from \in LockSteps
      PROVE  ThreadsOK'
  BY <1>0, <1>a, <1>b, <1>c, <1>f, <1>d DEF Goes, ThreadsOK, ThreadOK, LockSteps
<1>1. CASE ServerStarted \/ PeerClose \/ Update_AcceptThread \/ UNCHANGED vars
  BY <1>1, <1>e DEF ServerStarted, PeerClose, Update_AcceptThread, Update_AcceptThread_Check,
     Update_AcceptThread_Sleep, Update_AcceptThread_Accept, vars
<1>2. ASSUME NEW w \in Worker, Complete(w)
      PROVE  ThreadsOK'
  <2>0. w \in Thread
    BY DEF Thread
  <2>1. CASE Accp_Aborted(w)
    BY <2>1, <1>0, <2>0, GotoGoes, EveryPC, <1>f, <1>e DEF Accp_Aborted, At
  <2>2. CASE \/ Accp_Complete(w) \/ Recv_Complete(w) \/ Recv_Complete_Bad(w) \/ Recv_Zero(w)
             \/ Send_Complete(w) \/ Send_Zero(w)
    BY <1>0, <2>0, <2>2, StepGoes, <1>a, <1>b, <1>c, <1>d DEF Goes, ThreadsOK, ThreadOK, LockSteps
  <2>3. QED
    BY <1>2, <2>1, <2>2 DEF Complete
<1>3. ASSUME NEW t \in Caller, NEW id \in ID, NEW call \in {"send", "disconnect"},
             AcquireSessionLock(t, id, call)
      PROVE  ThreadsOK'
  BY <1>0, <1>3, AcquireMoves, <1>a, <1>d DEF ThreadOK, LockSteps
<1>4. ASSUME NEW t \in Thread, Step(t)
      PROVE  ThreadsOK'
  <2>1. CASE AcquireSessionLock_Ready(t) \/ AcquireSessionLock_Same(t)
    BY <1>0, <2>1, StepGoes, <1>f DEF LockSteps
  <2>2. CASE SendPacket(t) \/ Disconnect(t) \/ Send_Complete_Next(t)
    BY <1>0, <2>2, StepGoes, <1>f
  <2>3. CASE Send_Post_Look(t) \/ Send_Post_Claim(t) \/ Send_Post_Test(t) \/ Send_Post_GiveUp(t)
    BY <1>0, <2>3, StepGoes, <1>f
  <2>4. CASE Send_Post(t) \/ Send_Post_Fail(t) \/ Accp_Complete_Join(t)
    BY <1>0, <2>4, StepGoes, <1>f
  <2>5. CASE ReleaseSession(t) \/ ReleaseSession_Free(t) \/ ReleaseSession_Leave(t)
    BY <1>0, <2>5, StepGoes, <1>f
  <2>6. CASE Unref(t)
    BY <1>0, <2>6, UnrefMoves, <1>a, <1>b, <1>d DEF ThreadOK, LockSteps
  <2>7. CASE ReleaseSession_Count(t)
    BY <1>0, <2>7, CountMoves, <1>a, <1>b, <1>d DEF ThreadsOK, ThreadOK, LockSteps
  <2>8. CASE \/ ReleaseSession_Flag(t) \/ ReleaseSession_Again_Net(t)
             \/ ReleaseSession_Again_Lan(t)
    <3>1. Finish(t) \/ (At(t, "flag") /\ Goto(t, "leave"))
      BY <2>8 DEF ReleaseSession_Flag, ReleaseSession_Again_Net, ReleaseSession_Again_Lan
    <3>2. CASE Finish(t)
      BY <1>0, <1>a, <3>2, FinishMoves, <1>d DEF Idle, ThreadOK, LockSteps
    <3>3. CASE At(t, "flag") /\ Goto(t, "leave")
      BY <1>0, <3>3, GotoGoes, EveryPC, <1>f DEF At
    <3>4. QED
      BY <3>1, <3>2, <3>3
  <2>9. QED
    BY <1>4, <2>1, <2>2, <2>3, <2>4, <2>5, <2>6, <2>7, <2>8 DEF Step
<1>5. QED
  BY <1>1, <1>2, <1>3, <1>4 DEF Next

-----------------------------------------------------------------------------
(* The accepts that are posted, and the calls.                              *)

(* What a step of any kind does to its thread.                              *)
LEMMA StepMoves ==
    ASSUME Types, NEW t \in Thread, Step(t)
    PROVE  /\ Others(t)
           /\ thread[t].pc # "idle"
           /\ thread'[t].pc \notin {"accepted", "sent", "check"}
           /\ thread[t].pc = "accepted" => t \in Worker /\ Accp_Complete_Join(t)
           /\ thread'[t].pc \in LockSteps =>
                thread[t].pc \in LockSteps /\ thread'[t].call = thread[t].call
           /\ SendPacket(t) => thread'[t].pc \notin LockSteps
  BY StepGoes, UnrefMoves, CountMoves, FinishMoves, GotoGoes, EveryPC DEF Goes, LockSteps,
     SendPacket, At, ReleaseSession_Flag, ReleaseSession_Again_Net, ReleaseSession_Again_Lan, Idle,
     Step

(* A worker takes a completion when it is idle.                             *)
LEMMA CompleteMoves ==
    ASSUME Types, NEW w \in Worker, Complete(w)
    PROVE  /\ w \in Thread /\ Others(w)
           /\ thread[w].pc = "idle" /\ thread'[w].pc \in {"idle", "accepted", "sent", "unref"}
           /\ thread'[w].pc = "accepted" <=> Accp_Complete(w)
           /\ thread'[w].pc = "sent" => Send_Complete(w)
           /\ thread'[w].id = thread[w].id /\ thread'[w].call = thread[w].call
           /\ thread'[w].gen = thread[w].gen
  BY StepGoes, GotoGoes, EveryPC DEF Thread, Goes, Accp_Aborted, At, Others, Complete

(* Every step keeps the count of the accepts.                               *)
LEMMA AcceptsNext ==
    ASSUME BaseInv, [Next]_vars
    PROVE  AcceptsExact' /\ AcceptorOK'
<1>0. Types /\ Types' /\ AcceptsExact /\ AcceptorOK
  BY TypesIs, TypesNext DEF BaseInv
<1>a. /\ posted \in PostedRec /\ off \in OffRec
      /\ posted.accp \in Int /\ off.posted \in Int /\ curPosted \in Int /\ indexQueue \in Nat
      /\ Cardinality(Accepting) \in Int
  BY <1>0, CountsOfThreads DEF Types, OtherTypes, PostedRec, OffRec
<1>b. ASSUME UNCHANGED <<kind, curPosted>>, posted'.accp = posted.accp,
   off'.posted = off.posted,
             Accepting' = Accepting
      PROVE  AcceptsExact'
  BY <1>0, <1>b DEF AcceptsExact, Net
<1>c. ASSUME NEW t \in Thread, Others(t), ~At(t, "accepted"), thread'[t].pc # "accepted"
      PROVE  Accepting' = Accepting
  BY <1>c DEF Accepting, Others, At, Thread
<1>d. ASSUME UNCHANGED <<kind, acceptor, indexQueue>> PROVE AcceptorOK'
  BY <1>0, <1>d DEF AcceptorOK, Net, Lan
<1>e. ASSUME UNCHANGED <<kind, indexQueue>>, Wake PROVE AcceptorOK'
  BY <1>0, <1>e DEF AcceptorOK, Net, Lan, Wake
<1>1. CASE ServerStarted \/ PeerClose \/ UNCHANGED vars
  BY <1>1, <1>b, <1>d DEF ServerStarted, PeerClose, vars, slotVars, serverVars, history, Accepting,
     At
<1>2. ASSUME NEW w \in Worker, Complete(w)
      PROVE  AcceptsExact' /\ AcceptorOK'
  <2>1. UNCHANGED <<kind, curPosted, acceptor, indexQueue>>
    BY <1>2 DEF Complete, Accp_Complete, Accp_Aborted, Recv_Complete, Recv_Complete_Bad,
       Recv_Zero,
       Send_Complete, Send_Zero, serverVars
  <2>2. /\ w \in Thread /\ Others(w)
        /\ ~At(w, "accepted") /\ thread'[w].pc = "accepted" <=> Accp_Complete(w)
    BY <1>0, <1>2, CompleteMoves DEF At
  <2>3. CASE Accp_Complete(w)
    <3>1. posted'.accp = posted.accp - 1 /\ off'.posted = off.posted
      BY <1>a, <2>3 DEF Accp_Complete, PostedRec
    <3>2. Cardinality(Accepting)' = Cardinality(Accepting) + 1
      BY <1>0, <1>2, <2>3, CompleteMoves, ThreadMoves, <1>a DEF At, One
    <3>3. AcceptsExact'
      BY <1>0, <1>a, <2>1, <3>1, <3>2 DEF AcceptsExact, Net
    <3>4. QED
      BY <1>d, <2>1, <3>3
  <2>4. CASE ~Accp_Complete(w)
    <3>1. Accepting' = Accepting
      BY <1>0, <1>2, <2>4, CompleteMoves, <1>c DEF At
    <3>2. CASE Accp_Aborted(w)
      BY <1>a, <3>2, <1>0, <2>1, <3>1, <1>d DEF Accp_Aborted, PostedRec, OffRec, Net, Lan,
         AcceptsExact
    <3>3. CASE ~Accp_Aborted(w)
      BY <1>2, <2>4, <3>3, <1>a, <1>b, <1>d, <2>1, <3>1 DEF Complete, Recv_Complete,
         Recv_Complete_Bad, Recv_Zero, Send_Complete, Send_Zero, history, PostedRec
    <3>4. QED
      BY <3>2, <3>3
  <2>5. QED
    BY <2>3, <2>4
<1>3. ASSUME NEW t \in Caller, NEW id \in ID, NEW call \in {"send", "disconnect"},
             AcquireSessionLock(t, id, call)
      PROVE  AcceptsExact' /\ AcceptorOK'
  BY <1>0, <1>3, AcquireMoves, <1>b, <1>c, <1>d DEF At, AcquireSessionLock, serverVars, history
<1>4. ASSUME NEW t \in Thread, Step(t)
      PROVE  AcceptsExact' /\ AcceptorOK'
  <2>0. /\ Others(t) /\ thread'[t].pc # "accepted"
        /\ At(t, "accepted") => t \in Worker /\ Accp_Complete_Join(t)
    BY <1>0, <1>4, StepMoves DEF At
  <2>1. CASE t \in Worker /\ Accp_Complete_Join(t)
    BY <1>a, <2>1, <2>0, ThreadMoves, <1>0, <1>d, <1>e DEF Accp_Complete_Join, PostedRec, At, One,
       AcceptsExact, Net, Accepted
  <2>2. CASE ~At(t, "accepted")
    <3>1. Accepting' = Accepting
      BY <1>c, <2>0, <2>2
    <3>2. CASE ReleaseSession_Again_Net(t)
      BY <3>2, <1>0, <1>a, <1>b, <3>1 DEF ReleaseSession_Again_Net, slotVars, history, AcceptorOK,
         Net, Lan, Wake
    <3>3. CASE ReleaseSession_Again_Lan(t)
      BY <3>3, <1>d DEF ReleaseSession_Again_Lan, serverVars, AcceptsExact, Net, Lan
    <3>4. CASE Send_Post(t) \/ ReleaseSession_Leave(t)
      BY <3>4, <1>a, <1>b, <1>d, <3>1 DEF Send_Post, ReleaseSession_Leave, serverVars, PostedRec,
         OffRec
    <3>5. CASE \/ AcquireSessionLock_Ready(t) \/ AcquireSessionLock_Same(t)
               \/ SendPacket(t) \/ Disconnect(t) \/ (t \in Worker /\ Send_Complete_Next(t))
               \/ Send_Post_Look(t) \/ Send_Post_Claim(t) \/ Send_Post_Test(t)
               \/ Send_Post_GiveUp(t) \/ Send_Post_Fail(t)
               \/ Unref(t) \/ ReleaseSession(t) \/ ReleaseSession_Count(t)
               \/ ReleaseSession_Free(t) \/ ReleaseSession_Flag(t)
      <4>1. UNCHANGED <<kind, curPosted, posted, off, acceptor, indexQueue>>
        BY <3>5 DEF AcquireSessionLock_Ready, AcquireSessionLock_Same, SendPacket, Disconnect,
           Send_Complete_Next, Send_Post_Look, Send_Post_Claim, Send_Post_Test,
              Send_Post_GiveUp,
           Send_Post_Fail, Unref, ReleaseSession, ReleaseSession_Count, ReleaseSession_Free,
           ReleaseSession_Flag, slotVars, serverVars, history
      <4>2. QED
        BY <1>b, <1>d, <3>1, <4>1
    <3>6. QED
      BY <1>4, <2>2, <3>2, <3>3, <3>4, <3>5 DEF Step, Accp_Complete_Join
  <2>3. QED
    BY <2>0, <2>1, <2>2
<1>5. CASE Update_AcceptThread
  <2>1. UNCHANGED thread /\ kind' = kind /\ Net
    BY <1>5 DEF Update_AcceptThread, Update_AcceptThread_Check, Update_AcceptThread_Sleep,
       Update_AcceptThread_Accept
  <2>2. Accepting' = Accepting
    BY <2>1 DEF Accepting, At
  <2>3. CASE Update_AcceptThread_Check \/ Update_AcceptThread_Sleep
    BY <2>3, <1>0, <1>a, <2>1, <1>b, <2>2 DEF Update_AcceptThread_Check, Update_AcceptThread_Sleep,
       slotVars, history, AcceptorOK, Net, Lan
  <2>4. CASE Update_AcceptThread_Accept
    <3>1. /\ curPosted' = curPosted + 1 /\ acceptor' = "check"
          /\ posted'.accp + off'.posted = posted.accp + off.posted + 1
      BY <1>a, <2>4 DEF Update_AcceptThread_Accept, PostedRec, OffRec, slotVars
    <3>2. posted'.accp \in Int /\ off'.posted \in Int
      BY <1>0 DEF Types, OtherTypes, PostedRec, OffRec
    <3>3. AcceptsExact'
      BY <1>0, <1>a, <2>1, <2>2, <3>1, <3>2 DEF AcceptsExact, Net
    <3>4. AcceptorOK'
      BY <2>1, <3>1 DEF AcceptorOK, Net, Lan
    <3>5. QED
      BY <3>3, <3>4
  <2>5. QED
    BY <1>5, <2>3, <2>4 DEF Update_AcceptThread
<1>6. QED
  BY <1>1, <1>2, <1>3, <1>4, <1>5 DEF Next

(* Every step keeps the packets within the calls.                           *)
LEMMA CallsNext ==
    ASSUME BaseInv, [Next]_vars
    PROVE  CallsOK'
<1>0. Types /\ Types' /\ CallsOK
  BY TypesIs, TypesNext DEF BaseInv
<1>a. packets \in Int /\ calls \in Int /\ Cardinality(ToSend) \in Int
  BY <1>0, CountsOfThreads, IocpServerAssumption DEF Types, OtherTypes
<1>b. ASSUME UNCHANGED <<packets, calls>>, NEW t \in Thread, Others(t),
             thread'[t].pc \in LockSteps =>
                 thread[t].pc \in LockSteps /\ thread'[t].call = thread[t].call
      PROVE  CallsOK'
  <2> DEFINE before == thread[t].call = "send" /\ thread[t].pc \in LockSteps
             after  == thread'[t].call = "send" /\ thread'[t].pc \in LockSteps
  <2>1. after => before
    BY <1>b
  <2>2. Cardinality(ToSend)' = Cardinality(ToSend) + One(after) - One(before)
    BY <1>b, ThreadMoves
  <2> HIDE DEF before, after
  <2>3. One(after) <= One(before) /\ One(after) \in Int /\ One(before) \in Int
    BY <2>1 DEF One
  <2>4. QED
    BY <1>0, <1>a, <1>b, <2>2, <2>3 DEF CallsOK
<1>1. CASE ServerStarted \/ PeerClose \/ Update_AcceptThread \/ UNCHANGED vars
  <2>1. UNCHANGED <<packets, calls, thread>>
    BY <1>1 DEF ServerStarted, PeerClose, Update_AcceptThread, Update_AcceptThread_Check,
       Update_AcceptThread_Sleep, Update_AcceptThread_Accept, vars, history
  <2>2. QED
    BY <1>0, <2>1 DEF CallsOK, ToSend
<1>2. ASSUME NEW w \in Worker, Complete(w)
      PROVE  CallsOK'
  <2>1. w \in Thread /\ Others(w) /\ thread'[w].pc \notin LockSteps
    BY <1>0, <1>2, CompleteMoves DEF LockSteps
  <2>2. UNCHANGED <<packets, calls>>
    BY <1>2 DEF Complete, Accp_Complete, Accp_Aborted, Recv_Complete, Recv_Complete_Bad,
       Recv_Zero, Send_Complete, Send_Zero, history
  <2>3. QED
    BY <1>b, <2>1, <2>2
<1>3. ASSUME NEW t \in Caller, NEW id \in ID, NEW call \in {"send", "disconnect"},
             AcquireSessionLock(t, id, call)
      PROVE  CallsOK'
  <2> DEFINE before == thread[t].call = "send" /\ thread[t].pc \in LockSteps
             after  == thread'[t].call = "send" /\ thread'[t].pc \in LockSteps
  <2>1. t \in Thread /\ Others(t) /\ ~before
    BY <1>0, <1>3, AcquireMoves DEF LockSteps
  <2>2. Cardinality(ToSend)' = Cardinality(ToSend) + One(after) - One(before)
    BY <2>1, ThreadMoves
  <2>3. calls' = calls + 1 /\ packets' = packets
    BY <1>3 DEF AcquireSessionLock, history
  <2> HIDE DEF before, after
  <2>4. One(after) \in {0, 1} /\ One(before) = 0
    BY <2>1 DEF One
  <2>5. QED
    BY <1>0, <1>a, <2>2, <2>3, <2>4 DEF CallsOK
<1>4. ASSUME NEW t \in Thread, Step(t)
      PROVE  CallsOK'
  <2>1. /\ Others(t)
        /\ thread'[t].pc \in LockSteps =>
             thread[t].pc \in LockSteps /\ thread'[t].call = thread[t].call
        /\ SendPacket(t) => thread'[t].pc \notin LockSteps
    BY <1>0, <1>4, StepMoves
  <2>2. CASE SendPacket(t)
    <3> DEFINE before == thread[t].call = "send" /\ thread[t].pc \in LockSteps
               after  == thread'[t].call = "send" /\ thread'[t].pc \in LockSteps
    <3>1. before /\ ~after
      BY <2>1, <2>2 DEF SendPacket, At, LockSteps
    <3>2. Cardinality(ToSend)' = Cardinality(ToSend) + One(after) - One(before)
      BY <2>1, ThreadMoves
    <3>3. calls' = calls /\ packets' = packets + 1
      BY <2>2 DEF SendPacket
    <3> HIDE DEF before, after
    <3>4. One(after) = 0 /\ One(before) = 1
      BY <3>1 DEF One
    <3>5. QED
      BY <1>0, <1>a, <3>2, <3>3, <3>4 DEF CallsOK
  <2>3. CASE ~SendPacket(t)
    <3>1. UNCHANGED <<packets, calls>>
      BY <1>4, <2>3 DEF Step, Accp_Complete_Join, Send_Complete_Next, AcquireSessionLock_Ready,
         AcquireSessionLock_Same, Disconnect, Send_Post_Look, Send_Post_Claim, Send_Post_Test,
         Send_Post_GiveUp, Send_Post, Send_Post_Fail, Unref, ReleaseSession,
            ReleaseSession_Count,
         ReleaseSession_Free, ReleaseSession_Flag, ReleaseSession_Leave,
            ReleaseSession_Again_Net,
         ReleaseSession_Again_Lan, history
    <3>2. QED
      BY <1>b, <2>1, <3>1
  <2>4. QED
    BY <2>2, <2>3
<1>5. QED
  BY <1>1, <1>2, <1>3, <1>4 DEF Next

-----------------------------------------------------------------------------
(* The packets of a connection.                                             *)

Stream == wire \o client.sendq

(* What a step does to the packets sent and to be sent: nothing, they are   *)
(* dropped, sent, or forgotten, or there is one more.                       *)
Dropped   == wire' = wire /\ client'.sendq = <<>>
Sent      == wire' = wire \o client.sendq /\ client'.sendq = <<>>
Forgotten == wire' = <<>> /\ client'.sendq = <<>>
StreamSame == UNCHANGED wire /\ client'.sendq = client.sendq
OneMore(t) == /\ wire' = wire
              /\ client'.sendq = Append(client.sendq, [to |-> thread[t].id, n |-> packets + 1])

(* What each step does to the packets of a connection.                      *)
LEMMA StreamSteps ==
    ASSUME Types, [Next]_vars
    PROVE  \/ /\ packets' = packets
              /\ \/ StreamSame /\ curID' = curID
                 \/ Dropped /\ curID' = curID
                 \/ Sent /\ curID' = curID
                 \/ Forgotten
           \/ \E t \in Thread : SendPacket(t) /\ OneMore(t)
<1>0. client \in ClientRec
  BY DEF Types
<1>1. CASE ServerStarted \/ PeerClose \/ Update_AcceptThread \/ UNCHANGED vars
  <2>1. UNCHANGED <<packets, wire, curID>> /\ client'.sendq = client.sendq
    BY <1>0, <1>1 DEF ServerStarted, PeerClose, Update_AcceptThread, Update_AcceptThread_Check,
       Update_AcceptThread_Sleep, Update_AcceptThread_Accept, vars, slotVars, history, ClientRec
  <2>2. QED
    BY <2>1 DEF StreamSame
<1>2. ASSUME NEW w \in Worker, Complete(w)
      PROVE  packets' = packets /\ ((StreamSame /\ curID' = curID) \/ Forgotten)
  <2>1. CASE Accp_Complete(w)
    BY <1>0, <2>1 DEF Accp_Complete, Joining, Forgotten, ClientRec
  <2>2. CASE Send_Complete(w)
    BY <1>0, <2>2 DEF Send_Complete, FreeSentPacket, StreamSame, ClientRec, history
  <2>3. CASE Recv_Complete(w)
    BY <1>0, <2>3 DEF Recv_Complete, StreamSame, ClientRec, history
  <2>4. CASE Accp_Aborted(w) \/ Recv_Complete_Bad(w) \/ Recv_Zero(w) \/ Send_Zero(w)
    BY <1>0, <2>4 DEF Accp_Aborted, Recv_Complete_Bad, Recv_Zero, Send_Zero, StreamSame
  <2>5. QED
    BY <1>2, <2>1, <2>2, <2>3, <2>4 DEF Complete
<1>3. ASSUME NEW t \in Caller, NEW id \in ID, NEW call \in {"send", "disconnect"},
             AcquireSessionLock(t, id, call)
      PROVE  packets' = packets /\ StreamSame /\ curID' = curID
  BY <1>0, <1>3 DEF AcquireSessionLock, StreamSame, ClientRec, history
<1>4. ASSUME NEW t \in Thread, Step(t)
      PROVE  \/ packets' = packets /\ curID' = curID /\ (StreamSame \/ Dropped \/ Sent)
             \/ SendPacket(t) /\ OneMore(t)
  <2>1. CASE SendPacket(t)
    BY <1>0, <2>1 DEF SendPacket, OneMore, ClientRec
  <2>2. CASE Send_Post(t)
    BY <1>0, <2>2 DEF Send_Post, Sending, Sent, ClientRec
  <2>3. CASE Send_Post_Fail(t)
    BY <1>0, <2>3 DEF Send_Post_Fail, FreeSentPacket, ClientRec, Dropped, history
  <2>4. CASE ReleaseSession_Free(t)
    BY <1>0, <2>4 DEF ReleaseSession_Free, Dropped, ClientRec, history
  <2>5. CASE \/ Send_Post_GiveUp(t) \/ Unref(t) \/ ReleaseSession(t) \/ ReleaseSession_Flag(t)
             \/ ReleaseSession_Leave(t) \/ Send_Complete_Next(t) \/ Send_Post_Claim(t)
    BY <1>0, <2>5 DEF Send_Post_GiveUp, Unref, ReleaseSession, ReleaseSession_Flag,
       ReleaseSession_Leave, Send_Complete_Next, Send_Post_Claim, StreamSame, ClientRec, history
  <2>6. CASE \/ AcquireSessionLock_Ready(t) \/ AcquireSessionLock_Same(t) \/ Disconnect(t)
             \/ Send_Post_Look(t) \/ Send_Post_Test(t) \/ ReleaseSession_Count(t)
             \/ ReleaseSession_Again_Net(t)
    BY <1>0, <2>6 DEF AcquireSessionLock_Ready, AcquireSessionLock_Same, Disconnect,
       Send_Post_Look, Send_Post_Test, ReleaseSession_Count, ReleaseSession_Again_Net,
          StreamSame,
       ClientRec, slotVars, history
  <2>7. CASE Accp_Complete_Join(t) \/ ReleaseSession_Again_Lan(t)
    BY <1>0, <2>7 DEF Accp_Complete_Join, ReleaseSession_Again_Lan, slotVars, ClientRec, StreamSame
  <2>8. QED
    BY <1>4, <2>1, <2>2, <2>3, <2>4, <2>5, <2>6, <2>7 DEF Step
<1>5. QED
  BY <1>1, <1>2, <1>3, <1>4 DEF Next

(* Where the packets of the stream are after a step.                        *)
LEMMA StreamParts ==
    ASSUME NEW s \in PacketSeq, NEW q \in PacketSeq, NEW x \in Packet
    PROVE  /\ s \o q \in PacketSeq /\ s \o <<>> = s /\ <<>> \o <<>> = <<>>
           /\ DOMAIN s \subseteq DOMAIN (s \o q)
           /\ \A i \in DOMAIN s : (s \o q)[i] = s[i]
           /\ s \o Append(q, x) = Append(s \o q, x)
  BY DEF PacketSeq

(* Every step keeps the packets in the order of sendPacket.                 *)
LEMMA OrderNext ==
    ASSUME BaseInv, [Next]_vars
    PROVE  OrderOK'
<1>0. /\ Types /\ OrderOK /\ wire \in PacketSeq /\ client.sendq \in PacketSeq
      /\ Stream \in PacketSeq /\ packets \in Int
  BY TypesIs, StreamParts, IocpServerAssumption DEF BaseInv, Types, OtherTypes, ClientRec,
     Stream,
     PacketSeq
<1>1. Numbered(Stream)
  BY <1>0 DEF OrderOK, Stream
<1>2. CASE packets' = packets /\ StreamSame
  BY <1>0, <1>2 DEF StreamSame, OrderOK, Numbered
<1>3. CASE packets' = packets /\ Forgotten
  BY <1>3 DEF Forgotten, OrderOK, Numbered
<1>4. CASE packets' = packets /\ Sent
  BY <1>0, EmptyPackets, <1>4 DEF PacketSeq, Stream, Sent, OrderOK, Numbered
<1>5. CASE packets' = packets /\ Dropped
  BY <1>0, <1>5, <1>1 DEF Stream, PacketSeq, Dropped, OrderOK, Numbered
<1>6. CASE \E t \in Thread : SendPacket(t) /\ OneMore(t)
  <2>1. PICK t \in Thread : SendPacket(t) /\ OneMore(t)
    BY <1>6
  <2> DEFINE x == [to |-> thread[t].id, n |-> packets + 1]
  <2>2. x \in Packet /\ x.n = packets + 1
    BY <2>1, NewPacket
  <2>3. packets' = packets + 1
    BY <2>1 DEF SendPacket
  <2>4. wire' \o client'.sendq = wire \o Append(client.sendq, x)
    BY <2>1 DEF OneMore
  <2> HIDE DEF x
  <2>5. wire' \o client'.sendq = Append(Stream, x)
    BY <1>0, <2>2, <2>4, StreamParts DEF Stream
  <2>6. /\ DOMAIN Append(Stream, x) = 1 .. Len(Stream) + 1 /\ DOMAIN Stream = 1 .. Len(Stream)
        /\ Len(Stream) \in Nat
        /\ \A i \in DOMAIN Stream : Append(Stream, x)[i] = Stream[i]
        /\ Append(Stream, x)[Len(Stream) + 1] = x
    BY <1>0, <2>2 DEF PacketSeq
  <2>7. \A i \in DOMAIN Stream : Stream[i].n \in Int
    <3>1. \A i \in DOMAIN Stream : Stream[i] \in Packet
      BY <1>0 DEF PacketSeq
    <3>2. \A p \in Packet : p.n \in Int
      BY IocpServerAssumption DEF Packet
    <3>3. QED
      BY <3>1, <3>2
  <2>8. \A i \in DOMAIN Append(Stream, x) : Append(Stream, x)[i].n <= packets + 1
    BY <1>0, <1>1, <2>2, <2>6, <2>7 DEF Numbered
  <2>9. \A i, j \in DOMAIN Append(Stream, x) : i < j => Append(Stream, x)[i].n < Append(Stream,
     x)[j].n
    BY <1>0, <1>1, <2>2, <2>6, <2>7 DEF Numbered
  <2>10. QED
    BY <2>3, <2>5, <2>8, <2>9 DEF OrderOK, Numbered
<1>7. QED
  BY <1>0, <1>2, <1>3, <1>4, <1>5, <1>6, StreamSteps

(* Every step keeps what does not depend on the races.                      *)
LEMMA BaseNext ==
    ASSUME BaseInv, [Next]_vars
    PROVE  BaseInv'
  BY TypesNext, PostedIs, RefsNext, AcceptsNext, ThreadsNext, CallsNext, OrderNext DEF TypeOK,
     Types, OtherTypes, ClientRec, ThreadRec, PC, OffRec, PacketSeq, BaseInv

-----------------------------------------------------------------------------
(* Which steps change what of a slot.                                       *)

(* The fields of the client.                                                *)
ClientSteps ==
    /\ \/ client'.clientID = client.clientID
       \/ \E w \in Worker : Accp_Complete(w)
       \/ \E t \in Thread : ReleaseSession_Leave(t)
    /\ \/ client'.bSend = client.bSend
       \/ \E w \in Worker : Accp_Complete(w) \/ Send_Complete_Next(w)
       \/ \E t \in Thread : Send_Post_Claim(t) \/ Send_Post_GiveUp(t)
    /\ \/ client'.bReadyToDisconnect = client.bReadyToDisconnect
       \/ \E w \in Worker : Accp_Complete(w)
       \/ \E t \in Thread : ReleaseSession(t)
    /\ \/ client'.bDisconnectNow = client.bDisconnectNow
       \/ \E w \in Worker : Accp_Complete(w)
       \/ \E t \in Thread : ReleaseSession_Flag(t)

(* No other steps change these fields.                                      *)
LEMMA ClientStepsNext ==
    ASSUME Types, [Next]_vars
    PROVE  ClientSteps
<1>0. client \in ClientRec
  BY DEF Types
<1>1. CASE \/ ServerStarted \/ PeerClose \/ UNCHANGED vars
           \/ Update_AcceptThread_Check \/ Update_AcceptThread_Sleep \/ Update_AcceptThread_Accept
  BY <1>0, <1>1 DEF ClientSteps, ServerStarted, PeerClose, vars, Update_AcceptThread_Check,
     Update_AcceptThread_Sleep, Update_AcceptThread_Accept, slotVars, serverVars, history,
     FreeSentPacket, Sending, ClientRec
<1>2. ASSUME NEW w \in Worker, Complete(w)
      PROVE  ClientSteps
  <2>1. CASE \/ Accp_Aborted(w) \/ Recv_Complete(w) \/ Recv_Complete_Bad(w) \/ Recv_Zero(w)
             \/ Send_Complete(w) \/ Send_Zero(w)
    BY <1>0, <2>1 DEF ClientSteps, Accp_Aborted, Recv_Complete, Recv_Complete_Bad, Recv_Zero,
       Send_Complete, Send_Zero, slotVars, serverVars, history, FreeSentPacket, Sending,
       ClientRec
  <2>2. CASE Accp_Complete(w)
    BY <1>0, <2>2 DEF ClientSteps
  <2>3. QED
    BY <1>2, <2>1, <2>2 DEF Complete
<1>3. ASSUME NEW t \in Caller, NEW id \in ID, NEW call \in {"send", "disconnect"},
             AcquireSessionLock(t, id, call)
      PROVE  ClientSteps
  BY <1>0, <1>3 DEF ClientSteps, AcquireSessionLock, slotVars, serverVars, history,
     FreeSentPacket, Sending, ClientRec
<1>4. ASSUME NEW t \in Thread, Step(t)
      PROVE  ClientSteps
  <2>1. CASE \/ Accp_Complete_Join(t) \/ AcquireSessionLock_Ready(t)
             \/ AcquireSessionLock_Same(t) \/ SendPacket(t) \/ Disconnect(t)
             \/ Send_Post_Look(t) \/ Send_Post_Test(t)
    BY <1>0, <2>1 DEF ClientSteps, Accp_Complete_Join, AcquireSessionLock_Ready,
       AcquireSessionLock_Same, SendPacket, Disconnect, Send_Post_Look, Send_Post_Test,
       slotVars, serverVars, history, FreeSentPacket, Sending, ClientRec
  <2>2. CASE \/ Send_Post_Fail(t) \/ Unref(t) \/ ReleaseSession_Count(t)
             \/ ReleaseSession_Free(t) \/ ReleaseSession_Again_Net(t)
             \/ ReleaseSession_Again_Lan(t)
    BY <1>0, <2>2 DEF ClientSteps, Send_Post_Fail, Unref, ReleaseSession_Count,
       ReleaseSession_Free, ReleaseSession_Again_Net, ReleaseSession_Again_Lan, slotVars,
       serverVars, history, FreeSentPacket, Sending, ClientRec
  <2>3. CASE t \in Worker /\ Send_Complete_Next(t)
    BY <1>0, <2>3 DEF ClientSteps, Send_Complete_Next, ClientRec
  <2>4. CASE Send_Post_Claim(t)
    BY <1>0, <2>4 DEF ClientSteps, Send_Post_Claim, ClientRec
  <2>5. CASE Send_Post_GiveUp(t)
    BY <1>0, <2>5 DEF ClientSteps, Send_Post_GiveUp, ClientRec
  <2>6. CASE Send_Post(t)
    BY <1>0, <2>6 DEF ClientSteps, Send_Post, Sending, ClientRec
  <2>7. CASE ReleaseSession(t)
    BY <1>0, <2>7 DEF ClientSteps, ReleaseSession, ClientRec
  <2>8. CASE ReleaseSession_Flag(t)
    BY <1>0, <2>8 DEF ClientSteps, ReleaseSession_Flag, ClientRec
  <2>9. CASE ReleaseSession_Leave(t)
    BY <1>0, <2>9 DEF ClientSteps, ReleaseSession_Leave, ClientRec
  <2>10. QED
    BY <1>4, <2>1, <2>2, <2>3, <2>4, <2>5, <2>6, <2>7, <2>8, <2>9 DEF Step
<1>5. QED
  BY <1>1, <1>2, <1>3, <1>4 DEF Next, Update_AcceptThread

(* The counters, the clients that left and the races.                       *)
CounterSteps ==
    /\ kind' = kind /\ window \subseteq window'
    /\ curID' = curID \/ \E w \in Worker : Accp_Complete(w)
    /\ left' = left \/ \E t \in Thread : ReleaseSession_Leave(t)
    /\ \/ curUser' = curUser
       \/ \E w \in Worker : Accp_Complete_Join(w)
       \/ \E t \in Thread : ReleaseSession_Leave(t)
    /\ off'.user = off.user \/ \E t \in Thread : ReleaseSession_Leave(t)
    /\ "late" \in window' => "late" \in window \/ \E t \in Thread : AcquireSessionLock_Same(t)

(* No other steps change these counters.                                    *)
LEMMA CounterStepsNext ==
    ASSUME Types, [Next]_vars
    PROVE  CounterSteps
<1>0. off \in OffRec
  BY DEF Types, OtherTypes
<1>1. CASE \/ ServerStarted \/ PeerClose \/ UNCHANGED vars
           \/ Update_AcceptThread_Check \/ Update_AcceptThread_Sleep \/ Update_AcceptThread_Accept
  BY <1>0, <1>1 DEF CounterSteps, ServerStarted, PeerClose, vars, Update_AcceptThread_Check,
     Update_AcceptThread_Sleep, Update_AcceptThread_Accept, slotVars, serverVars, history,
     Overtaken, OffRec
<1>2. ASSUME NEW w \in Worker, Complete(w)
      PROVE  CounterSteps
  <2>1. CASE \/ Accp_Aborted(w) \/ Recv_Complete(w) \/ Recv_Complete_Bad(w) \/ Recv_Zero(w)
             \/ Send_Complete(w) \/ Send_Zero(w)
    BY <1>0, <2>1 DEF CounterSteps, Accp_Aborted, Recv_Complete, Recv_Complete_Bad, Recv_Zero,
       Send_Complete, Send_Zero, slotVars, serverVars, history, Overtaken, OffRec
  <2>2. CASE Accp_Complete(w)
    BY <1>0, <2>2 DEF CounterSteps, Accp_Complete, slotVars, serverVars, history
  <2>3. QED
    BY <1>2, <2>1, <2>2 DEF Complete
<1>3. ASSUME NEW t \in Caller, NEW id \in ID, NEW call \in {"send", "disconnect"},
             AcquireSessionLock(t, id, call)
      PROVE  CounterSteps
  BY <1>0, <1>3 DEF CounterSteps, AcquireSessionLock, slotVars, serverVars, history, Overtaken,
     OffRec
<1>4. ASSUME NEW t \in Thread, Step(t)
      PROVE  CounterSteps
  <2>1. CASE \/ Send_Complete_Next(t) \/ AcquireSessionLock_Ready(t) \/ SendPacket(t)
             \/ Disconnect(t) \/ Send_Post_Look(t) \/ Send_Post_Claim(t)
             \/ Send_Post_Test(t)
    BY <1>0, <2>1 DEF CounterSteps, Send_Complete_Next, AcquireSessionLock_Ready, SendPacket,
       Disconnect, Send_Post_Look, Send_Post_Claim, Send_Post_Test, slotVars, serverVars,
       history, Overtaken, OffRec
  <2>2. CASE \/ Send_Post_GiveUp(t) \/ Send_Post(t) \/ Send_Post_Fail(t) \/ Unref(t)
             \/ ReleaseSession(t) \/ ReleaseSession_Count(t) \/ ReleaseSession_Free(t)
    BY <1>0, <2>2 DEF CounterSteps, Send_Post_GiveUp, Send_Post, Send_Post_Fail, Unref,
       ReleaseSession, ReleaseSession_Count, ReleaseSession_Free, slotVars, serverVars,
       history, Overtaken, OffRec
  <2>3. CASE \/ ReleaseSession_Flag(t) \/ ReleaseSession_Again_Net(t)
             \/ ReleaseSession_Again_Lan(t)
    BY <1>0, <2>3 DEF CounterSteps, ReleaseSession_Flag, ReleaseSession_Again_Net,
       ReleaseSession_Again_Lan, slotVars, serverVars, history, Overtaken, OffRec
  <2>4. CASE t \in Worker /\ Accp_Complete_Join(t)
    BY <1>0, <2>4 DEF CounterSteps, Accp_Complete_Join
  <2>5. CASE AcquireSessionLock_Same(t)
    BY <1>0, <2>5 DEF CounterSteps, AcquireSessionLock_Same, slotVars, serverVars, history
  <2>6. CASE ReleaseSession_Leave(t)
    BY <1>0, <2>6 DEF CounterSteps, ReleaseSession_Leave
  <2>7. QED
    BY <1>4, <2>1, <2>2, <2>3, <2>4, <2>5, <2>6 DEF Step
<1>5. QED
  BY <1>1, <1>2, <1>3, <1>4 DEF Next, Update_AcceptThread

(* What is posted.                                                          *)
Places == posted.accp + indexQueue
PostedSteps ==
    /\ \/ Places' = Places
       \/ Places' = Places - 1 /\ \E w \in Worker : Accp_Complete(w) \/ Accp_Aborted(w)
       \/ /\ Places' = Places + 1
          /\ \E t \in Thread : ReleaseSession_Again_Net(t) \/ ReleaseSession_Again_Lan(t)
    /\ \/ posted'.recv = posted.recv
       \/ \E w \in Worker : Accp_Complete_Join(w) \/ Recv_Complete_Bad(w) \/ Recv_Zero(w)
       \/ \E t \in Thread : ReleaseSession_Leave(t)
    /\ \/ posted'.send = posted.send
       \/ \E w \in Worker : Send_Complete(w) \/ Send_Zero(w)
       \/ \E t \in Thread : Send_Post(t) \/ ReleaseSession_Leave(t)
    /\ \/ posted'.deadRecv = posted.deadRecv
       \/ \E w \in Worker : Recv_Zero(w)
       \/ \E t \in Thread : ReleaseSession_Leave(t)
    /\ \/ posted'.deadSend = posted.deadSend
       \/ \E w \in Worker : Send_Complete(w) \/ Send_Zero(w)
       \/ \E t \in Thread : ReleaseSession_Leave(t)

(* No other steps post or complete.                                         *)
LEMMA PostedStepsNext ==
    ASSUME Types, [Next]_vars
    PROVE  PostedSteps
<1>0. posted \in PostedRec /\ indexQueue \in Nat
  BY DEF Types, OtherTypes
<1>1. CASE \/ ServerStarted \/ PeerClose \/ UNCHANGED vars
           \/ Update_AcceptThread_Check \/ Update_AcceptThread_Sleep
  BY <1>0, <1>1 DEF PostedSteps, ServerStarted, PeerClose, vars, Update_AcceptThread_Check,
     Update_AcceptThread_Sleep, slotVars, serverVars, history, Places, PostedRec
<1>2. ASSUME NEW w \in Worker, Complete(w)
      PROVE  PostedSteps
  <2>1. CASE Recv_Complete(w)
    BY <1>0, <2>1 DEF PostedSteps, Recv_Complete, slotVars, serverVars, history, Places,
       PostedRec
  <2>2. CASE Accp_Complete(w)
    BY <1>0, <2>2 DEF PostedSteps, Accp_Complete, Places, PostedRec, slotVars, serverVars,
       history
  <2>3. CASE Accp_Aborted(w)
    BY <1>0, <2>3 DEF PostedSteps, Accp_Aborted, Places, PostedRec, slotVars, serverVars,
       history
  <2>4. CASE Recv_Complete_Bad(w)
    BY <1>0, <2>4 DEF PostedSteps, Recv_Complete_Bad, Places, PostedRec, slotVars, serverVars,
       history
  <2>5. CASE Recv_Zero(w)
    BY <1>0, <2>5 DEF PostedSteps, Recv_Zero, Places, PostedRec, slotVars, serverVars, history
  <2>6. CASE Send_Complete(w)
    BY <1>0, <2>6 DEF PostedSteps, Send_Complete, Places, PostedRec, slotVars, serverVars,
       history
  <2>7. CASE Send_Zero(w)
    BY <1>0, <2>7 DEF PostedSteps, Send_Zero, Places, PostedRec, slotVars, serverVars, history
  <2>8. QED
    BY <1>2, <2>1, <2>2, <2>3, <2>4, <2>5, <2>6, <2>7 DEF Complete
<1>3. ASSUME NEW t \in Caller, NEW id \in ID, NEW call \in {"send", "disconnect"},
             AcquireSessionLock(t, id, call)
      PROVE  PostedSteps
  BY <1>0, <1>3 DEF PostedSteps, AcquireSessionLock, slotVars, serverVars, history, Places,
     PostedRec
<1>4. ASSUME NEW t \in Thread, Step(t)
      PROVE  PostedSteps
  <2>1. CASE \/ Send_Complete_Next(t) \/ AcquireSessionLock_Ready(t)
             \/ AcquireSessionLock_Same(t) \/ SendPacket(t) \/ Disconnect(t)
             \/ Send_Post_Look(t) \/ Send_Post_Claim(t)
    BY <1>0, <2>1 DEF PostedSteps, Send_Complete_Next, AcquireSessionLock_Ready,
       AcquireSessionLock_Same, SendPacket, Disconnect, Send_Post_Look, Send_Post_Claim,
       slotVars, serverVars, history, Places, PostedRec
  <2>2. CASE \/ Send_Post_Test(t) \/ Send_Post_GiveUp(t) \/ Send_Post_Fail(t) \/ Unref(t)
             \/ ReleaseSession(t) \/ ReleaseSession_Count(t) \/ ReleaseSession_Free(t)
    BY <1>0, <2>2 DEF PostedSteps, Send_Post_Test, Send_Post_GiveUp, Send_Post_Fail, Unref,
       ReleaseSession, ReleaseSession_Count, ReleaseSession_Free, slotVars, serverVars,
       history, Places, PostedRec
  <2>3. CASE ReleaseSession_Flag(t)
    BY <1>0, <2>3 DEF PostedSteps, ReleaseSession_Flag, slotVars, serverVars, history, Places,
       PostedRec
  <2>4. CASE t \in Worker /\ Accp_Complete_Join(t)
    BY <1>0, <2>4 DEF PostedSteps, Accp_Complete_Join, Places, PostedRec, slotVars, serverVars,
       history
  <2>5. CASE Send_Post(t)
    BY <1>0, <2>5 DEF PostedSteps, Send_Post, Places, PostedRec, slotVars, serverVars, history
  <2>6. CASE ReleaseSession_Leave(t)
    BY <1>0, <2>6 DEF PostedSteps, ReleaseSession_Leave, Places, PostedRec, slotVars,
       serverVars, history
  <2>7. CASE ReleaseSession_Again_Net(t)
    BY <1>0, <2>7 DEF PostedSteps, ReleaseSession_Again_Net, Places, PostedRec, slotVars,
       serverVars, history
  <2>8. CASE ReleaseSession_Again_Lan(t)
    BY <1>0, <2>8 DEF PostedSteps, ReleaseSession_Again_Lan, Places, PostedRec, slotVars,
       serverVars, history
  <2>9. QED
    BY <1>4, <2>1, <2>2, <2>3, <2>4, <2>5, <2>6, <2>7, <2>8 DEF Step
<1>5. CASE Update_AcceptThread_Accept
  BY <1>5, <1>0 DEF Update_AcceptThread_Accept, slotVars, Places, PostedRec, PostedSteps
<1>6. QED
  BY <1>1, <1>2, <1>3, <1>4, <1>5 DEF Next, Update_AcceptThread

(* The socket, and the reason to end the connection.                        *)
SockSteps ==
    /\ \/ sock' \in {sock, "closed"}
       \/ sock' = "open" /\ \E w \in Worker : Accp_Complete(w)
       \/ /\ sock' = "listen"
          /\ \/ Update_AcceptThread_Accept
             \/ \E t \in Thread : ReleaseSession_Again_Lan(t)
       \/ /\ sock' = "shut"
          /\ \/ ended'
             \/ \E w \in Worker : Recv_Zero(w) \/ Send_Zero(w)
             \/ \E t \in Thread : Disconnect(t)
    /\ (ended => ended') \/ \E w \in Worker : Accp_Complete(w)

(* No other steps change the socket or end the connection.                  *)
LEMMA SockStepsNext ==
    ASSUME Types, [Next]_vars
    PROVE  SockSteps
<1>0. ended \in BOOLEAN
  BY DEF Types, OtherTypes
<1>1. CASE \/ ServerStarted \/ PeerClose \/ UNCHANGED vars
           \/ Update_AcceptThread_Check \/ Update_AcceptThread_Sleep
  <2>1. CASE PeerClose
    BY <1>0, <2>1 DEF SockSteps, PeerClose, Shutdown
  <2>2. CASE \/ ServerStarted \/ UNCHANGED vars \/ Update_AcceptThread_Check
             \/ Update_AcceptThread_Sleep
    BY <2>2 DEF ServerStarted, vars, Update_AcceptThread_Check, Update_AcceptThread_Sleep,
       slotVars, history, SockSteps
  <2>3. QED
    BY <1>1, <2>1, <2>2
<1>2. ASSUME NEW w \in Worker, Complete(w)
      PROVE  SockSteps
  <2>1. CASE \/ Accp_Aborted(w) \/ Recv_Complete(w) \/ Send_Complete(w)
    BY <1>0, <2>1 DEF SockSteps, Accp_Aborted, Recv_Complete, Send_Complete, slotVars,
       serverVars, history, Shutdown
  <2>2. CASE Accp_Complete(w)
    BY <1>0, <2>2 DEF SockSteps, Accp_Complete, Shutdown, slotVars, serverVars, history
  <2>3. CASE Recv_Complete_Bad(w)
    BY <1>0, <2>3 DEF SockSteps, Recv_Complete_Bad, Shutdown, slotVars, serverVars, history
  <2>4. CASE Recv_Zero(w)
    BY <1>0, <2>4 DEF SockSteps, Recv_Zero, Shutdown, slotVars, serverVars, history
  <2>5. CASE Send_Zero(w)
    BY <1>0, <2>5 DEF SockSteps, Send_Zero, Shutdown, slotVars, serverVars, history
  <2>6. QED
    BY <1>2, <2>1, <2>2, <2>3, <2>4, <2>5 DEF Complete
<1>3. ASSUME NEW t \in Caller, NEW id \in ID, NEW call \in {"send", "disconnect"},
             AcquireSessionLock(t, id, call)
      PROVE  SockSteps
  BY <1>0, <1>3 DEF SockSteps, AcquireSessionLock, slotVars, serverVars, history, Shutdown
<1>4. ASSUME NEW t \in Thread, Step(t)
      PROVE  SockSteps
  <2>1. CASE \/ Send_Complete_Next(t) \/ AcquireSessionLock_Ready(t)
             \/ AcquireSessionLock_Same(t) \/ SendPacket(t) \/ Send_Post_Look(t)
             \/ Send_Post_Claim(t) \/ Send_Post_Test(t)
    BY <1>0, <2>1 DEF SockSteps, Send_Complete_Next, AcquireSessionLock_Ready,
       AcquireSessionLock_Same, SendPacket, Send_Post_Look, Send_Post_Claim, Send_Post_Test,
       slotVars, serverVars, history, Shutdown
  <2>2. CASE \/ Send_Post_GiveUp(t) \/ Send_Post(t) \/ Send_Post_Fail(t) \/ Unref(t)
             \/ ReleaseSession(t) \/ ReleaseSession_Count(t) \/ ReleaseSession_Free(t)
    BY <1>0, <2>2 DEF SockSteps, Send_Post_GiveUp, Send_Post, Send_Post_Fail, Unref,
       ReleaseSession, ReleaseSession_Count, ReleaseSession_Free, slotVars, serverVars,
       history, Shutdown
  <2>3. CASE \/ ReleaseSession_Flag(t) \/ ReleaseSession_Again_Net(t)
    BY <1>0, <2>3 DEF SockSteps, ReleaseSession_Flag, ReleaseSession_Again_Net, slotVars,
       serverVars, history, Shutdown
  <2>4. CASE t \in Worker /\ Accp_Complete_Join(t)
    BY <1>0, <2>4 DEF SockSteps, Accp_Complete_Join, Shutdown, slotVars, serverVars, history
  <2>5. CASE Disconnect(t)
    BY <1>0, <2>5 DEF SockSteps, Disconnect, Shutdown, slotVars, serverVars, history
  <2>6. CASE ReleaseSession_Leave(t)
    BY <1>0, <2>6 DEF SockSteps, ReleaseSession_Leave, Shutdown, slotVars, serverVars, history
  <2>7. CASE ReleaseSession_Again_Lan(t)
    BY <1>0, <2>7 DEF SockSteps, ReleaseSession_Again_Lan, Shutdown, slotVars, serverVars,
       history
  <2>8. QED
    BY <1>4, <2>1, <2>2, <2>3, <2>4, <2>5, <2>6, <2>7 DEF Step
<1>5. CASE Update_AcceptThread_Accept
  BY <1>5 DEF Update_AcceptThread_Accept, slotVars, SockSteps
<1>6. QED
  BY <1>1, <1>2, <1>3, <1>4, <1>5 DEF Next, Update_AcceptThread

(* How a thread comes to be where it is after a step.                       *)
Became(t) ==
    /\ thread'[t].pc = "accepted" => thread[t].pc = "accepted" \/ Accp_Complete(t)
    /\ thread[t].pc = "accepted" => thread'[t].pc = "accepted" \/ Accp_Complete_Join(t)
    /\ thread'[t].pc = "sent" => thread[t].pc = "sent" \/ (t \in Worker /\ Send_Complete(t))
    /\ thread'[t].pc = "same" =>
          thread[t].pc = "same" \/ (AcquireSessionLock_Ready(t) /\ MayLock)
    /\ thread'[t].pc \in Locked =>
          /\ thread'[t].id = thread[t].id
          /\ \/ thread[t].pc \in Locked
             \/ AcquireSessionLock_Same(t) /\ client.clientID = thread[t].id
             \/ t \in Worker /\ Send_Complete_Next(t)
    /\ Sends(t)' =>
          \/ Sends(t)
          \/ t \in Worker /\ Send_Complete(t)
          \/ Send_Post_Claim(t) /\ ~client.bSend
    /\ thread'[t].pc = "count" =>
          thread'[t].gen = thread[t].gen /\ (thread[t].pc = "count" \/ ReleaseSession(t))
    /\ thread'[t].pc \in Releasing =>
          \/ thread[t].pc \in Releasing /\ thread'[t].gen = thread[t].gen
          \/ ReleaseSession_Count(t) /\ ~InUse
    /\ thread'[t].pc \in {"leave", "again"} =>
          /\ thread'[t].gen = thread[t].gen
          /\ \/ thread[t].pc \in {"leave", "again"}
             \/ ReleaseSession_Flag(t) /\ ~client.bDisconnectNow
    /\ thread'[t].pc = "again" => thread[t].pc = "again" \/ ReleaseSession_Leave(t)

(* There is no other way for a thread to get there.                         *)
LEMMA BecameNext ==
    ASSUME Types, [Next]_vars, NEW u \in Thread
    PROVE  Became(u)
<1>a. ASSUME thread'[u] = thread[u] PROVE Became(u)
  BY <1>a DEF Became, Sends
<1>b. ASSUME NEW t \in Thread, Others(t), t = u => Became(u) PROVE Became(u)
  BY <1>a, <1>b DEF Others
<1>1. CASE ServerStarted \/ PeerClose \/ Update_AcceptThread \/ UNCHANGED vars
  BY <1>1, <1>a DEF ServerStarted, PeerClose, Update_AcceptThread, Update_AcceptThread_Check,
     Update_AcceptThread_Sleep, Update_AcceptThread_Accept, vars
<1>2. ASSUME NEW w \in Worker, Complete(w)
      PROVE  Became(u)
  BY <1>2, CompleteMoves, <1>b DEF Became, Sends, Locked, Releasing
<1>3. ASSUME NEW t \in Caller, NEW id \in ID, NEW call \in {"send", "disconnect"},
             AcquireSessionLock(t, id, call)
      PROVE  Became(u)
  BY <1>3, AcquireMoves, <1>b DEF Became, Sends, Locked, Releasing
<1>4. ASSUME NEW t \in Thread, Step(t)
      PROVE  Became(u)
  <2>0. Others(t) /\ (thread[t].pc = "accepted" => Accp_Complete_Join(t))
    BY <1>4, StepMoves
  <2> SUFFICES Became(t)
    BY <1>b, <2>0
  <2>1. CASE AcquireSessionLock_Ready(t)
    <3>1. Goes(t, "check", {"same", "unref"})
      BY <2>1, StepGoes
    <3>2. thread'[t].pc = "same" => MayLock
      BY <2>1, GotoGoes, EveryPC DEF AcquireSessionLock_Ready, Goes
    <3>3. QED
      BY <2>0, <2>1, <3>1, <3>2 DEF Goes, Became, Sends, Locked, Releasing
  <2>2. CASE AcquireSessionLock_Same(t)
    <3>1. Goes(t, "same", {"locked", "unref"})
      BY <2>2, StepGoes
    <3>2. thread'[t].pc = "locked" => client.clientID = thread[t].id
      BY <2>2, GotoGoes, EveryPC DEF AcquireSessionLock_Same, Goes
    <3>3. QED
      BY <2>0, <2>2, <3>1, <3>2 DEF Goes, Became, Sends, Locked, Releasing
  <2>3. CASE t \in Worker /\ (Accp_Complete_Join(t) \/ Send_Complete_Next(t))
    BY <2>3, StepGoes, <2>0 DEF Goes, Became, Sends, Locked, Releasing
  <2>4. CASE Send_Post_Claim(t)
    <3>1. Goes(t, "claim", {"unref", "test"})
      BY <2>4, StepGoes
    <3>2. thread'[t].pc = "test" => ~client.bSend
      BY <2>4, GotoGoes, EveryPC DEF Send_Post_Claim, ClaimedBefore, Goes
    <3>3. QED
      BY <2>0, <2>4, <3>1, <3>2 DEF Goes, Became, Sends, Locked, Releasing
  <2>5. CASE \/ SendPacket(t) \/ Disconnect(t) \/ Send_Post_Look(t) \/ Send_Post_Test(t)
             \/ Send_Post_GiveUp(t) \/ Send_Post(t) \/ Send_Post_Fail(t)
    BY <2>5, StepGoes, <2>0 DEF Goes, Became, Sends, Locked, Releasing
  <2>6. CASE ReleaseSession(t) \/ ReleaseSession_Free(t) \/ ReleaseSession_Leave(t)
    BY <2>6, StepGoes, <2>0 DEF Goes, Became, Sends, Locked, Releasing
  <2>7. CASE Unref(t)
    BY <2>7, UnrefMoves, <2>0 DEF Became, Sends, Locked, Releasing
  <2>8. CASE ReleaseSession_Count(t)
    BY <2>8, CountMoves, <2>0 DEF Became, Sends, Locked, Releasing
  <2>9. CASE ReleaseSession_Flag(t)
    BY <2>9, FinishMoves, <2>0, GotoGoes, EveryPC DEF ReleaseSession_Flag, At, Idle, Became, Sends,
       Locked, Releasing, Goes
  <2>10. CASE ReleaseSession_Again_Net(t) \/ ReleaseSession_Again_Lan(t)
    BY <2>10, FinishMoves, <2>0 DEF ReleaseSession_Again_Net, ReleaseSession_Again_Lan, Idle,
       Became, Sends, Locked, Releasing
  <2>11. QED
    BY <1>4, <2>1, <2>2, <2>3, <2>4, <2>5, <2>6, <2>7, <2>8, <2>9, <2>10 DEF Step
<1>5. QED
  BY <1>1, <1>2, <1>3, <1>4 DEF Next

-----------------------------------------------------------------------------
(* The life of a slot.                                                      *)

(* What every step of the proof starts from.                                *)
LEMMA Starting ==
    ASSUME BaseInv, [Next]_vars
    PROVE  /\ Types /\ Types' /\ ThreadsOK /\ AcceptorOK
           /\ ClientSteps /\ CounterSteps /\ PostedSteps /\ SockSteps
           /\ \A t \in Thread : Became(t)
           /\ curID \in Nat /\ curID' \in Nat /\ curUser \in Int /\ off.user \in Int
           /\ posted.accp \in Nat /\ indexQueue \in Nat
           /\ posted.recv \in Nat /\ posted.send \in Nat
           /\ posted.deadRecv \in Nat /\ posted.deadSend \in Nat
           /\ client \in ClientRec /\ client' \in ClientRec
           /\ posted \in PostedRec /\ posted' \in PostedRec /\ indexQueue' \in Nat
           /\ off \in OffRec /\ Worker \subseteq Thread /\ Caller \subseteq Thread
           /\ Worker \cap Caller = {}
  BY TypesIs, TypesNext, ClientStepsNext, CounterStepsNext, PostedStepsNext, SockStepsNext,
     BecameNext, IocpServerAssumption DEF BaseInv, Types, OtherTypes, OffRec, PostedRec, Thread

(* Whoever serves a client has a client to serve that nobody releases.      *)
LEMMA Served ==
    ASSUME ClientsInv, PlaceInv, ReleaseInv
    PROVE  /\ \A t \in Thread : thread[t].pc \in Locked \cup {"accepted", "sent"} =>
                 Used /\ client.clientID = curID /\ \A u \in Thread : ~Releases(u)
           /\ posted.recv # 0 \/ posted.send # 0 =>
                 Used /\ client.clientID = curID /\ \A u \in Thread : ~Releases(u)
           /\ posted.deadRecv = 0 /\ posted.deadSend = 0
           /\ \A t \in Thread : thread[t].pc \in {"leave", "again"} => Releases(t) /\ Silent
BY DEF ClientsInv, PlaceInv, ReleaseInv, Silent, Releases, Releasing

(* A new client meets an idle slot.                                         *)
LEMMA Accepts ==
    ASSUME BaseInv, Slot, [Next]_vars, NEW w \in Worker, Accp_Complete(w)
    PROVE  /\ ~Used /\ Silent /\ Places = 1 /\ posted.accp = 1 /\ indexQueue = 0
           /\ \A t \in Thread : thread[t].pc \notin {"leave", "again"}
           /\ curID' = curID + 1 /\ client'.clientID = curID + 1 /\ Used'
           /\ client'.bSend = FALSE /\ client'.sendq = <<>> /\ wire' = <<>>
           /\ posted' = [posted EXCEPT !.accp = 0] /\ indexQueue' = 0
           /\ UNCHANGED <<left, curUser, off>>
           /\ sock' = "open" /\ ended' = FALSE
           /\ Others(w) /\ thread'[w].pc = "accepted"
<1>0. Types /\ client \in ClientRec /\ posted.accp \in Nat /\ indexQueue \in Nat /\ curID \in Nat
      /\ posted \in PostedRec
  BY Starting
<1>1. /\ curID' = curID + 1 /\ client' = [Joining(client) EXCEPT !.clientID = curID + 1]
      /\ posted.accp > 0 /\ posted' = [posted EXCEPT !.accp = @ - 1]
      /\ sock' = "open" /\ ended' = FALSE /\ wire' = <<>> /\ indexQueue' = indexQueue
      /\ UNCHANGED <<left, curUser, off>>
  BY DEF Accp_Complete, serverVars
<1>2. /\ ~Used /\ Places = 1 /\ posted.accp = 1 /\ indexQueue = 0
      /\ \A t \in Thread : thread[t].pc \notin {"leave", "again"}
  BY <1>0, <1>1 DEF Slot, PlaceInv, Places
<1>3. Silent
  BY <1>2 DEF Slot, ReleaseInv
<1>4. client'.clientID = curID + 1 /\ client'.bSend = FALSE /\ client'.sendq = <<>>
  BY <1>0, <1>1 DEF Joining, ClientRec
<1>5. Used'
  BY <1>0, <1>4 DEF Used
<1>6. Others(w) /\ thread'[w].pc = "accepted"
  BY <1>0, StepGoes, Starting DEF Goes
<1>7. posted' = [posted EXCEPT !.accp = 0]
  BY <1>0, <1>1, <1>2
<1>8. QED
  BY <1>1, <1>2, <1>3, <1>4, <1>5, <1>6, <1>7

(* A step that is not an accept leaves the connection what it is.           *)
LEMMA Apart ==
    ASSUME BaseInv, [Next]_vars, curID' = curID
    PROVE  ~\E t \in Thread : Accp_Complete(t)
BY Starting DEF Accp_Complete

(* Every step keeps the clients that have left the ones before the present. *)
LEMMA ClientsNext ==
    ASSUME BaseInv, Slot, [Next]_vars
    PROVE  ClientsInv'
<1>0. /\ ClientsInv /\ PlaceInv /\ ReleaseInv
      /\ ClientSteps /\ CounterSteps /\ \A t \in Thread : Became(t)
      /\ curID \in Nat /\ curUser \in Int /\ off.user \in Int /\ client \in ClientRec
      /\ off \in OffRec
      /\ Worker \subseteq Thread
  BY Starting DEF Slot
<1> DEFINE arriving == \E w \in Worker : At(w, "accepted")
<1>1. CASE \E w \in Worker : Accp_Complete(w)
  <2>1. PICK w \in Worker : Accp_Complete(w)
    BY <1>1
  <2>2. /\ ~Used /\ curID' = curID + 1 /\ client'.clientID = curID + 1 /\ Used'
        /\ UNCHANGED <<left, curUser, off>> /\ thread'[w].pc = "accepted"
    BY <2>1, Accepts
  <2>3. arriving'
    BY <2>1, <2>2 DEF At
  <2>4. QED
    BY <1>0, <2>2, <2>3 DEF ClientsInv
<1>2. CASE \E t \in Thread : ReleaseSession_Leave(t)
  <2>1. PICK t \in Thread : ReleaseSession_Leave(t)
    BY <1>2
  <2>2. Silent
    BY <1>0, <2>1, Served DEF ReleaseSession_Leave, At
  <2>a. curID' = curID
    BY <2>1 DEF ReleaseSession_Leave
  <2>3. ~arriving /\ ~arriving'
    BY <1>0, <2>2, <2>a, Apart DEF Silent, Became, At
  <2>4. ~Used' /\ curID' = curID /\ curUser' = curUser - 1
    BY <1>0, <2>1 DEF ReleaseSession_Leave, Used, ClientRec
  <2>5. CASE Used
    BY <1>0, <2>1, <2>5, <2>3, <2>4 DEF ReleaseSession_Leave, Used, ClientsInv
  <2>6. CASE ~Used
    BY <1>0, <2>1, <2>6, <2>3, <2>4 DEF ReleaseSession_Leave, Used, OffRec, ClientsInv
  <2>7. QED
    BY <2>5, <2>6
<1>3. CASE \E w \in Worker : Accp_Complete_Join(w)
  <2>1. PICK w \in Worker : Accp_Complete_Join(w)
    BY <1>3
  <2>2. /\ thread[w].pc = "accepted" /\ curUser' = curUser + 1 /\ curID' = curID
        /\ client'.clientID = client.clientID /\ UNCHANGED <<left, off>>
    BY <1>0, <2>1 DEF Accp_Complete_Join, ClientRec, At
  <2>3. thread'[w].pc # "accepted"
    BY <1>0, <2>1, StepGoes, Starting DEF Goes
  <2>4. Used /\ arriving
    BY <1>0, <2>1, <2>2, Served DEF At
  <2>5. ~arriving'
    BY <1>0, <2>2, Apart, <2>1, <2>3 DEF Became, At, PlaceInv
  <2>6. QED
    BY <1>0, <2>2, <2>4, <2>5 DEF ClientsInv, Used
<1>4. CASE /\ ~\E w \in Worker : Accp_Complete(w) \/ Accp_Complete_Join(w)
           /\ ~\E t \in Thread : ReleaseSession_Leave(t)
  BY <1>0, <1>4 DEF ClientSteps, CounterSteps, Became, At, ClientsInv, Used
<1>5. QED
  BY <1>1, <1>2, <1>3, <1>4

(* Who releases in time does it for the present connection.                 *)
LEMMA Timely ==
    ASSUME NoRace', window \subseteq window', NEW t \in Thread
    PROVE  /\ ReleaseSession(t) => thread[t].gen = curID
           /\ ReleaseSession_Count(t) /\ ~InUse => thread[t].gen = curID
           /\ ReleaseSession_Free(t) => thread[t].gen = curID
           /\ ReleaseSession_Flag(t) /\ ~client.bDisconnectNow => thread[t].gen = curID
BY DEF NoRace, Overtaken, ReleaseSession, ReleaseSession_Count, ReleaseSession_Free,
   ReleaseSession_Flag

(* The first to set bDisconnectNow goes on to report the client gone.       *)
LEMMA Flags ==
    ASSUME BaseInv, [Next]_vars, NEW t \in Thread, ReleaseSession_Flag(t)
    PROVE  /\ thread[t].pc = "flag" /\ curID' = curID /\ client'.bDisconnectNow
           /\ ~client.bDisconnectNow => Goes(t, "flag", {"leave"})
<1>1. /\ thread[t].pc = "flag" /\ curID' = curID /\ client'.bDisconnectNow
      /\ ~client.bDisconnectNow => Goto(t, "leave")
  BY Starting DEF ReleaseSession_Flag, At, ClientRec
<1>2. ~client.bDisconnectNow => Goes(t, "flag", {"leave"})
  BY <1>1, Starting, GotoGoes, EveryPC
<1>3. QED
  BY <1>1, <1>2

(* Every step without a race keeps the slot in one place.                   *)
LEMMA PlaceNext ==
    ASSUME BaseInv, Slot, [Next]_vars, NoRace'
    PROVE  PlaceInv'
<1>0. /\ ClientsInv /\ PlaceInv /\ FirstInv /\ ReleaseInv
      /\ ClientSteps /\ CounterSteps /\ PostedSteps /\ \A t \in Thread : Became(t)
      /\ Worker \subseteq Thread /\ client \in ClientRec /\ client' \in ClientRec
      /\ curID \in Nat /\ Places \in Nat /\ Places' \in Nat
  BY Starting DEF Slot, Places, PostedRec
<1> DEFINE Leaves(t) == thread[t].pc \in {"leave", "again"}
<1>1. SUFFICES /\ Places' <= 1 /\ (Used' => Places' = 0)
               /\ \A t \in Thread : Leaves(t)' =>
                    /\ thread'[t].gen = curID' /\ client'.bDisconnectNow /\ Places' = 0
                    /\ thread'[t].pc = "again" => ~Used'
                    /\ \A u \in Thread : Leaves(u)' => u = t
               /\ \A v, w \in Worker : At(v, "accepted")' /\ At(w, "accepted")' => v = w
  BY DEF PlaceInv, Places
<1>2. CASE \E w \in Worker : Accp_Complete(w)
  <2>1. PICK w \in Worker : Accp_Complete(w)
    BY <1>2
  <2>2. /\ Silent /\ \A t \in Thread : ~Leaves(t)
        /\ posted' = [posted EXCEPT !.accp = 0] /\ indexQueue' = 0
        /\ Others(w) /\ thread'[w].pc = "accepted"
    BY <2>1, Accepts
  <2>3. Places' = 0
    BY <2>2, Starting DEF Places, PostedRec
  <2>4. \A t \in Thread : ~Leaves(t)'
    BY <2>2 DEF Others
  <2>5. \A v \in Worker : At(v, "accepted")' => v = w
    BY <1>0, <2>2 DEF Others, At, Silent
  <2>6. QED
    BY <2>3, <2>4, <2>5
<1>3. CASE \E t \in Thread : ReleaseSession_Again_Net(t) \/ ReleaseSession_Again_Lan(t)
  <2>1. PICK t \in Thread : ReleaseSession_Again_Net(t) \/ ReleaseSession_Again_Lan(t)
    BY <1>3
  <2>2. /\ thread[t].pc = "again" /\ Finish(t) /\ curID' = curID
        /\ client'.clientID = client.clientID
    BY <1>0, <2>1 DEF ReleaseSession_Again_Net, ReleaseSession_Again_Lan, At, slotVars,
       ClientRec
  <2>3. Others(t) /\ thread'[t].pc = "idle"
    BY <2>2, Starting, FinishMoves DEF Idle
  <2>4. Places = 0 /\ ~Used /\ \A u \in Thread : Leaves(u) => u = t
    BY <1>0, <2>2 DEF PlaceInv, Places
  <2>5. Places' <= 1 /\ ~Used'
    BY <1>0, <2>2, <2>4 DEF PostedSteps, Used
  <2>6. \A u \in Thread : ~Leaves(u)'
    BY <2>3, <2>4 DEF Others
  <2>7. \A v \in Worker : At(v, "accepted")' => At(v, "accepted")
    BY <1>0, <2>3 DEF Others, At
  <2>8. QED
    BY <1>0, <2>5, <2>6, <2>7 DEF PlaceInv
<1>4. CASE /\ ~\E w \in Worker : Accp_Complete(w)
           /\ ~\E t \in Thread : ReleaseSession_Again_Net(t) \/ ReleaseSession_Again_Lan(t)
  <2>1. curID' = curID /\ Places' <= Places
    BY <1>0, <1>4 DEF CounterSteps, PostedSteps
  <2>2. Used' => Used
    BY <1>0, <1>4 DEF ClientSteps, Used, ReleaseSession_Leave, ClientRec
  <2>3. client.bDisconnectNow => client'.bDisconnectNow
    BY <1>0, <1>4, Flags DEF ClientSteps
  <2>4. ~\E t \in Thread : Accp_Complete(t)
    BY <2>1, Apart
  <2>5. \A v \in Worker : At(v, "accepted")' => At(v, "accepted")
    BY <1>0, <2>4 DEF Became, At
  <2>6. ASSUME NEW t \in Thread, Leaves(t)'
        PROVE  /\ thread'[t].gen = curID' /\ client'.bDisconnectNow /\ Places' = 0
               /\ thread'[t].pc = "again" => ~Used'
               /\ \A u \in Thread : Leaves(u)' => u = t
    <3>1. CASE Leaves(t)
      BY <1>0, <3>1, <2>6, <2>1, <2>2, <2>3 DEF PlaceInv, Places, Became, ReleaseSession_Leave,
         Used, ClientRec
    <3>2. CASE ~Leaves(t)
      BY <1>0, <2>6, <3>2, Flags, Timely, <2>1 DEF Became, CounterSteps, FirstInv, PlaceInv,
         Places, Goes, Others
    <3>3. QED
      BY <3>1, <3>2
  <2>7. Places' <= 1 /\ (Used' => Places' = 0)
    BY <1>0, <2>1, <2>2 DEF PlaceInv, Places
  <2>8. \A v, w \in Worker : At(v, "accepted")' /\ At(w, "accepted")' => v = w
    BY <1>0, <2>5 DEF PlaceInv
  <2>9. QED
    BY <2>6, <2>7, <2>8
<1>5. QED
  BY <1>2, <1>3, <1>4

(* Every step without a race keeps bDisconnectNow set while the slot rests. *)
LEMMA FirstNext ==
    ASSUME BaseInv, Slot, [Next]_vars, NoRace'
    PROVE  FirstInv'
<1>0. /\ ClientsInv /\ PlaceInv /\ FirstInv /\ ReleaseInv
      /\ ClientSteps /\ CounterSteps /\ PostedSteps
      /\ client \in ClientRec /\ client' \in ClientRec /\ posted \in PostedRec
      /\ curID \in Nat /\ posted.accp \in Nat /\ indexQueue \in Nat /\ Types /\ AcceptorOK
  BY Starting DEF Slot
<1> DEFINE alone(t) == \A u \in Thread : thread[u].pc # "idle" => u = t
<1>1. SUFFICES ASSUME ~client'.bDisconnectNow, ~Used'
               PROVE  /\ curID' = 0
                      /\ \A t \in Thread : thread'[t].pc # "idle" => Places' = 0 /\ alone(t)'
  BY DEF FirstInv, Places
<1>2. ~\E w \in Worker : Accp_Complete(w)
  BY <1>1, Accepts
<1>3. ~client.bDisconnectNow
  BY <1>0, <1>1, <1>2, Flags DEF ClientSteps
<1>4. \A t \in Thread : thread[t].pc \notin {"leave", "again"}
  BY <1>0, <1>3 DEF PlaceInv
<1>5. client'.clientID = client.clientID /\ curID' = curID
  BY <1>0, <1>2, <1>4 DEF ClientSteps, CounterSteps, ReleaseSession_Leave, At
<1>6. /\ ~Used /\ Silent /\ curID = 0 /\ curID' = 0
      /\ \A t \in Thread : thread[t].pc # "idle" => Places = 0 /\ alone(t)
  BY <1>0, <1>1, <1>3, <1>5 DEF FirstInv, ReleaseInv, Used, Places
<1>7. CASE ServerStarted \/ PeerClose \/ Update_AcceptThread \/ UNCHANGED vars
  <2>1. UNCHANGED thread
    BY <1>7 DEF ServerStarted, PeerClose, Update_AcceptThread, Update_AcceptThread_Check,
       Update_AcceptThread_Sleep, Update_AcceptThread_Accept, vars
  <2>2. Places' = Places
    <3>1. \/ UNCHANGED indexQueue /\ UNCHANGED posted
          \/ indexQueue' = indexQueue - 1 /\ posted' = [posted EXCEPT !.accp = @ + 1]
      BY <1>7 DEF ServerStarted, PeerClose, Update_AcceptThread, Update_AcceptThread_Check,
         Update_AcceptThread_Sleep, Update_AcceptThread_Accept, vars, slotVars, serverVars
    <3>2. QED
      BY <1>0, <3>1 DEF Places, PostedRec
  <2>3. QED
    BY <1>6, <2>1, <2>2
<1>8. ASSUME NEW w \in Worker, Complete(w)
      PROVE  \A t \in Thread : thread'[t].pc # "idle" => Places' = 0 /\ alone(t)'
  <2>1. w \in Thread /\ Others(w)
    BY <1>0, <1>8, CompleteMoves
  <2>2. Accp_Aborted(w)
    BY <1>0, <1>2, <1>6, <1>8 DEF Complete, Recv_Complete, Recv_Complete_Bad, Recv_Zero,
       Send_Complete, Send_Zero, Silent, ReleaseInv
  <2>3. posted.accp > 0 /\ posted' = [posted EXCEPT !.accp = @ - 1] /\ indexQueue' = indexQueue
    BY <2>2 DEF Accp_Aborted, serverVars
  <2>4. Places = 1 /\ Places' = 0
    BY <1>0, <2>3 DEF PlaceInv, Places, PostedRec
  <2>5. \A t \in Thread : thread'[t].pc # "idle" => t = w
    BY <1>6, <2>1, <2>4 DEF Others
  <2>6. QED
    BY <2>4, <2>5
<1>9. ASSUME NEW t \in Caller, NEW id \in ID, NEW call \in {"send", "disconnect"},
             AcquireSessionLock(t, id, call)
      PROVE  FALSE
  BY <1>6, <1>9 DEF AcquireSessionLock, Joined, ID
<1>10. ASSUME NEW t \in Thread, Step(t)
       PROVE  \A u \in Thread : thread'[u].pc # "idle" => Places' = 0 /\ alone(u)'
  BY <1>0, <1>10, StepMoves, <1>6, Starting, <1>4 DEF Others, Places, PostedRec,
     ReleaseSession_Again_Net, ReleaseSession_Again_Lan, At, PostedSteps
<1>11. QED
  BY <1>6, <1>7, <1>8, <1>9, <1>10 DEF Next

(* Who comes to hold the slot holds it for a client that is there; if it is *)
(* being released, that is a race, and one that CNetServer does not have.   *)
LEMMA ComesIn ==
    ASSUME BaseInv, ClientsInv, ReleaseInv, NEW t \in Thread,
           AcquireSessionLock_Same(t), client.clientID = thread[t].id
    PROVE  /\ Used /\ client' = client /\ thread[t].pc = "same"
           /\ \A u \in Thread : Releases(u) => Lan /\ "late" \in window'
<1>1. thread[t].pc = "same" /\ client' = client
  BY DEF AcquireSessionLock_Same, At, slotVars
<1>2. thread[t].id \in ID
  BY <1>1 DEF BaseInv, ThreadsOK, ThreadOK, LockSteps
<1>3. Used /\ client.clientID = curID
  BY <1>2, IocpServerAssumption DEF Used, ID, ClientsInv
<1>4. kind \in {"Net", "Lan"}
  BY TypesIs, IocpServerAssumption DEF BaseInv, Types, OtherTypes
<1>5. ASSUME NEW u \in Thread, Releases(u) PROVE Lan /\ "late" \in window'
  BY <1>1, <1>5, <1>3, <1>4 DEF ReleaseInv, Releases, AcquireSessionLock_Same, Net, Lan
<1>6. QED
  BY <1>1, <1>3, <1>5

(* A slot stays silent until somebody comes in.                             *)
LEMMA SilentKept ==
    ASSUME BaseInv, Slot, [Next]_vars, curID' = curID, Silent
    PROVE  \/ Silent'
           \/ \E t \in Thread : AcquireSessionLock_Same(t) /\ client.clientID = thread[t].id
<1>0. /\ PostedSteps /\ \A t \in Thread : Became(t)
      /\ posted.deadRecv = 0 /\ posted.deadSend = 0 /\ posted.recv = 0 /\ posted.send = 0
      /\ posted \in PostedRec /\ Worker \subseteq Thread
  BY Starting DEF Slot, ReleaseInv, Silent
<1>1. ~\E t \in Thread : Accp_Complete(t)
  BY Apart
<1>2. \A t \in Thread : /\ ~Send_Complete(t) /\ ~Send_Zero(t) /\ ~Recv_Zero(t)
                        /\ ~Recv_Complete_Bad(t)
  BY <1>0 DEF Send_Complete, Send_Zero, Recv_Zero, Recv_Complete_Bad
<1>3. \A t \in Thread : ~Accp_Complete_Join(t) /\ ~Send_Complete_Next(t) /\ ~Send_Post(t)
  BY DEF Silent, Accp_Complete_Join, Send_Complete_Next, Send_Post, At, Locked
<1>4. \A t \in Thread : ReleaseSession_Leave(t) => posted'.recv = 0 /\ posted'.send = 0
  BY <1>0 DEF ReleaseSession_Leave, PostedRec
<1>5. posted'.recv = 0 /\ posted'.send = 0
  BY <1>0, <1>2, <1>3, <1>4 DEF PostedSteps
<1>6. ASSUME NEW t \in Thread, thread'[t].pc \in Locked \cup {"accepted", "sent"}
      PROVE  AcquireSessionLock_Same(t) /\ client.clientID = thread[t].id
  BY <1>0, <1>1, <1>2, <1>3, <1>6 DEF Became, Silent
<1>7. QED
  BY <1>5, <1>6 DEF Silent

(* Every step without a race leaves a slot that is released to its releaser.*)
LEMMA ReleaseNext ==
    ASSUME BaseInv, Slot, [Next]_vars, NoRace'
    PROVE  ReleaseInv'
<1>0. /\ ClientsInv /\ PlaceInv /\ ReleaseInv /\ ThreadsOK
      /\ ClientSteps /\ CounterSteps /\ PostedSteps /\ \A t \in Thread : Became(t)
      /\ client \in ClientRec /\ client' \in ClientRec /\ posted \in PostedRec
      /\ curID \in Nat /\ Worker \subseteq Thread /\ Types
      /\ posted.deadRecv = 0 /\ posted.deadSend = 0
  BY Starting DEF Slot, ReleaseInv
<1>1. CASE \E w \in Worker : Accp_Complete(w)
  <2>1. PICK w \in Worker : Accp_Complete(w)
    BY <1>1
  <2>2. /\ Used' /\ curID' = curID + 1 /\ Others(w) /\ thread'[w].pc = "accepted"
        /\ posted' = [posted EXCEPT !.accp = 0]
    BY <2>1, Accepts
  <2>3. posted'.deadRecv = 0 /\ posted'.deadSend = 0
    BY <1>0, <2>2 DEF PostedRec
  <2>4. ASSUME NEW t \in Thread, t # w PROVE thread'[t].gen # curID'
    BY <1>0, <2>2, <2>4 DEF Others, ThreadsOK, ThreadOK, Types, ThreadRec
  <2>5. \A t \in Thread : thread'[t].gen = curID' => thread'[t].pc = "accepted"
    BY <2>2, <2>4
  <2>6. \A t \in Thread : ~Releases(t)'
    BY <2>5 DEF Releases, Releasing
  <2>7. QED
    BY <2>2, <2>3, <2>5, <2>6 DEF ReleaseInv
<1>2. CASE ~\E w \in Worker : Accp_Complete(w)
  <2>1. curID' = curID
    BY <1>0, <1>2 DEF CounterSteps
  <2>a. kind' = kind /\ window \subseteq window'
    BY <1>0 DEF CounterSteps
  <2>2. posted'.deadRecv = 0 /\ posted'.deadSend = 0
    <3>1. ASSUME NEW t \in Thread, ReleaseSession_Leave(t)
          PROVE  posted'.deadRecv = 0 /\ posted'.deadSend = 0
      BY <1>0, <3>1, Served DEF ReleaseSession_Leave, At, Silent, PostedRec
    <3>2. ASSUME NEW w \in Worker, Recv_Zero(w)
          PROVE  posted'.deadRecv = 0
      BY <1>0, <3>2 DEF Recv_Zero, PostedRec
    <3>3. ASSUME NEW w \in Worker, Send_Complete(w) \/ Send_Zero(w)
          PROVE  posted'.deadSend = 0
      <4>1. posted' = [posted EXCEPT !.send = @ - 1]
        <5>1. CASE Send_Complete(w)
          BY <1>0, <5>1 DEF Send_Complete
        <5>2. CASE Send_Zero(w)
          BY <1>0, <5>2 DEF Send_Zero
        <5>3. QED
          BY <3>3, <5>1, <5>2
      <4>2. QED
        BY <1>0, <4>1 DEF PostedRec
    <3>4. QED
      BY <1>0, <3>1, <3>2, <3>3 DEF PostedSteps
  <2>3. ~Used' => Silent'
    <3>1. SUFFICES ASSUME ~Used' PROVE Silent'
      OBVIOUS
    <3>2. Silent
      BY <1>0, <1>2, <3>1, Served DEF ReleaseInv, ClientSteps, Used, ReleaseSession_Leave, At
    <3>3. ~\E t \in Thread : AcquireSessionLock_Same(t) /\ client.clientID = thread[t].id
      BY <1>0, <3>1, ComesIn DEF Used
    <3>4. QED
      BY <2>1, <3>2, <3>3, SilentKept
  <2>4. ASSUME NEW t \in Thread, Releases(t)'
        PROVE  /\ Silent'
               /\ Net => client.bReadyToDisconnect /\ \A u \in Thread : thread[u].pc # "same"
    <3>1. CASE thread[t].pc \in Releasing /\ thread'[t].gen = thread[t].gen
      BY <1>0, <2>1, <2>4, <3>1, ComesIn, SilentKept DEF Releases, ReleaseInv, NoRace
    <3>2. CASE ReleaseSession_Count(t) /\ ~InUse
      <4>1. client.ioCount = 0 /\ thread[t].pc = "count"
        BY <3>2 DEF InUse, ReleaseSession_Count, At
      <4>2. /\ \A u \in Thread : thread[u].pc \notin Holding
            /\ posted = [accp |-> 0, recv |-> 0, send |-> 0, deadRecv |-> 0, deadSend |-> 0]
        BY <4>1, HolderCounts
      <4>3. Silent /\ \A u \in Thread : thread[u].pc # "same"
        BY <4>2 DEF Silent, Holding
      <4>4. ~\E u \in Thread : AcquireSessionLock_Same(u) /\ client.clientID = thread[u].id
        BY <4>3 DEF AcquireSessionLock_Same, At
      <4>5. thread[t].gen = curID
        BY <2>a, <3>2, Timely
      <4>6. QED
        BY <1>0, <2>1, <4>1, <4>3, <4>4, <4>5, SilentKept DEF ReleaseInv
    <3>3. QED
      BY <1>0, <2>4, <3>1, <3>2 DEF Became, Releases
  <2>5. ASSUME Net
        PROVE  /\ client.bReadyToDisconnect => client'.bReadyToDisconnect
               /\ \A t \in Thread : ReleaseSession(t) => client'.bReadyToDisconnect
    BY <1>0, <2>5, <1>2 DEF ReleaseSession, ClientRec, ClientSteps
  <2>6. ASSUME Net, NEW t \in Thread, thread'[t].pc = "count", thread'[t].gen = curID'
        PROVE  client'.bReadyToDisconnect
    BY <1>0, <2>1, <2>5, <2>6 DEF Became, ReleaseInv
  <2>7. ASSUME Net, NEW t \in Thread, Releases(t)'
        PROVE  client'.bReadyToDisconnect /\ \A u \in Thread : thread'[u].pc # "same"
    BY <2>4, <2>7, <1>0, <2>5 DEF Became, MayLock
  <2>8. QED
    BY <2>a, <2>2, <2>3, <2>4, <2>6, <2>7 DEF ReleaseInv, Net
<1>3. QED
  BY <1>1, <1>2

(* Every step keeps the race "late" out of CNetServer, but for the other.   *)
LEMMA LateNext ==
    ASSUME IInv, [Next]_vars
    PROVE  LateInv'
<1>0. CounterSteps /\ LateInv /\ BaseInv
  BY Starting DEF IInv
<1>1. kind' = kind /\ window \subseteq window'
  BY <1>0 DEF CounterSteps
<1>2. SUFFICES ASSUME "late" \in window', "overtaken" \notin window' PROVE Lan
  BY <1>1 DEF LateInv, Lan
<1>3. CASE "late" \in window
  BY <1>0, <1>1, <1>2, <1>3 DEF LateInv
<1>4. CASE "late" \notin window
  BY <1>1, <1>2, <1>4, <1>0, ComesIn DEF IInv, SlotInv, NoRace, CounterSteps,
     AcquireSessionLock_Same, Slot, ClientsInv, Releases
<1>5. QED
  BY <1>3, <1>4

(* Every step keeps a connection alive that has no reason to end.           *)
LEMMA EndNext ==
    ASSUME BaseInv, Slot, [Next]_vars
    PROVE  EndInv'
<1>0. /\ ClientsInv /\ PlaceInv /\ ReleaseInv /\ EndInv /\ OwnInv /\ ThreadsOK /\ AcceptorOK
      /\ ClientSteps /\ CounterSteps /\ PostedSteps /\ SockSteps /\ \A t \in Thread : Became(t)
      /\ client \in ClientRec /\ client' \in ClientRec /\ posted \in PostedRec
      /\ posted.accp \in Nat /\ indexQueue \in Nat /\ posted.recv \in Nat
      /\ curID \in Nat /\ Worker \subseteq Thread
      /\ posted.deadRecv = 0 /\ posted.deadSend = 0
  BY Starting DEF Slot, ReleaseInv
<1> DEFINE arriving == \E w \in Worker : At(w, "accepted")
<1>1. CASE \E w \in Worker : Accp_Complete(w)
  BY <1>1, Accepts DEF At, EndInv
<1>2. CASE ~\E w \in Worker : Accp_Complete(w)
  <2>1. curID' = curID /\ (ended => ended')
    BY <1>0, <1>2 DEF CounterSteps, SockSteps
  <2>2. Used' => Used
    BY <1>0, <1>2 DEF ClientSteps, Used, ReleaseSession_Leave, ClientRec
  <2>3. \A t \in Thread : ReleaseSession_Leave(t) => ~Used' /\ (Used => ended)
    BY <1>0, Served DEF ReleaseSession_Leave, Used, ClientRec, At, Silent, EndInv
  <2>4. \A w \in Worker : (Recv_Zero(w) => ended) /\ (Send_Zero(w) => ended)
    <3>1. \A w \in Worker : Recv_Zero(w) => sock = "shut"
      BY <1>0 DEF Recv_Zero
    <3>2. \A w \in Worker : Send_Zero(w) => sock = "shut"
      BY <1>0 DEF Send_Zero
    <3>3. QED
      BY <1>0, <3>1, <3>2 DEF EndInv
  <2>5. sock' = "shut" => ended'
    BY <1>0, Served, <2>1, <2>4 DEF Disconnect, At, ThreadsOK, ThreadOK, OwnInv, Locked, Shutdown,
       SockSteps, EndInv
  <2>6. sock' = "listen" => ~Used'
    BY <1>0, <2>2 DEF Update_AcceptThread_Accept, AcceptorOK, PlaceInv, ReleaseSession_Again_Lan,
       At, SockSteps, EndInv
  <2>7. ~Used' /\ curID' > 0 => ended'
    BY <1>0, <1>2, <2>1, <2>3 DEF ClientSteps, Used, EndInv
  <2>8. Used' /\ ~ended' => posted'.recv > 0 \/ arriving'
    <3>1. SUFFICES ASSUME Used', ~ended' PROVE posted'.recv > 0 \/ arriving'
      OBVIOUS
    <3>2. posted.recv > 0 \/ arriving
      BY <1>0, <2>1, <2>2, <3>1 DEF EndInv
    <3>3. \A w \in Worker : Accp_Complete_Join(w) => posted'.recv > 0
      BY <1>0, <3>1 DEF Accp_Complete_Join, PostedRec
    <3>4. \A w \in Worker : ~Recv_Complete_Bad(w) /\ ~Recv_Zero(w)
      BY <2>1, <2>4, <3>1 DEF Recv_Complete_Bad, Shutdown
    <3>5. CASE arriving
      BY <1>0, <3>3, <3>5 DEF Became, At
    <3>6. CASE posted.recv > 0
      BY <1>0, <2>3, <3>1, <3>3, <3>4, <3>6 DEF PostedSteps
    <3>7. QED
      BY <3>2, <3>5, <3>6
  <2>9. QED
    BY <2>5, <2>6, <2>7, <2>8 DEF EndInv
<1>3. QED
  BY <1>1, <1>2

(* Every step keeps callers and packets with their client.                  *)
LEMMA OwnNext ==
    ASSUME BaseInv, Slot, [Next]_vars
    PROVE  OwnInv'
<1>0. /\ ClientsInv /\ PlaceInv /\ ReleaseInv /\ OwnInv /\ ThreadsOK
      /\ ClientSteps /\ \A t \in Thread : Became(t)
      /\ Types /\ curID \in Nat
      /\ client \in ClientRec /\ Worker \cap Caller = {} /\ Caller \subseteq Thread
      /\ Worker \subseteq Thread
  BY Starting DEF Slot
<1>1. ASSUME NEW t \in Caller, thread'[t].pc \in Locked
      PROVE  client'.clientID = thread'[t].id
  BY <1>0, <1>1, Served, Accepts DEF Became, OwnInv, Silent, ReleaseSession_Leave, At, ClientSteps,
     AcquireSessionLock_Same, slotVars
<1>2. SentTo(wire' \o client'.sendq, curID')
  <2>0. /\ wire \in PacketSeq /\ client.sendq \in PacketSeq /\ Stream \in PacketSeq
        /\ SentTo(Stream, curID)
    BY <1>0 DEF Types, OtherTypes, ClientRec, Stream, PacketSeq, OwnInv
  <2>1. CASE StreamSame /\ curID' = curID
    BY <2>0, <2>1 DEF StreamSame, Stream
  <2>2. CASE Forgotten
    BY <2>2 DEF Forgotten, SentTo
  <2>3. CASE Sent /\ curID' = curID
    BY <2>0, EmptyPackets, <2>3 DEF PacketSeq, Sent, Stream
  <2>4. CASE Dropped /\ curID' = curID
    BY <2>0, <2>4 DEF Stream, PacketSeq, Dropped, SentTo
  <2>5. CASE \E t \in Thread : SendPacket(t) /\ OneMore(t)
    <3>1. PICK t \in Thread : SendPacket(t) /\ OneMore(t)
      BY <2>5
    <3> DEFINE x == [to |-> thread[t].id, n |-> packets + 1]
    <3>2. x \in Packet /\ x.to = thread[t].id
      BY <3>1, NewPacket
    <3>3. wire' \o client'.sendq = wire \o Append(client.sendq, x)
      BY <3>1 DEF OneMore
    <3>4. /\ thread[t].pc = "locked" /\ thread[t].call = "send" /\ curID' = curID
      BY <3>1 DEF SendPacket, At
    <3>5. t \in Caller
      BY <1>0, <3>4 DEF ThreadsOK, ThreadOK
    <3>6. thread[t].id = curID
      BY <1>0, <3>4, <3>5, Served DEF OwnInv, Locked
    <3> HIDE DEF x
    <3>7. wire' \o client'.sendq = Append(Stream, x)
      BY <2>0, <3>2, <3>3, StreamParts DEF Stream
    <3>8. /\ DOMAIN Append(Stream, x) = 1 .. Len(Stream) + 1 /\ DOMAIN Stream = 1 .. Len(Stream)
          /\ Len(Stream) \in Nat
          /\ \A i \in DOMAIN Stream : Append(Stream, x)[i] = Stream[i]
          /\ Append(Stream, x)[Len(Stream) + 1] = x
      BY <2>0, <3>2 DEF PacketSeq
    <3>9. QED
      BY <2>0, <3>2, <3>4, <3>6, <3>7, <3>8 DEF SentTo
  <2>6. QED
    BY <1>0, <2>1, <2>2, <2>3, <2>4, <2>5, StreamSteps
<1>3. QED
  BY <1>1, <1>2 DEF OwnInv

(* Every step keeps the sends one at a time.                                *)
LEMMA SendNext ==
    ASSUME BaseInv, Slot, [Next]_vars
    PROVE  SendInv'
<1>0. /\ PlaceInv /\ ReleaseInv /\ SendInv /\ ClientsInv
      /\ ClientSteps /\ PostedSteps /\ \A t \in Thread : Became(t)
      /\ Types
      /\ client \in ClientRec /\ posted \in PostedRec /\ posted' \in PostedRec
      /\ posted.send \in Nat /\ Worker \subseteq Thread
      /\ posted.deadRecv = 0 /\ posted.deadSend = 0
  BY Starting DEF Slot, ReleaseInv
<1>1. CASE \E w \in Worker : Accp_Complete(w)
  <2>1. PICK w \in Worker : Accp_Complete(w)
    BY <1>1
  <2>2. /\ Silent /\ posted' = [posted EXCEPT !.accp = 0]
        /\ Others(w) /\ thread'[w].pc = "accepted"
    BY <2>1, Accepts
  <2>3. posted'.send = 0
    BY <1>0, <2>2 DEF Silent, PostedRec
  <2>4. \A t \in Thread : ~Sends(t)'
    BY <2>2 DEF Silent, Others, Sends, Locked
  <2>5. QED
    BY <2>3, <2>4 DEF SendInv
<1>2. CASE \E w \in Worker : Send_Complete(w)
  BY <1>2, <1>0, StepGoes DEF Send_Complete, SendInv, PostedRec, ClientRec, FreeSentPacket, Goes,
     Others, Sends
<1>3. CASE \/ \E w \in Worker : Send_Complete_Next(w)
           \/ \E t \in Thread : Send_Post_GiveUp(t)
  BY <1>0, <1>3, StepGoes DEF Send_Complete_Next, Send_Post_GiveUp, SendInv, Sends, Goes, Others
<1>4. CASE \E t \in Thread : Send_Post_Claim(t)
  BY <1>4, <1>0, StepGoes DEF Send_Post_Claim, ClientRec, Goes, Others, Sends, Send_Complete, At,
     Became, SendInv
<1>5. CASE \E t \in Thread : Send_Post(t)
  <2>1. PICK t \in Thread : Send_Post(t)
    BY <1>5
  <2>2. /\ Goes(t, "take", {"unref"}) /\ client' = Sending(client)
        /\ posted' = [posted EXCEPT !.send = @ + 1]
    BY <1>0, <2>1, StepGoes DEF Send_Post
  <2>3. posted.send = 0 /\ client.bSend /\ \A u \in Thread : Sends(u) => u = t
    BY <1>0, <2>2 DEF SendInv, Sends, Goes
  <2>4. posted'.send = 1 /\ client'.bSend
    BY <1>0, <2>2, <2>3 DEF PostedRec, ClientRec, Sending
  <2>5. \A u \in Thread : ~Sends(u)'
    BY <2>2, <2>3 DEF Goes, Others, Sends
  <2>6. QED
    BY <2>4, <2>5 DEF SendInv
<1>6. CASE /\ ~\E w \in Worker : Accp_Complete(w) \/ Send_Complete(w) \/ Send_Complete_Next(w)
           /\ ~\E t \in Thread : Send_Post_GiveUp(t) \/ Send_Post_Claim(t) \/ Send_Post(t)
  <2>1. client'.bSend = client.bSend
    BY <1>0, <1>6 DEF ClientSteps
  <2>2. posted'.send = posted.send \/ posted'.send = 0
    <3>1. \A w \in Worker : Send_Zero(w) => posted'.send = 0
      BY <1>0 DEF Send_Zero, SendInv, PostedRec
    <3>2. \A t \in Thread : ReleaseSession_Leave(t) => posted'.send = 0
      BY <1>0 DEF ReleaseSession_Leave, PostedRec
    <3>3. QED
      BY <1>0, <1>6, <3>1, <3>2 DEF PostedSteps
  <2>3. \A t \in Thread : Sends(t)' => Sends(t)
    BY <1>0, <1>6 DEF Became
  <2>4. QED
    BY <1>0, <2>1, <2>2, <2>3 DEF SendInv
<1>7. QED
  BY <1>1, <1>2, <1>3, <1>4, <1>5, <1>6

-----------------------------------------------------------------------------
(* The inductive invariant.                                                 *)

(* The invariant holds when the server starts,                              *)
LEMMA IInvInit == Init => IInv
<1> SUFFICES ASSUME Init PROVE IInv
  OBVIOUS
<1>1. /\ MaxClient \in Nat /\ MaxCall \in Nat /\ MaxFault \in Nat
      /\ Kind \subseteq {"Net", "Lan"} /\ kind \in Kind
  BY IocpServerAssumption DEF Init
<1>2. /\ \A t \in Thread : thread[t] = Idle
      /\ Idle.pc = "idle" /\ Idle.id = 0 /\ Idle.call = "none" /\ Idle.gen = 0
  BY DEF Init, Idle
<1>3. Idle \in ThreadRec
  BY <1>1, EveryPC DEF ThreadRec, Idle
<1>4. /\ client \in ClientRec /\ client.clientID = 0 /\ client.bDisconnectNow = FALSE
      /\ client.bSend = FALSE /\ client.sendq = <<>>
      /\ \/ NetStart /\ client.ioCount = 0
         \/ LanStart /\ client.ioCount = 1
  <2>1. /\ NewClient \in ClientRec /\ NewClient.clientID = 0 /\ NewClient.bDisconnectNow = FALSE
        /\ NewClient.bSend = FALSE /\ NewClient.sendq = <<>> /\ NewClient.ioCount = 0
    BY EmptyPackets DEF NewClient, ClientRec
  <2>2. CASE NetStart
    BY <2>1, <2>2 DEF NetStart
  <2>3. CASE LanStart
    BY <2>1, <2>3 DEF LanStart, ClientRec
  <2>4. QED
    BY <2>2, <2>3 DEF Init
<1>5. /\ posted \in PostedRec
      /\ posted.recv = 0 /\ posted.send = 0 /\ posted.deadRecv = 0 /\ posted.deadSend = 0
      /\ posted.accp = client.ioCount
      /\ indexQueue \in Nat /\ posted.accp + indexQueue = 1
  BY <1>4 DEF Init, NetStart, LanStart, NonePosted, PostedRec
<1>6. OtherTypes
  <2>1. /\ sock \in {"none", "listen", "open", "shut", "closed"} /\ serverOn \in BOOLEAN
        /\ sock # "shut"
    BY DEF Init, NetStart, LanStart
  <2>2. off \in OffRec
    BY DEF Init, OffRec
  <2>3. /\ curID \in 0 .. MaxClient /\ curUser \in Int /\ curPosted \in Int
        /\ acceptor \in {"check", "drowsy", "asleep", "take"}
        /\ calls \in 0 .. MaxCall /\ packets \in 0 .. MaxCall /\ faults \in 0 .. MaxFault
    BY <1>1 DEF Init
  <2>4. /\ wire \in PacketSeq /\ left \subseteq ID /\ ended \in BOOLEAN
        /\ window \subseteq {"overtaken", "late", "early"}
    BY EmptyPackets DEF Init
  <2>5. QED
    BY <1>1, <1>5, <2>1, <2>2, <2>3, <2>4 DEF OtherTypes
<1>7. Types
  BY <1>3, <1>4, <1>5, <1>6 DEF Types, Init
<1>8. Cardinality(Holders) = 0 /\ Cardinality(Accepting) = 0 /\ Cardinality(ToSend) = 0
  BY <1>2, FS_EmptySet DEF Holders, Accepting, ToSend, Holding, Locked, At, Thread
<1>9. BaseInv
  <2>1. RefsExact
    BY <1>5, <1>8 DEF Init, PostedRec, RefsExact
  <2>2. AcceptsExact
    BY <1>4, <1>5, <1>8 DEF AcceptsExact, Init, Net, NetStart, LanStart
  <2>3. ThreadsOK
    BY <1>2 DEF ThreadsOK, ThreadOK, LockSteps, Init
  <2>4. CallsOK
    BY <1>8 DEF CallsOK, Init
  <2>5. AcceptorOK
    BY <1>4 DEF AcceptorOK, Init, Lan, NetStart, LanStart
  <2>6. OrderOK
    BY <1>4 DEF OrderOK, Numbered, Init
  <2>7. TypeOK
    BY <1>7, TypesIs
  <2>8. QED
    BY <2>1, <2>2, <2>3, <2>4, <2>5, <2>6, <2>7 DEF BaseInv
<1>10. Slot
  <2>1. curID = 0 /\ curUser = 0 /\ left = {} /\ off.user = 0 /\ ~Used
    BY <1>4 DEF Init, Used
  <2>2. \A t \in Thread : thread[t].pc = "idle"
    BY <1>2
  <2>3. Worker \subseteq Thread /\ Caller \subseteq Thread
    BY DEF Thread
  <2>4. ClientsInv
    BY <2>1 DEF ClientsInv
  <2>5. PlaceInv
    BY <1>5, <2>1, <2>2, <2>3 DEF PlaceInv, At
  <2>6. FirstInv
    BY <2>1, <2>2 DEF FirstInv
  <2>7. Silent
    BY <1>5, <2>2 DEF Silent, Locked
  <2>8. ReleaseInv
    BY <1>5, <2>2, <2>7 DEF ReleaseInv, Releases, Releasing
  <2>9. EndInv
    BY <2>1 DEF EndInv, Init, NetStart, LanStart
  <2>10. OwnInv
    BY <1>4, <2>2, <2>3 DEF OwnInv, Locked, Init, SentTo
  <2>11. SendInv
    BY <1>5, <2>2 DEF SendInv, Sends
  <2>12. QED
    BY <2>4, <2>5, <2>6, <2>8, <2>9, <2>10, <2>11 DEF Slot
<1>11. LateInv
  BY DEF LateInv, Init
<1>12. QED
  BY <1>9, <1>10, <1>11 DEF IInv, SlotInv

(* every step keeps it,                                                     *)
LEMMA IInvNext == IInv /\ [Next]_vars => IInv'
<1> SUFFICES ASSUME IInv, [Next]_vars PROVE IInv'
  OBVIOUS
<1>1. BaseInv /\ window \subseteq window'
  BY Starting DEF IInv, CounterSteps
<1>2. ASSUME NoRace' PROVE Slot'
  BY <1>1, <1>2, ClientsNext, PlaceNext, FirstNext, ReleaseNext, EndNext, OwnNext, SendNext DEF
     IInv, SlotInv, NoRace, Slot
<1>3. QED
  BY <1>1, <1>2, BaseNext, LateNext DEF IInv, SlotInv

(* and so it holds in every state.                                          *)
LEMMA IInvAlways == Spec => []IInv
BY IInvInit, IInvNext, PTL DEF Spec

-----------------------------------------------------------------------------
(* The theorems.                                                            *)

(* In every state, with any number of threads: ioCount is what refers to    *)
(* the slot, so that it does not fall below zero and what is posted and     *)
(* what is held is never released too early by the count; CNetServer counts *)
(* its posted accepts; and as long as no race was run into, the users are   *)
(* those who joined and have not left, and there is room for one more when  *)
(* a slot listens.                                                          *)
THEOREM IocpCountersExact == Spec => []CountersExact
<1>1. IInv => CountersExact
  <2> SUFFICES ASSUME IInv PROVE CountersExact
    OBVIOUS
  <2>1. TypeOK /\ RefsExact /\ AcceptsExact
    BY DEF IInv, BaseInv
  <2>2. ASSUME NoRace
        PROVE  curUser = Joined - Cardinality(left) - off.user /\ (posted.accp > 0 => curUser < 1)
    <3> DEFINE arriving == \E w \in Worker : At(w, "accepted")
    <3>1. /\ ClientsInv /\ PlaceInv /\ ReleaseInv
          /\ curID \in Nat /\ curUser \in Int /\ off.user \in Nat /\ posted.accp \in Nat
          /\ indexQueue \in Nat
      BY <2>1, <2>2, IocpServerAssumption DEF IInv, SlotInv, Slot, TypeOK
    <3>2. Joined = curID - (IF arriving THEN 1 ELSE 0)
      BY DEF Joined
    <3>3. CASE Used
      <4>1. curID >= 1 /\ left = 1 .. (curID - 1) /\ posted.accp = 0
        BY <3>1, <3>3 DEF ClientsInv, Used, PlaceInv
      <4>2. Cardinality(left) = curID - 1
        BY <3>1, <4>1, FS_Interval
      <4>3. curUser = (IF arriving THEN 0 ELSE 1) - off.user
        BY <3>1, <3>3 DEF ClientsInv
      <4> HIDE DEF arriving
      <4>4. QED
        BY <3>1, <3>2, <4>1, <4>2, <4>3
    <3>4. CASE ~Used
      <4>1. left = 1 .. curID /\ curUser = 0 - off.user
        BY <3>1, <3>4 DEF ClientsInv
      <4>2. Cardinality(left) = curID
        BY <3>1, <4>1, FS_Interval
      <4>3. ~arriving
        BY <3>1, <3>4 DEF ReleaseInv, Silent, At, Thread
      <4> HIDE DEF arriving
      <4>4. QED
        BY <3>1, <3>2, <4>1, <4>2, <4>3
    <3>5. QED
      BY <3>3, <3>4
  <2>3. QED
    BY <2>1, <2>2 DEF CountersExact, RefsExact, AcceptsExact, Holders, Accepting
<1>2. QED
  BY <1>1, IInvAlways, PTL

(* In every state whoever holds a slot by AcquireSessionLock holds it for   *)
(* the client that was asked for, unless one of the two races was run into, *)
(* and CNetServer does not have the second without the first.               *)
THEOREM IocpLocksHoldTheirClient == Spec => []LocksHoldTheirClient
<1>1. IInv => LocksHoldTheirClient
  BY DEF IInv, SlotInv, Slot, OwnInv, LateInv, LocksHoldTheirClient
<1>2. QED
  BY <1>1, IInvAlways, PTL

(* In every state without a race no client was reported gone but for a      *)
(* cause, and nothing of one that left is still posted.                     *)
THEOREM IocpClientsLeaveForCause == Spec => []ClientsLeaveForCause
<1>1. IInv => ClientsLeaveForCause
  <2> SUFFICES ASSUME IInv, NoRace PROVE ClientsLeaveForCause
    BY DEF ClientsLeaveForCause
  <2>1. ClientsInv /\ ReleaseInv /\ EndInv /\ curID \in Nat
    BY IocpServerAssumption DEF IInv, SlotInv, Slot, BaseInv, TypeOK
  <2>2. curID \in left => ~Used /\ curID > 0
    BY <2>1 DEF ClientsInv
  <2>3. QED
    BY <2>1, <2>2 DEF ClientsLeaveForCause, ReleaseInv, EndInv, Used
<1>2. QED
  BY <1>1, IInvAlways, PTL

(* In every state without a race what was sent on a connection was for its  *)
(* client and in order, and at most one send is posted or being posted.     *)
THEOREM IocpSendsInOrder == Spec => []SendsInOrder
<1>1. IInv => SendsInOrder
  <2> SUFFICES ASSUME IInv, NoRace PROVE SendsInOrder
    BY DEF SendsInOrder
  <2>1. Types /\ OrderOK /\ OwnInv /\ SendInv
    BY TypesIs DEF IInv, BaseInv, SlotInv, Slot
  <2>2. wire \in PacketSeq /\ client.sendq \in PacketSeq
    BY <2>1 DEF Types, OtherTypes, ClientRec
  <2>3. /\ DOMAIN wire \subseteq DOMAIN (wire \o client.sendq)
        /\ \A i \in DOMAIN wire : (wire \o client.sendq)[i] = wire[i]
    BY <2>2 DEF PacketSeq
  <2>4. \A i \in DOMAIN wire : wire[i].to = curID
    BY <2>1, <2>3 DEF OwnInv, SentTo
  <2>5. \A i, j \in DOMAIN wire : i < j => wire[i].n < wire[j].n
    BY <2>1, <2>3 DEF OrderOK, Numbered
  <2>6. posted.send + Cardinality({t \in Thread : thread[t].pc \in {"test", "take",
     "sent"}}) <= 1
    <3> DEFINE S == {t \in Thread : thread[t].pc \in {"test", "take", "sent"}}
    <3>1. posted.send \in Nat /\ posted.send <= 1
      BY <2>1 DEF Types, PostedRec, SendInv
    <3>2. CASE S = {}
      <4>1. Cardinality(S) = 0
        BY <3>2, FS_EmptySet
      <4>2. QED
        BY <3>1, <4>1
    <3>3. CASE S # {}
      <4>1. PICK t \in S : TRUE
        BY <3>3
      <4>2. posted.send = 0 /\ \A u \in S : u = t
        BY <2>1, <4>1 DEF SendInv, Sends
      <4>3. S = {t}
        BY <4>1, <4>2
      <4>4. Cardinality(S) = 1
        BY <4>3, FS_Singleton
      <4> HIDE DEF S
      <4>5. posted.send + Cardinality(S) <= 1
        BY <4>2, <4>4
      <4>6. QED
        BY <4>5 DEF S
    <3>4. QED
      BY <3>2, <3>3
  <2>7. QED
    BY <2>4, <2>5, <2>6 DEF SendsInOrder
<1>2. QED
  BY <1>1, IInvAlways, PTL

-----------------------------------------------------------------------------
(* The lock-free queue, in variables of its own (QueueState).              *)

(* The instance counts as the rest of this module does.                    *)
LEMMA SameCardinality == \A S : LF!Cardinality(S) = Cardinality(S)
  BY DEF LF!Cardinality, Cardinality

(* Numbers have a least.                                                   *)
LEMMA LeastNat ==
    ASSUME NEW S \in SUBSET Nat, S /= {}
    PROVE  \E m \in S : \A n \in S : m <= n
<1> DEFINE T == {1 .. s : s \in S}
           R == StrictSubsetOrdering(Nat)
<1>1. T \subseteq FiniteSubsetsOf(Nat)
  BY FS_Interval DEF FiniteSubsetsOf
<1>2. T /= {}
  OBVIOUS
<1>3. PICK x \in T : \A y \in T : ~(<<y, x>> \in R)
  <2>1. IsWellFoundedOn(R, FiniteSubsetsOf(Nat))
    BY FS_StrictSubsetOrderingWellFounded
  <2> HIDE DEF T, R
  <2> QED
    BY <1>1, <1>2, <2>1, WFMin
<1>4. PICK s \in S : x = 1 .. s
  OBVIOUS
<1>5. ASSUME NEW r \in S PROVE s <= r
  <2>1. SUFFICES ASSUME r < s PROVE FALSE
    OBVIOUS
  <2>2. s \in 1 .. s /\ s \notin 1 .. r
    BY <2>1
  <2>3. 1 .. r \subseteq 1 .. s
    BY <2>1
  <2>4. <<1 .. r, 1 .. s>> \in R
    BY <2>2, <2>3 DEF StrictSubsetOrdering
  <2> QED
    BY <1>3, <1>4, <2>4
<1> QED
  BY <1>5

-----------------------------------------------------------------------------
(* Paths.                                                                  *)

(* Different nodes, each of which leads to the next, the last nowhere.     *)
Path(to, s) ==
    /\ s \in Seq(LF!Node) /\ Len(s) > 0
    /\ \A i \in 1 .. Len(s) - 1 : to[s[i]] = s[i + 1]
    /\ to[s[Len(s)]] = LF!null
    /\ \A i, j \in 1 .. Len(s) : s[i] = s[j] => i = j

(* There are no more than nodes.                                           *)
LEMMA PathLength ==
    ASSUME NEW to, NEW s, Path(to, s)
    PROVE  Len(s) \in Nat /\ Len(s) <= MaxPut + 1 /\ \A k \in 1 .. Len(s) : s[k] \in LF!Node /\ s[k] # LF!null
<1>1. MaxPut \in Nat /\ MaxPut + 1 \in Nat /\ LF!Node = 1 .. MaxPut + 1
  BY LockFreeQueueAssumption DEF LF!Node
<1>2. s \in [1 .. Len(s) -> LF!Node] /\ Len(s) \in Nat
  BY DEF Path
<1>3. IsFiniteSet(1 .. Len(s)) /\ Cardinality(1 .. Len(s)) = Len(s)
  <2>1. PICK n : n = Len(s) /\ n \in Nat
    BY <1>2
  <2>2. 1 \in Int /\ n \in Int /\ (IF 1 > n THEN 0 ELSE n - 1 + 1) = n
    BY <2>1
  <2>3. IsFiniteSet(1 .. n) /\ Cardinality(1 .. n) = IF 1 > n THEN 0 ELSE n - 1 + 1
    BY <2>2, FS_Interval
  <2> QED
    BY <2>1, <2>2, <2>3
<1>4. IsFiniteSet(LF!Node) /\ Cardinality(LF!Node) = MaxPut + 1
  BY <1>1, FS_Interval
<1>5. ~(Cardinality(LF!Node) < Cardinality(1 .. Len(s)))
  BY <1>2, <1>3, <1>4, FS_PigeonHole DEF Path
<1> QED
  BY <1>1, <1>2, <1>3, <1>4, <1>5 DEF LF!null

(* What a walk of Chain finds at each step.                                *)
Walks(f, to, m) ==
    f = [k \in 0 .. MaxPut |->
            IF k = 0 THEN m ELSE IF f[k - 1] = LF!null THEN LF!null ELSE to[f[k - 1]]]

(* A walk along a path finds its nodes, and then none.                     *)
LEMMA WalkIs ==
    ASSUME NEW to, NEW s, Path(to, s), NEW f, Walks(f, to, s[1])
    PROVE  \A k \in 0 .. MaxPut : f[k] = IF k < Len(s) THEN s[k + 1] ELSE LF!null
<1> DEFINE g(k) == IF k < Len(s) THEN s[k + 1] ELSE LF!null
           Bad == {k \in 0 .. MaxPut : f[k] # g(k)}
<1>0. MaxPut \in Nat /\ Len(s) \in Nat /\ Len(s) > 0 /\ \A k \in 1 .. Len(s) : s[k] # LF!null
  BY PathLength, LockFreeQueueAssumption DEF Path
<1>1. SUFFICES ASSUME Bad # {} PROVE FALSE
  OBVIOUS
<1>2. PICK m \in Bad : \A k \in Bad : m <= k
  <2>1. Bad \in SUBSET Nat
    BY <1>0
  <2> HIDE DEF Bad
  <2> QED
    BY <1>1, <2>1, LeastNat
<1>3. m \in 0 .. MaxPut /\ f[m] # g(m)
  OBVIOUS
<1>4. f[m] = IF m = 0 THEN s[1] ELSE IF f[m - 1] = LF!null THEN LF!null ELSE to[f[m - 1]]
  BY <1>3 DEF Walks
<1>5. m # 0
  BY <1>0, <1>3, <1>4
<1>6. m - 1 \in 0 .. MaxPut /\ f[m - 1] = g(m - 1)
  BY <1>0, <1>3, <1>5, <1>2
<1>7. CASE m < Len(s)
  BY <1>0, <1>3, <1>5, <1>7, <1>6, <1>4 DEF Path
<1>8. CASE m = Len(s)
  BY <1>0, <1>3, <1>5, <1>8, <1>6, <1>4 DEF Path
<1>9. CASE m > Len(s)
  BY <1>0, <1>3, <1>9, <1>4, <1>5, <1>6
<1> QED
  BY <1>0, <1>3, <1>7, <1>8, <1>9

(* There is such a walk.                                                   *)
LEMMA WalkExists ==
    ASSUME NEW to, NEW s, Path(to, s)
    PROVE  \E f : Walks(f, to, s[1])
<1> DEFINE g == [k \in 0 .. MaxPut |-> IF k < Len(s) THEN s[k + 1] ELSE LF!null]
<1>0. MaxPut \in Nat /\ Len(s) \in Nat /\ Len(s) > 0 /\ \A k \in 1 .. Len(s) : s[k] # LF!null
  BY PathLength, LockFreeQueueAssumption DEF Path
<1>1. ASSUME NEW k \in 0 .. MaxPut
      PROVE  g[k] = IF k = 0 THEN s[1] ELSE IF g[k - 1] = LF!null THEN LF!null ELSE to[g[k - 1]]
  <2>1. CASE k = 0
    BY <1>0, <2>1
  <2>2. CASE k # 0 /\ k < Len(s)
    <3>1. k - 1 \in 0 .. MaxPut /\ k - 1 < Len(s) /\ k - 1 + 1 = k /\ k \in 1 .. Len(s) - 1
      BY <1>0, <2>2
    <3>2. g[k - 1] = s[k] /\ s[k] # LF!null /\ to[s[k]] = s[k + 1]
      BY <1>0, <3>1 DEF Path
    <3> QED
      BY <2>2, <3>2
  <2>3. CASE k # 0 /\ k = Len(s)
    <3>1. k - 1 \in 0 .. MaxPut /\ k - 1 < Len(s) /\ k - 1 + 1 = k /\ k \in 1 .. Len(s) /\ ~(k < Len(s))
      BY <1>0, <2>3
    <3>2. g[k - 1] = s[k] /\ s[k] # LF!null /\ to[s[k]] = LF!null
      BY <1>0, <2>3, <3>1 DEF Path
    <3> QED
      BY <2>3, <3>1, <3>2
  <2>4. CASE k > Len(s)
    <3>1. k - 1 \in 0 .. MaxPut /\ ~(k - 1 < Len(s)) /\ ~(k < Len(s)) /\ k # 0
      BY <1>0, <2>4
    <3> QED
      BY <3>1
  <2> QED
    BY <1>0, <2>1, <2>2, <2>3, <2>4
<1>2. Walks(g, to, s[1])
  <2>1. g = [k \in 0 .. MaxPut |-> g[k]]
    OBVIOUS
  <2> HIDE DEF g
  <2>2. [k \in 0 .. MaxPut |-> g[k]]
            = [k \in 0 .. MaxPut |-> IF k = 0 THEN s[1] ELSE IF g[k - 1] = LF!null THEN LF!null ELSE to[g[k - 1]]]
    BY <1>1
  <2> QED
    BY <2>1, <2>2 DEF Walks
<1> QED
  BY <1>2

(* Chain finds the nodes of a path.                                        *)
LEMMA ChainIs ==
    ASSUME NEW to, NEW s, Path(to, s)
    PROVE  LF!Chain(to, s[1]) = s
<1> DEFINE walk == CHOOSE f : f = [k \in 0 .. MaxPut |->
                        IF k = 0 THEN s[1] ELSE IF f[k - 1] = LF!null THEN LF!null ELSE to[f[k - 1]]]
<1>1. PICK g : Walks(g, to, s[1])
  BY WalkExists
<1>2. walk = [k \in 0 .. MaxPut |->
                 IF k = 0 THEN s[1] ELSE IF walk[k - 1] = LF!null THEN LF!null ELSE to[walk[k - 1]]]
  BY <1>1, Zenon DEF Walks
<1>3. LF!Chain(to, s[1]) = [k \in {j \in LF!Node : walk[j - 1] # LF!null} |-> walk[k - 1]]
  BY DEF LF!Chain
<1> HIDE DEF walk
<1>4. \A k \in 0 .. MaxPut : walk[k] = IF k < Len(s) THEN s[k + 1] ELSE LF!null
  <2>1. Walks(walk, to, s[1])
    BY <1>2 DEF Walks
  <2> QED
    BY <2>1, WalkIs
<1>5. MaxPut \in Nat /\ Len(s) \in Nat /\ Len(s) <= MaxPut + 1 /\ \A k \in 1 .. Len(s) : s[k] # LF!null
  BY PathLength, LockFreeQueueAssumption
<1>6. \A k \in LF!Node : k \in 1 .. MaxPut + 1 /\ k - 1 \in 0 .. MaxPut /\ k - 1 + 1 = k /\ (k - 1 < Len(s) <=> k <= Len(s))
  BY <1>5 DEF LF!Node
<1>7. \A k \in LF!Node : walk[k - 1] = IF k <= Len(s) THEN s[k] ELSE LF!null
  BY <1>4, <1>6
<1>8. {j \in LF!Node : walk[j - 1] # LF!null} = 1 .. Len(s)
  <2>1. \A j \in LF!Node : walk[j - 1] # LF!null <=> j \in 1 .. Len(s)
    BY <1>5, <1>6, <1>7
  <2>2. 1 .. Len(s) \subseteq LF!Node
    BY <1>5 DEF LF!Node
  <2> QED
    BY <2>1, <2>2
<1>9. s = [k \in 1 .. Len(s) |-> s[k]]
  BY DEF Path
<1>10. \A k \in 1 .. Len(s) : walk[k - 1] = s[k]
  BY <1>5, <1>7 DEF LF!Node
<1> QED
  BY <1>3, <1>8, <1>9, <1>10

(* A sequence is a function of its places.                                 *)
LEMMA SeqIs == ASSUME NEW D, NEW t \in Seq(D) PROVE t = [k \in 1 .. Len(t) |-> t[k]]
  OBVIOUS

(* The values after the first node.                                        *)
Rest(of, s) == [k \in 1 .. Len(s) - 1 |-> of[s[k + 1]]]

(* They are what Values finds but for the first.                           *)
LEMMA RestIs ==
    ASSUME NEW to, NEW s, Path(to, s), NEW D, NEW of \in [LF!Node -> D]
    PROVE  /\ Tail([k \in DOMAIN LF!Chain(to, s[1]) |-> of[LF!Chain(to, s[1])[k]]]) = Rest(of, s)
           /\ Rest(of, s) \in Seq(D) /\ Len(Rest(of, s)) = Len(s) - 1
<1>1. LF!Chain(to, s[1]) = s
  BY ChainIs
<1>2. PICK n : n = Len(s) /\ n \in Nat /\ n > 0 /\ DOMAIN s = 1 .. n
  BY DEF Path
<1>3. PICK v : v = [k \in 1 .. n |-> of[s[k]]]
  OBVIOUS
<1>4. v \in Seq(D) /\ Len(v) = n
  BY <1>2, <1>3 DEF Path
<1>5. Tail(v) = [k \in 1 .. n - 1 |-> v[k + 1]]
  <2>1. Tail(v) \in Seq(D) /\ Len(Tail(v)) = n - 1 /\ \A k \in 1 .. n - 1 : Tail(v)[k] = v[k + 1]
    BY <1>2, <1>4
  <2>2. PICK t : t = Tail(v) /\ t \in Seq(D) /\ Len(t) = n - 1
    BY <2>1
  <2>3. t = [k \in 1 .. Len(t) |-> t[k]]
    BY <2>2, SeqIs
  <2> QED
    BY <2>1, <2>2, <2>3
<1>6. \A k \in 1 .. n - 1 : k + 1 \in 1 .. n /\ v[k + 1] = of[s[k + 1]] /\ of[s[k + 1]] \in D
  BY <1>2, <1>3 DEF Path
<1>7. Tail(v) = Rest(of, s)
  BY <1>2, <1>5, <1>6 DEF Rest
<1>8. Rest(of, s) \in Seq(D) /\ Len(Rest(of, s)) = n - 1
  BY <1>2, <1>6 DEF Rest
<1> QED
  BY <1>1, <1>2, <1>3, <1>7, <1>8

(* A path is one as long as its nodes lead where they led.                 *)
LEMMA PathKeeps ==
    ASSUME NEW to, NEW s, Path(to, s), NEW to2, \A k \in 1 .. Len(s) : to2[s[k]] = to[s[k]]
    PROVE  Path(to2, s)
  BY DEF Path

(* A node that leads nowhere.                                              *)
LEMMA PathOne ==
    ASSUME NEW to, NEW m \in LF!Node, to[m] = LF!null
    PROVE  Path(to, <<m>>) /\ Len(<<m>>) = 1 /\ <<m>>[1] = m
  BY DEF Path

(* A path without its first node.                                          *)
LEMMA PathTail ==
    ASSUME NEW to, NEW s, Path(to, s), Len(s) > 1
    PROVE  /\ Path(to, Tail(s)) /\ Len(Tail(s)) = Len(s) - 1
           /\ \A k \in 1 .. Len(s) - 1 : Tail(s)[k] = s[k + 1]
           /\ to[s[1]] = s[2]
  BY DEF Path

(* The last node of one made to lead to another.                           *)
LEMMA PathJoin ==
    ASSUME NEW to, NEW s, Path(to, s), NEW t, Path(to, t), NEW to2,
           \A m \in LF!Node : to2[m] = IF m = s[Len(s)] THEN t[1] ELSE to[m],
           \A i \in 1 .. Len(s), j \in 1 .. Len(t) : s[i] # t[j]
    PROVE  /\ Path(to2, s \o t) /\ Len(s \o t) = Len(s) + Len(t)
           /\ \A k \in 1 .. Len(s) + Len(t) : (s \o t)[k] = IF k <= Len(s) THEN s[k] ELSE t[k - Len(s)]
<1>1. PICK n, l : n = Len(s) /\ n \in Nat /\ n > 0 /\ l = Len(t) /\ l \in Nat /\ l > 0
  <2>1. Len(s) \in Nat /\ Len(s) > 0
    BY DEF Path
  <2>2. Len(t) \in Nat /\ Len(t) > 0
    BY DEF Path
  <2> QED
    BY <2>1, <2>2
<1>2. s \in Seq(LF!Node) /\ t \in Seq(LF!Node)
  BY DEF Path
<1>3. PICK u : u = s \o t
  OBVIOUS
<1>4. u \in Seq(LF!Node) /\ Len(u) = n + l /\ \A k \in 1 .. n + l : u[k] = IF k <= n THEN s[k] ELSE t[k - n]
  BY <1>1, <1>2, <1>3
<1>5. \A k \in 1 .. n + l : (k <= n => k \in 1 .. n) /\ (~(k <= n) => k - n \in 1 .. l)
  BY <1>1
<1>6. \A i, j \in 1 .. n + l : u[i] = u[j] => i = j
  <2> SUFFICES ASSUME NEW i \in 1 .. n + l, NEW j \in 1 .. n + l, u[i] = u[j] PROVE i = j
    OBVIOUS
  <2>1. CASE i <= n /\ j <= n
    BY <1>1, <1>4, <1>5, <2>1 DEF Path
  <2>2. CASE ~(i <= n) /\ ~(j <= n)
    <3>1. t[i - n] = t[j - n] /\ i - n \in 1 .. l /\ j - n \in 1 .. l
      BY <1>4, <1>5, <2>2
    <3>2. i - n = j - n
      BY <1>1, <3>1 DEF Path
    <3> QED
      BY <1>1, <3>2
  <2>3. CASE i <= n /\ ~(j <= n)
    BY <1>1, <1>4, <1>5, <2>3
  <2>4. CASE ~(i <= n) /\ j <= n
    BY <1>1, <1>4, <1>5, <2>4
  <2> QED
    BY <2>1, <2>2, <2>3, <2>4
<1>7. ASSUME NEW k \in 1 .. n + l - 1 PROVE to2[u[k]] = u[k + 1]
  <2>1. k \in 1 .. n + l /\ k + 1 \in 1 .. n + l
    BY <1>1
  <2>2. CASE k < n
    BY <1>1, <2>2, <1>4, <2>1, <1>2 DEF Path
  <2>3. CASE k = n
    <3>1. n \in 1 .. n /\ ~(n + 1 <= n) /\ n + 1 - n = 1
      BY <1>1
    <3>2. u[k] = s[n] /\ u[k + 1] = t[1]
      BY <1>4, <2>1, <2>3, <3>1
    <3>3. s[n] \in LF!Node
      BY <1>1, <1>2, <3>1
    <3> QED
      BY <1>1, <3>2, <3>3
  <2>4. CASE k > n
    <3>1. ~(k <= n) /\ ~(k + 1 <= n) /\ k - n \in 1 .. l - 1 /\ k - n \in 1 .. l /\ k + 1 - n = k - n + 1 /\ n \in 1 .. n
      BY <1>1, <2>4
    <3>2. u[k] = t[k - n] /\ u[k + 1] = t[k - n + 1]
      BY <1>4, <2>1, <3>1
    <3>3. to[t[k - n]] = t[k - n + 1] /\ t[k - n] \in LF!Node /\ s[n] # t[k - n]
      BY <1>1, <1>2, <3>1 DEF Path
    <3> QED
      BY <1>1, <3>2, <3>3
  <2> QED
    BY <1>1, <2>2, <2>3, <2>4
<1>8. to2[u[n + l]] = LF!null
  BY <1>1, <1>2, <1>4 DEF Path
<1>9. Path(to2, u)
  BY <1>1, <1>4, <1>6, <1>7, <1>8 DEF Path
<1> QED
  BY <1>1, <1>3, <1>4, <1>9

(* Where a node of a path leads to.                                        *)
LEMMA PathStep ==
    ASSUME NEW to, NEW s, Path(to, s), NEW k \in 1 .. Len(s)
    PROVE  /\ to[s[k]] = LF!null <=> k = Len(s)
           /\ to[s[k]] # LF!null => /\ k + 1 \in 1 .. Len(s) /\ to[s[k]] = s[k + 1]
                                 /\ s[k + 1] # s[1] /\ s[k + 1] \in LF!Node
<1>1. PICK n : n = Len(s) /\ n \in Nat /\ n > 0 /\ s \in Seq(LF!Node)
  BY DEF Path
<1>2. CASE k = n
  BY <1>1, <1>2 DEF Path
<1>3. CASE k # n
  <2>1. k \in 1 .. n - 1 /\ k + 1 \in 1 .. n /\ k + 1 # 1 /\ 1 \in 1 .. n
    BY <1>1, <1>3
  <2>2. to[s[k]] = s[k + 1] /\ s[k + 1] # s[1]
    BY <1>1, <2>1 DEF Path
  <2>3. s[k + 1] \in LF!Node /\ s[k + 1] # LF!null
    BY <1>1, <2>1, PathLength
  <2> QED
    BY <1>1, <1>3, <2>1, <2>2, <2>3
<1> QED
  BY <1>2, <1>3

-----------------------------------------------------------------------------
(* Where a node is: in the queue, in the pool, behind a node that a        *)
(* producer has not linked yet, or about to be freed.                      *)
InQueue    == <<"queue", LF!null>>
InPool     == <<"pool", LF!null>>
Of(p)      == <<"put", p>>
FreedBy(c) == <<"get", c>>
NodePlaces == {InQueue, InPool} \cup {Of(p) : p \in Producer} \cup {FreedBy(c) : c \in Consumer}

(* No two of these are the same.                                           *)
LEMMA PlacesDiffer ==
    /\ InQueue # InPool
    /\ \A p : Of(p) # InQueue /\ Of(p) # InPool
    /\ \A c : FreedBy(c) # InQueue /\ FreedBy(c) # InPool
    /\ \A p, c : Of(p) # FreedBy(c)
    /\ \A p, u : Of(p) = Of(u) => p = u
    /\ \A c, d : FreedBy(c) = FreedBy(d) => c = d
    /\ InQueue \in NodePlaces /\ InPool \in NodePlaces
    /\ \A p \in Producer : Of(p) \in NodePlaces
    /\ \A c \in Consumer : FreedBy(c) \in NodePlaces
  BY DEF InQueue, InPool, Of, FreedBy, NodePlaces

(* The nodes of s are those at place x.                                    *)
Fills(s, at, x) ==
    /\ \A k \in 1 .. Len(s) : s[k] \in DOMAIN at /\ at[s[k]] = x
    /\ \A m \in DOMAIN at : at[m] = x => \E k \in 1 .. Len(s) : s[k] = m

(* A producer on its way to link its node.                                 *)
Carrying(p) == ~LF!At(p, "idle") /\ ~LF!Linked(p)

(* q is the queue, from its dummy; w[p] what p is about to link.           *)
QueueOK(q) == Path(next, q) /\ q[1] = head.node

CarryOK(w) ==
    /\ DOMAIN w = Producer
    /\ \A p \in Producer : IF Carrying(p) THEN Path(next, w[p]) /\ w[p][1] = enq[p].new
                                          ELSE w[p] = <<>>

PlacesOK(q, w, at) ==
    /\ at \in [1 .. fresh -> NodePlaces]
    /\ Fills(q, at, InQueue)
    /\ Fills(pool, at, InPool)
    /\ \A p \in Producer : Fills(w[p], at, Of(p))
    /\ \A c \in Consumer : LF!AtDeq(c, "free") =>
            deq[c].node \in 1 .. fresh /\ at[deq[c].node] = FreedBy(c)
    /\ \A c \in Consumer, m \in 1 .. fresh : at[m] = FreedBy(c) =>
            LF!AtDeq(c, "free") /\ deq[c].node = m

PoolOK == \A i, j \in 1 .. Len(pool) : pool[i] = pool[j] => i = j

(* Nothing can be linked behind a node that is free: it still leads where  *)
(* it led in the queue.                                                    *)
EndsOK(at) == \A m \in 1 .. fresh :
    at[m] = InPool \/ (\E c \in Consumer : at[m] = FreedBy(c)) => next[m] # LF!null

TailOK(at) == tail.node \in 1 .. fresh /\ at[tail.node] = InQueue

(* Which producer took its node from the pool before which.                *)
OlderOK(older) ==
    /\ \A p \in Producer : <<p, p>> \notin older
    /\ \A p, u, v \in Producer : <<p, u>> \in older /\ <<u, v>> \in older => <<p, v>> \in older

(* What a producer read holds as long as the index of tail is the one it   *)
(* read.  A node it saw in the queue is behind the node of another only if *)
(* that one was taken later.                                               *)
PutOK(p, at, older) ==
    /\ enq[p].step \in {"node", "next", "link", "help", "swing"} => enq[p].index <= tail.index
    /\ enq[p].step \in {"next", "link", "help", "swing"} =>
          /\ enq[p].node \in 1 .. fresh
          /\ enq[p].index = tail.index => enq[p].node = tail.node
    /\ enq[p].step = "help" =>
          enq[p].next # LF!null /\ (enq[p].index = tail.index => next[tail.node] = enq[p].next)
    /\ enq[p].step = "swing" =>
          enq[p].new # LF!null /\ (enq[p].index = tail.index => next[tail.node] = enq[p].new)
    /\ Carrying(p) => data[enq[p].new] = <<p, enq[p].n>>
    /\ enq[p].step \in {"next", "link", "help"} =>
          \A u \in Producer : at[enq[p].node] = Of(u) => <<p, u>> \in older

(* What a consumer read holds as long as the index of head, or that of     *)
(* tail, is the one it read.                                               *)
GetOK(c) ==
    /\ deq[c].step \notin {"idle", "index", "free"} =>
          deq[c].index <= head.index /\ (Elided => deq[c].index = head.index)
    /\ deq[c].step \in {"next", "tindex", "tnode", "check", "help", "data", "take"} =>
          deq[c].node \in 1 .. fresh /\ (deq[c].index = head.index => deq[c].node = head.node)
    /\ deq[c].step \in {"tindex", "tnode", "check", "help", "data", "take"} =>
          (deq[c].index = head.index /\ deq[c].next # LF!null => next[head.node] = deq[c].next)
    /\ deq[c].step \in {"tindex", "tnode", "check"} =>
          (deq[c].index = head.index /\ deq[c].next = LF!null => seen[c])
    /\ deq[c].step \in {"tnode", "check", "help"} => deq[c].tindex <= tail.index
    /\ deq[c].step \in {"check", "help"} => (deq[c].tindex = tail.index => deq[c].tnode = tail.node)
    /\ deq[c].step = "check" =>
          (deq[c].index = head.index /\ deq[c].tnode # deq[c].node => tail.node # head.node)
    /\ deq[c].step = "help" =>
          deq[c].next # LF!null /\ (deq[c].tindex = tail.index => next[tail.node] = deq[c].next)
    /\ deq[c].step \in {"data", "take"} =>
          deq[c].next # LF!null /\ (deq[c].index = head.index => tail.node # head.node)
    /\ deq[c].step = "take" => (deq[c].index = head.index => deq[c].value = data[deq[c].next])

SeenOK(q) == \A c \in Consumer :
    /\ seen[c] => ~LF!AtDeq(c, "idle")
    /\ ~LF!AtDeq(c, "idle") /\ Len(q) = 1 => seen[c]

Safe(q, w, at, older) ==
    /\ QueueOK(q) /\ CarryOK(w) /\ PlacesOK(q, w, at) /\ PoolOK /\ EndsOK(at) /\ TailOK(at)
    /\ OlderOK(older)
    /\ \A p \in Producer : PutOK(p, at, older)
    /\ \A c \in Consumer : GetOK(c)
    /\ SeenOK(q)

(* With the build that drops the second read of the index, one consumer.   *)
OneConsumer == Elided => \A c, d \in Consumer : c = d

QueueInv ==
    /\ LF!TypeOK
    /\ fresh <= 1 + LF!Calls
    /\ \E q, w, at, older : Safe(q, w, at, older)

-----------------------------------------------------------------------------
(* What a step does not disturb.                                           *)

(* A node of the queue that leads on leads to another one of it.           *)
LEMMA QueueNext ==
    ASSUME NEW q, NEW w, NEW at, QueueOK(q), PlacesOK(q, w, at), NEW m \in 1 .. fresh, at[m] = InQueue
    PROVE  /\ m \in LF!Node
           /\ next[m] # LF!null => /\ next[m] \in 1 .. fresh /\ at[next[m]] = InQueue
                                /\ next[m] # head.node /\ next[m] \in LF!Node
<1>1. DOMAIN at = 1 .. fresh /\ Fills(q, at, InQueue)
  BY DEF PlacesOK
<1>2. PICK k \in 1 .. Len(q) : q[k] = m
  BY <1>1 DEF Fills
<1>3. Path(next, q) /\ q[1] = head.node /\ m \in LF!Node
  BY <1>2 DEF QueueOK, Path
<1>4. next[m] # LF!null => /\ k + 1 \in 1 .. Len(q) /\ next[m] = q[k + 1]
                        /\ q[k + 1] # q[1] /\ q[k + 1] \in LF!Node
  BY <1>2, <1>3, PathStep
<1> QED
  BY <1>1, <1>3, <1>4 DEF Fills

(* Tail stays or moves to the next node; head stays or moves.              *)
TailStep == tail' = tail \/ (/\ tail'.index = tail.index + 1 /\ next[tail.node] # LF!null
                             /\ tail'.node = next[tail.node])
HeadStep == head' = head \/ (head'.index = head.index + 1 /\ OneConsumer)

(* Nodes of the queue keep their data, and lead where they led.            *)
QueueKept(at) == \A m \in 1 .. fresh : at[m] = InQueue =>
    data'[m] = data[m] /\ (next[m] # LF!null => next'[m] = next[m])

(* What another producer knows.                                            *)
LEMMA KeepPut ==
    ASSUME LF!TypeOK, NEW at, NEW older, NEW at2, NEW older2, NEW u \in Producer, PutOK(u, at, older),
           enq'[u] = enq[u], TailStep, TailOK(at), QueueKept(at), fresh' \in Nat, fresh <= fresh',
           Carrying(u) => data'[enq[u].new] = data[enq[u].new],
           enq[u].step \in {"next", "link", "help"} =>
               \A v \in Producer : at2[enq[u].node] = Of(v) => <<u, v>> \in older2
    PROVE  PutOK(u, at2, older2)'
  BY DEF LF!TypeOK, TailStep, LF!Node, TailOK, QueueKept, PutOK, Carrying, LF!At, LF!Linked

(* What another consumer knows.                                            *)
LEMMA KeepGet ==
    ASSUME LF!TypeOK, NEW q, NEW w, NEW at, QueueOK(q), PlacesOK(q, w, at), TailOK(at),
           NEW c \in Consumer, NEW d \in Consumer, GetOK(d), deq'[d] = deq[d], 
           HeadStep, head' # head => c # d, TailStep, QueueKept(at), fresh' \in Nat, fresh <= fresh',
           seen[d] /\ ~LF!AtDeq(d, "idle") => seen'[d]
    PROVE  GetOK(d)'
<1>0. at[head.node] = InQueue /\ head.node \in 1 .. fresh
  BY DEF QueueOK, Path, PlacesOK, Fills
<1>1. /\ deq[d].index \in Nat /\ deq[d].tindex \in Nat /\ tail.index \in Nat /\ head.index \in Nat
      /\ fresh \in Nat
  BY DEF LF!TypeOK, LF!Node
<1>2. /\ head' = head \/ (head'.index = head.index + 1 /\ ~Elided)
      /\ tail' = tail \/ (tail'.index = tail.index + 1)
  BY DEF HeadStep, TailStep, OneConsumer
<1>3. /\ next[tail.node] # LF!null => next'[tail.node] = next[tail.node]
      /\ next[head.node] # LF!null => next'[head.node] = next[head.node]
      /\ next[head.node] # LF!null => data'[next[head.node]] = data[next[head.node]]
  BY <1>0, QueueNext DEF TailOK, QueueKept
<1>4. tail.node # head.node => tail'.node # head.node
  BY QueueNext DEF TailOK, TailStep
<1>5. deq'[d].step \notin {"idle", "index", "free"} =>
          /\ deq'[d].index <= head'.index /\ (Elided => deq'[d].index = head'.index)
          /\ deq'[d].index = head'.index => head' = head
  BY <1>1, <1>2 DEF GetOK
<1>6. deq'[d].step \in {"tnode", "check", "help"} =>
          deq'[d].tindex <= tail'.index /\ (deq'[d].tindex = tail'.index => tail' = tail)
  BY <1>1, <1>2 DEF GetOK
<1>7. deq'[d].step \in {"next", "tindex", "tnode", "check", "help", "data", "take"} =>
          deq'[d].node \in 1 .. fresh' /\ (deq'[d].index = head'.index => deq'[d].node = head'.node)
  BY <1>1, <1>5 DEF GetOK
<1>8. deq'[d].step \in {"tindex", "tnode", "check", "help", "data", "take"} =>
          (deq'[d].index = head'.index /\ deq'[d].next # LF!null => next'[head'.node] = deq'[d].next)
  BY <1>3, <1>5 DEF GetOK
<1>9. deq'[d].step \in {"tindex", "tnode", "check"} =>
          (deq'[d].index = head'.index /\ deq'[d].next = LF!null => seen'[d])
  BY <1>5 DEF GetOK, LF!AtDeq
<1>10. deq'[d].step \in {"check", "help"} => (deq'[d].tindex = tail'.index => deq'[d].tnode = tail'.node)
  BY <1>6 DEF GetOK
<1>11. deq'[d].step = "check" =>
          (deq'[d].index = head'.index /\ deq'[d].tnode # deq'[d].node => tail'.node # head'.node)
  BY <1>4, <1>5 DEF GetOK
<1>12. deq'[d].step = "help" =>
          deq'[d].next # LF!null /\ (deq'[d].tindex = tail'.index => next'[tail'.node] = deq'[d].next)
  BY <1>3, <1>6 DEF GetOK
<1>13. deq'[d].step \in {"data", "take"} =>
          deq'[d].next # LF!null /\ (deq'[d].index = head'.index => tail'.node # head'.node)
  BY <1>4, <1>5 DEF GetOK
<1>14. deq'[d].step = "take" => (deq'[d].index = head'.index => deq'[d].value = data'[deq'[d].next])
  BY <1>3, <1>5 DEF GetOK
<1> QED
  BY <1>5, <1>6, <1>7, <1>8, <1>9, <1>10, <1>11, <1>12, <1>13, <1>14 DEF GetOK

(* Sees notes when the queue is empty.                                     *)
LEMMA SeenAfter ==
    ASSUME LF!TypeOK, LF!Sees, NEW q, Path(next', q), q[1] = head'.node,
           NEW D, data' \in [LF!Node -> D]
    PROVE  /\ SeenOK(q)'
           /\ \A c \in Consumer : seen[c] /\ ~LF!AtDeq(c, "idle") /\ ~LF!AtDeq(c, "idle")' => seen'[c]
<1>1. LF!Queued' = Rest(data', q) /\ Len(Rest(data', q)) = Len(q) - 1 /\ Rest(data', q) \in Seq(D)
  BY RestIs DEF LF!Queued, LF!Values
<1>2. Len(q) \in Nat /\ Len(q) > 0
  BY DEF Path
<1>3. Len(q) = 1 => LF!Queued' = <<>>
  BY <1>1
<1>4. seen' = [c \in Consumer |-> /\ deq'[c].step # "idle"
                                  /\ (deq[c].step # "idle" /\ seen[c]) \/ LF!Queued' = <<>>]
  BY DEF LF!Sees
<1>5. \A c \in Consumer : seen'[c] = (/\ deq'[c].step # "idle"
                                      /\ (deq[c].step # "idle" /\ seen[c]) \/ LF!Queued' = <<>>)
  BY <1>4, Zenon
<1>6. \A c \in Consumer : (seen'[c] => deq'[c].step # "idle") /\ (deq'[c].step # "idle" /\ Len(q) = 1 => seen'[c])
  BY <1>3, <1>5, Zenon
<1>7. \A c \in Consumer : seen[c] /\ deq[c].step # "idle" /\ deq'[c].step # "idle" => seen'[c]
  BY <1>5, Zenon
<1> QED
  BY <1>6, <1>7, Zenon DEF SeenOK, LF!AtDeq

(* Only the call of p, or of c, goes on.                                   *)
OnlyPut(p) == DOMAIN enq' = Producer /\ \A u \in Producer \ {p} : enq'[u] = enq[u]
OnlyGet(c) == DOMAIN deq' = Consumer /\ \A d \in Consumer \ {c} : deq'[d] = deq[d]

(* The next node of tail is in the queue, so tail is.                      *)
LEMMA TailStays ==
    ASSUME NEW q, NEW w, NEW at, QueueOK(q), PlacesOK(q, w, at), TailOK(at), TailStep, fresh' = fresh
    PROVE  TailOK(at)'
  BY QueueNext DEF TailOK, TailStep

(* A producer reads, or moves tail.                                        *)
LEMMA ProducerStep ==
    ASSUME LF!TypeOK, LF!Sees, NEW q, NEW w, NEW at, NEW older, Safe(q, w, at, older),
           NEW p \in Producer, OnlyPut(p), Carrying(p)' = Carrying(p),
           Carrying(p) => enq'[p].new = enq[p].new,
           UNCHANGED <<next, data, pool, fresh, head, deq>>, TailStep, PutOK(p, at, older)'
    PROVE  Safe(q, w, at, older)'
<1>0. /\ QueueOK(q) /\ CarryOK(w) /\ PlacesOK(q, w, at) /\ TailOK(at)
      /\ \A u \in Producer : PutOK(u, at, older)
      /\ \A c \in Consumer : GetOK(c)
  BY DEF Safe
<1>1. QueueOK(q)'
  BY <1>0 DEF QueueOK
<1>2. CarryOK(w)'
  BY <1>0 DEF OnlyPut, Carrying, LF!At, LF!Linked, CarryOK
<1>3. PlacesOK(q, w, at)'
  BY <1>0 DEF PlacesOK, LF!AtDeq
<1>4. PoolOK' /\ EndsOK(at)' /\ OlderOK(older)
  BY DEF Safe, PoolOK, EndsOK
<1>5. TailOK(at)'
  BY <1>0, TailStays
<1>6. QueueKept(at) /\ fresh' \in Nat /\ fresh <= fresh' /\ HeadStep
  BY DEF QueueKept, LF!TypeOK, LF!Node, HeadStep
<1>7. ASSUME NEW u \in Producer, u # p PROVE PutOK(u, at, older)'
  <2>1. enq'[u] = enq[u] /\ PutOK(u, at, older)
    BY <1>0, <1>7 DEF OnlyPut
  <2>2. enq[u].step \in {"next", "link", "help"} =>
            \A v \in Producer : at[enq[u].node] = Of(v) => <<u, v>> \in older
    BY <2>1 DEF PutOK
  <2> QED
    BY <1>0, <1>6, <2>1, <2>2, KeepPut
<1>8. SeenOK(q)' /\ \A c \in Consumer : seen[c] /\ ~LF!AtDeq(c, "idle") => seen'[c]
  BY <1>1, SeenAfter DEF QueueOK, LF!TypeOK, LF!AtDeq
<1>9. ASSUME NEW d \in Consumer PROVE GetOK(d)'
  BY <1>0, <1>6, <1>8, KeepGet
<1> QED
  BY <1>1, <1>2, <1>3, <1>4, <1>5, <1>7, <1>8, <1>9 DEF Safe, OlderOK

(* A consumer reads, or moves tail.                                        *)
LEMMA ConsumerStep ==
    ASSUME LF!TypeOK, LF!Sees, NEW q, NEW w, NEW at, NEW older, Safe(q, w, at, older),
           NEW c \in Consumer, OnlyGet(c), ~LF!AtDeq(c, "free"), ~LF!AtDeq(c, "free")',
           UNCHANGED <<next, data, pool, fresh, head, enq>>, TailStep, GetOK(c)'
    PROVE  Safe(q, w, at, older)'
<1>0. /\ QueueOK(q) /\ CarryOK(w) /\ PlacesOK(q, w, at) /\ TailOK(at)
      /\ \A u \in Producer : PutOK(u, at, older)
      /\ \A d \in Consumer : GetOK(d)
  BY DEF Safe
<1>1. QueueOK(q)' /\ CarryOK(w)'
  BY <1>0 DEF QueueOK, CarryOK, Carrying, LF!At, LF!Linked
<1>2. PlacesOK(q, w, at)'
  BY <1>0 DEF OnlyGet, LF!AtDeq, PlacesOK
<1>3. PoolOK' /\ EndsOK(at)' /\ OlderOK(older)
  BY DEF Safe, PoolOK, EndsOK
<1>4. TailOK(at)'
  BY <1>0, TailStays
<1>5. QueueKept(at) /\ fresh' \in Nat /\ fresh <= fresh' /\ HeadStep /\ head' = head
  BY DEF QueueKept, LF!TypeOK, LF!Node, HeadStep
<1>6. ASSUME NEW u \in Producer PROVE PutOK(u, at, older)'
  <2>1. enq'[u] = enq[u] /\ PutOK(u, at, older)
    BY <1>0
  <2>2. enq[u].step \in {"next", "link", "help"} =>
            \A v \in Producer : at[enq[u].node] = Of(v) => <<u, v>> \in older
    BY <2>1 DEF PutOK
  <2> QED
    BY <1>0, <1>5, <2>1, <2>2, KeepPut
<1>7. SeenOK(q)' /\ \A d \in Consumer : seen[d] /\ ~LF!AtDeq(d, "idle") /\ ~LF!AtDeq(d, "idle")' => seen'[d]
  BY <1>1, SeenAfter DEF QueueOK, LF!TypeOK
<1>8. ASSUME NEW d \in Consumer, d # c PROVE GetOK(d)'
  BY <1>0, <1>8, <1>7, <1>5, KeepGet DEF OnlyGet, LF!AtDeq
<1> QED
  BY <1>1, <1>2, <1>3, <1>4, <1>6, <1>7, <1>8 DEF Safe, OlderOK

-----------------------------------------------------------------------------
(* The steps of Enqueue that read, or move tail on.                        *)


LEMMA Enqueue_IndexSafe ==
    ASSUME LF!TypeOK, LF!Sees, NEW q, NEW w, NEW at, NEW older, Safe(q, w, at, older),
           NEW p \in Producer, LF!Enqueue_Index(p)
    PROVE  Safe(q, w, at, older)'
<1>1. enq' = [enq EXCEPT ![p].step = "node", ![p].index = tail.index] /\ LF!At(p, "index")
  BY DEF LF!Enqueue_Index
<1>2. UNCHANGED <<next, data, pool, fresh, head, tail, deq>>
  BY DEF LF!Enqueue_Index, LF!nodeVars
<1>3. OnlyPut(p) /\ enq'[p].step = "node" /\ enq'[p].index = tail.index /\ enq'[p].new = enq[p].new
      /\ enq'[p].n = enq[p].n
  BY <1>1 DEF LF!TypeOK, OnlyPut
<1>4. Carrying(p) /\ Carrying(p)'
  BY <1>1, <1>3 DEF Carrying, LF!At, LF!Linked
<1>5. PutOK(p, at, older)'
  BY <1>2, <1>3, <1>4 DEF Safe, LF!TypeOK, PutOK
<1> QED
  BY <1>2, <1>3, <1>4, <1>5, ProducerStep DEF TailStep

LEMMA Enqueue_NodeSafe ==
    ASSUME LF!TypeOK, LF!Sees, NEW q, NEW w, NEW at, NEW older, Safe(q, w, at, older),
           NEW p \in Producer, LF!Enqueue_Node(p)
    PROVE  Safe(q, w, at, older)'
<1>1. enq' = [enq EXCEPT ![p].step = "next", ![p].node = tail.node] /\ LF!At(p, "node")
  BY DEF LF!Enqueue_Node
<1>2. UNCHANGED <<next, data, pool, fresh, head, tail, deq>>
  BY DEF LF!Enqueue_Node, LF!nodeVars
<1>3. OnlyPut(p) /\ enq'[p].step = "next" /\ enq'[p].index = enq[p].index /\ enq'[p].new = enq[p].new
      /\ enq'[p].n = enq[p].n /\ enq'[p].node = tail.node
  BY <1>1 DEF LF!TypeOK, OnlyPut
<1>4. Carrying(p) /\ Carrying(p)'
  BY <1>1, <1>3 DEF Carrying, LF!At, LF!Linked
<1>5. PutOK(p, at, older)'
  BY PlacesDiffer, <1>1, <1>2, <1>3, <1>4 DEF Safe, TailOK, PutOK, LF!At
<1> QED
  BY <1>2, <1>3, <1>4, <1>5, ProducerStep DEF TailStep

LEMMA Enqueue_NextSafe ==
    ASSUME LF!TypeOK, LF!Sees, NEW q, NEW w, NEW at, NEW older, Safe(q, w, at, older),
           NEW p \in Producer, LF!Enqueue_Next(p)
    PROVE  Safe(q, w, at, older)'
<1>1. /\ enq' = [enq EXCEPT ![p].step = IF next[enq[p].node] = LF!null THEN "link" ELSE "help",
                            ![p].next = next[enq[p].node]]
      /\ LF!At(p, "next")
  BY DEF LF!Enqueue_Next
<1>2. UNCHANGED <<next, data, pool, fresh, head, tail, deq>>
  BY DEF LF!Enqueue_Next, LF!nodeVars
<1>3. OnlyPut(p) /\ enq'[p].step = (IF next[enq[p].node] = LF!null THEN "link" ELSE "help")
      /\ enq'[p].index = enq[p].index /\ enq'[p].new = enq[p].new
      /\ enq'[p].n = enq[p].n /\ enq'[p].node = enq[p].node /\ enq'[p].next = next[enq[p].node]
  BY <1>1 DEF LF!TypeOK, OnlyPut
<1>4. Carrying(p) /\ Carrying(p)' /\ enq[p].step = "next"
  BY <1>1, <1>3 DEF Carrying, LF!At, LF!Linked
<1>5. PutOK(p, at, older)'
  BY <1>2, <1>3, <1>4 DEF Safe, PutOK
<1> QED
  BY <1>2, <1>3, <1>4, <1>5, ProducerStep DEF TailStep

(* Tail moves only if it is where it was read.                             *)
LEMMA Swings ==
    ASSUME tail.index \in Nat, tail.node \in LF!Node, NEW r, NEW m, tail' = LF!Swing(tail, r, m),
           LF!Same(tail, r) => m # LF!null /\ next[tail.node] = m
    PROVE  TailStep
  BY DEF LF!Swing, LF!Same, TailStep

LEMMA Enqueue_SwingSafe ==
    ASSUME LF!TypeOK, LF!Sees, NEW q, NEW w, NEW at, NEW older, Safe(q, w, at, older),
           NEW p \in Producer, LF!Enqueue_Swing(p)
    PROVE  Safe(q, w, at, older)'
<1>1. /\ enq' = [enq EXCEPT ![p] = LF!Put0(@.n)] /\ enq[p].step = "swing"
      /\ tail' = LF!Swing(tail, enq[p], enq[p].new)
  BY DEF LF!Enqueue_Swing, LF!At
<1>2. UNCHANGED <<next, data, pool, fresh, head, deq>>
  BY DEF LF!Enqueue_Swing, LF!nodeVars
<1>3. OnlyPut(p) /\ enq'[p].step = "idle"
  BY <1>1 DEF LF!TypeOK, OnlyPut, LF!Put0
<1>4. ~Carrying(p) /\ ~Carrying(p)'
  BY <1>1, <1>3 DEF Carrying, LF!At, LF!Linked
<1>5. PutOK(p, at, older)'
  BY <1>3, <1>4 DEF PutOK
<1>6. TailStep
  BY <1>1, Swings DEF Safe, LF!TypeOK, PutOK, LF!Same
<1>7. Carrying(p)' = Carrying(p) /\ (Carrying(p) => enq'[p].new = enq[p].new)
  BY <1>4 DEF Carrying
<1> QED
  BY <1>2, <1>3, <1>5, <1>6, <1>7, ProducerStep

LEMMA Enqueue_HelpSafe ==
    ASSUME LF!TypeOK, LF!Sees, NEW q, NEW w, NEW at, NEW older, Safe(q, w, at, older),
           NEW p \in Producer, LF!Enqueue_Help(p)
    PROVE  Safe(q, w, at, older)'
<1>1. /\ enq' = [enq EXCEPT ![p].step = "index"] /\ enq[p].step = "help"
      /\ tail' = LF!Swing(tail, enq[p], enq[p].next)
  BY DEF LF!Enqueue_Help, LF!At
<1>2. UNCHANGED <<next, data, pool, fresh, head, deq>>
  BY DEF LF!Enqueue_Help, LF!nodeVars
<1>3. OnlyPut(p) /\ enq'[p].step = "index" /\ enq'[p].new = enq[p].new /\ enq'[p].n = enq[p].n
  BY <1>1 DEF LF!TypeOK, OnlyPut
<1>4. Carrying(p) /\ Carrying(p)'
  BY <1>1, <1>3 DEF Carrying, LF!At, LF!Linked
<1>5. PutOK(p, at, older) /\ tail.index \in Nat /\ tail.node \in LF!Node
  BY DEF Safe, LF!TypeOK
<1>6. PutOK(p, at, older)'
  BY <1>2, <1>3, <1>4, <1>5 DEF PutOK
<1>7. TailStep
  BY <1>1, <1>5, Swings DEF PutOK, LF!Same
<1> QED
  BY <1>2, <1>3, <1>4, <1>6, <1>7, ProducerStep

-----------------------------------------------------------------------------
(* The steps of Dequeue that read, or move tail on.                        *)

(* Nothing but the call of c changes, and it does not end at a free node.  *)
Reads(c) == /\ OnlyGet(c) /\ ~LF!AtDeq(c, "free") /\ ~LF!AtDeq(c, "free")'
            /\ UNCHANGED <<next, data, pool, fresh, head, tail, enq>>

LEMMA ReadsSafe ==
    ASSUME LF!TypeOK, LF!Sees, NEW q, NEW w, NEW at, NEW older, Safe(q, w, at, older),
           NEW c \in Consumer, Reads(c), GetOK(c)'
    PROVE  Safe(q, w, at, older)'
  BY ConsumerStep DEF Reads, TailStep

LEMMA DequeueSafe ==
    ASSUME LF!TypeOK, LF!Sees, NEW q, NEW w, NEW at, NEW older, Safe(q, w, at, older),
           NEW c \in Consumer, LF!Dequeue(c)
    PROVE  Safe(q, w, at, older)'
  BY ReadsSafe DEF LF!Dequeue, LF!AtDeq, LF!nodeVars, LF!TypeOK, OnlyGet, LF!Get0, GetOK, Reads

LEMMA Dequeue_HeadSafe ==
    ASSUME LF!TypeOK, LF!Sees, NEW q, NEW w, NEW at, NEW older, Safe(q, w, at, older),
           NEW c \in Consumer, LF!Dequeue_Head(c)
    PROVE  Safe(q, w, at, older)'
<1>1. UNCHANGED <<next, data, pool, fresh, head, tail, enq>> /\ head.index \in Nat /\ head.node \in LF!Node
  BY DEF LF!Dequeue_Head, LF!nodeVars, LF!TypeOK
<1>2. GetOK(c)
  BY DEF Safe
<1>3. CASE deq[c].step = "index" /\ deq' = [deq EXCEPT ![c].step = "node", ![c].index = head.index]
  <2>1. OnlyGet(c) /\ deq'[c].step = "node" /\ deq'[c].index = head.index
    BY <1>3 DEF LF!TypeOK, OnlyGet
  <2>2. GetOK(c)'
    BY <1>1, <2>1 DEF GetOK
  <2> QED
    BY <1>1, <1>3, <2>1, <2>2, ReadsSafe DEF Reads, LF!AtDeq
<1>4. CASE deq[c].step = "node" /\ deq' = [deq EXCEPT ![c].step = "next", ![c].node = head.node]
  <2>1. OnlyGet(c) /\ deq'[c].step = "next" /\ deq'[c].index = deq[c].index /\ deq'[c].node = head.node
    BY <1>4 DEF LF!TypeOK, OnlyGet
  <2>2. head.node \in 1 .. fresh
    BY DEF Safe, QueueOK, Path, PlacesOK, Fills
  <2>3. deq[c].index <= head.index /\ (Elided => deq[c].index = head.index)
    BY <1>2, <1>4 DEF GetOK
  <2>4. GetOK(c)'
    BY <1>1, <2>1, <2>2, <2>3 DEF GetOK
  <2> QED
    BY <1>1, <1>4, <2>1, <2>4, ReadsSafe DEF Reads, LF!AtDeq
<1> QED
  BY <1>3, <1>4 DEF LF!Dequeue_Head, LF!AtDeq

LEMMA Dequeue_NextSafe ==
    ASSUME LF!TypeOK, LF!Sees, NEW q, NEW w, NEW at, NEW older, Safe(q, w, at, older),
           NEW c \in Consumer, LF!Dequeue_Next(c)
    PROVE  Safe(q, w, at, older)'
<1>1. /\ UNCHANGED <<next, data, pool, fresh, head, tail, enq>> /\ deq[c].step = "next"
      /\ deq' = [deq EXCEPT ![c].step = "tindex", ![c].next = next[deq[c].node]]
  BY DEF LF!Dequeue_Next, LF!nodeVars, LF!AtDeq
<1>2. GetOK(c)
  BY DEF Safe
<1>3. OnlyGet(c) /\ deq'[c].step = "tindex" /\ deq'[c].index = deq[c].index /\ deq'[c].node = deq[c].node
      /\ deq'[c].next = next[deq[c].node]
  BY <1>1 DEF LF!TypeOK, OnlyGet
<1>4. deq[c].index = head.index /\ next[deq[c].node] = LF!null => seen'[c]
  <2> SUFFICES ASSUME deq[c].index = head.index, next[deq[c].node] = LF!null PROVE seen'[c]
    OBVIOUS
  <2>1. deq[c].node = head.node
    BY <1>1, <1>2 DEF GetOK
  <2>2. Path(next, q) /\ q[1] = head.node /\ 1 \in 1 .. Len(q)
    BY DEF Safe, QueueOK, Path
  <2>3. Len(q) = 1
    BY <2>1, <2>2, PathStep
  <2>4. Path(next', q) /\ q[1] = head'.node /\ data' \in [LF!Node -> LF!Value \cup {NoValue}]
    BY <1>1, <2>2 DEF LF!TypeOK
  <2>5. SeenOK(q)'
    BY <2>4, SeenAfter
  <2> QED
    BY <1>3, <2>3, <2>5 DEF SeenOK, LF!AtDeq
<1>5. GetOK(c)'
  BY <1>1, <1>2, <1>3, <1>4 DEF GetOK
<1> QED
  BY <1>1, <1>3, <1>5, ReadsSafe DEF Reads, LF!AtDeq

LEMMA Dequeue_DataSafe ==
    ASSUME LF!TypeOK, LF!Sees, NEW q, NEW w, NEW at, NEW older, Safe(q, w, at, older),
           NEW c \in Consumer, LF!Dequeue_Data(c)
    PROVE  Safe(q, w, at, older)'
<1>1. /\ UNCHANGED <<next, data, pool, fresh, head, tail, enq>> /\ deq[c].step = "data"
      /\ deq' = [deq EXCEPT ![c].step = "take", ![c].value = data[deq[c].next]]
  BY DEF LF!Dequeue_Data, LF!nodeVars, LF!AtDeq
<1>2. GetOK(c)
  BY DEF Safe
<1>3. OnlyGet(c) /\ deq'[c].step = "take" /\ deq'[c].index = deq[c].index /\ deq'[c].node = deq[c].node
      /\ deq'[c].next = deq[c].next /\ deq'[c].value = data[deq[c].next]
  BY <1>1 DEF LF!TypeOK, OnlyGet
<1>4. GetOK(c)'
  BY <1>1, <1>2, <1>3 DEF GetOK
<1> QED
  BY <1>1, <1>3, <1>4, ReadsSafe DEF Reads, LF!AtDeq

LEMMA Dequeue_HelpSafe ==
    ASSUME LF!TypeOK, LF!Sees, NEW q, NEW w, NEW at, NEW older, Safe(q, w, at, older),
           NEW c \in Consumer, LF!Dequeue_Help(c)
    PROVE  Safe(q, w, at, older)'
<1>1. /\ UNCHANGED <<next, data, pool, fresh, head, enq>> /\ deq[c].step = "help"
      /\ deq' = [deq EXCEPT ![c].step = "index"]
      /\ tail' = LF!Swing(tail, [index |-> deq[c].tindex, node |-> deq[c].tnode], deq[c].next)
  BY DEF LF!Dequeue_Help, LF!nodeVars, LF!AtDeq, LF!Go
<1>2. GetOK(c) /\ tail.index \in Nat /\ tail.node \in LF!Node
  BY DEF Safe, LF!TypeOK
<1>3. OnlyGet(c) /\ deq'[c].step = "index"
  BY <1>1 DEF LF!TypeOK, OnlyGet
<1>4. GetOK(c)'
  BY <1>3 DEF GetOK
<1>5. TailStep
  BY <1>1, <1>2, Swings DEF GetOK, LF!Same
<1> QED
  BY <1>1, <1>3, <1>4, <1>5, ConsumerStep DEF LF!AtDeq

LEMMA Dequeue_TailSafe ==
    ASSUME LF!TypeOK, LF!Sees, NEW q, NEW w, NEW at, NEW older, Safe(q, w, at, older),
           NEW c \in Consumer, LF!Dequeue_Tail(c)
    PROVE  Safe(q, w, at, older)'
<1>1. UNCHANGED <<next, data, pool, fresh, head, tail, enq>> /\ tail.index \in Nat /\ tail.node \in LF!Node
  BY DEF LF!Dequeue_Tail, LF!nodeVars, LF!TypeOK
<1>2. GetOK(c)
  BY DEF Safe
<1>3. seen[c] /\ ~LF!AtDeq(c, "idle") /\ ~LF!AtDeq(c, "idle")' => seen'[c]
  BY <1>1, SeenAfter DEF LF!TypeOK, Safe, QueueOK
<1>4. CASE deq[c].step = "tindex" /\ deq' = [deq EXCEPT ![c].step = "tnode", ![c].tindex = tail.index]
  <2>1. OnlyGet(c) /\ deq'[c].step = "tnode" /\ deq'[c].index = deq[c].index /\ deq'[c].node = deq[c].node
        /\ deq'[c].next = deq[c].next /\ deq'[c].tindex = tail.index
    BY <1>4 DEF LF!TypeOK, OnlyGet
  <2>2. seen[c] => seen'[c]
    BY <1>3, <1>4, <2>1 DEF LF!AtDeq
  <2>3. GetOK(c)'
    BY <1>1, <1>2, <1>4, <2>1, <2>2 DEF GetOK
  <2> QED
    BY <1>1, <1>4, <2>1, <2>3, ReadsSafe DEF Reads, LF!AtDeq
<1>5. CASE deq[c].step = "tnode" /\ deq' = [deq EXCEPT ![c].step = "check", ![c].tnode = tail.node]
  <2>1. OnlyGet(c) /\ deq'[c].step = "check" /\ deq'[c].index = deq[c].index /\ deq'[c].node = deq[c].node
        /\ deq'[c].next = deq[c].next /\ deq'[c].tindex = deq[c].tindex /\ deq'[c].tnode = tail.node
    BY <1>5 DEF LF!TypeOK, OnlyGet
  <2>2. seen[c] => seen'[c]
    BY <1>3, <1>5, <2>1 DEF LF!AtDeq
  <2>3. GetOK(c)'
    BY <1>1, <1>2, <1>5, <2>1, <2>2 DEF GetOK
  <2> QED
    BY <1>1, <1>5, <2>1, <2>3, ReadsSafe DEF Reads, LF!AtDeq
<1> QED
  BY <1>4, <1>5 DEF LF!Dequeue_Tail, LF!AtDeq

LEMMA Dequeue_CheckSafe ==
    ASSUME LF!TypeOK, LF!Sees, NEW q, NEW w, NEW at, NEW older, Safe(q, w, at, older),
           NEW c \in Consumer, LF!Dequeue_Check(c)
    PROVE  Safe(q, w, at, older)'
<1>1. UNCHANGED <<next, data, pool, fresh, head, tail, enq>> /\ deq[c].step = "check"
  BY DEF LF!Dequeue_Check, LF!nodeVars, LF!AtDeq
<1>2. GetOK(c)
  BY DEF Safe
<1>3. CASE LF!Go(c, "index") \/ deq' = [deq EXCEPT ![c] = LF!Get0(NoValue)]
  <2>1. OnlyGet(c) /\ deq'[c].step \in {"index", "idle"}
    BY <1>3 DEF LF!TypeOK, OnlyGet, LF!Go, LF!Get0
  <2>2. GetOK(c)'
    BY <2>1 DEF GetOK
  <2> QED
    BY <1>1, <2>1, <2>2, ReadsSafe DEF Reads, LF!AtDeq
<1>4. CASE /\ head.index = deq[c].index \/ Elided
           /\ deq[c].next # LF!null
           /\ IF deq[c].tnode = deq[c].node THEN LF!Go(c, "help") ELSE LF!Go(c, "data")
  <2>1. deq[c].index = head.index
    BY <1>1, <1>2, <1>4 DEF GetOK
  <2>2. deq[c].node = head.node /\ next[head.node] = deq[c].next /\ deq[c].node \in 1 .. fresh
    BY <1>1, <1>2, <1>4, <2>1 DEF GetOK
  <2>3. /\ deq[c].tindex <= tail.index
        /\ deq[c].tindex = tail.index => deq[c].tnode = tail.node
        /\ deq[c].tnode # deq[c].node => tail.node # head.node
    BY <1>1, <1>2, <2>1 DEF GetOK
  <2>4. head.index \in Nat
    BY DEF LF!TypeOK
  <2>5. CASE deq[c].tnode = deq[c].node /\ LF!Go(c, "help")
    <3>1. OnlyGet(c) /\ deq'[c] = [deq[c] EXCEPT !.step = "help"]
      BY <2>5 DEF LF!TypeOK, OnlyGet, LF!Go
    <3>2. deq'[c].step = "help" /\ deq'[c].index = deq[c].index /\ deq'[c].node = deq[c].node
          /\ deq'[c].next = deq[c].next /\ deq'[c].tindex = deq[c].tindex /\ deq'[c].tnode = deq[c].tnode
      BY <3>1 DEF LF!TypeOK
    <3>3. GetOK(c)'
      BY <1>1, <1>4, <2>1, <2>2, <2>3, <2>4, <2>5, <3>2 DEF GetOK
    <3> QED
      BY <1>1, <3>1, <3>2, <3>3, ReadsSafe DEF Reads, LF!AtDeq
  <2>6. CASE deq[c].tnode # deq[c].node /\ LF!Go(c, "data")
    <3>1. OnlyGet(c) /\ deq'[c] = [deq[c] EXCEPT !.step = "data"]
      BY <2>6 DEF LF!TypeOK, OnlyGet, LF!Go
    <3>2. deq'[c].step = "data" /\ deq'[c].index = deq[c].index /\ deq'[c].node = deq[c].node
          /\ deq'[c].next = deq[c].next
      BY <3>1 DEF LF!TypeOK
    <3>3. GetOK(c)'
      BY <1>1, <1>4, <2>1, <2>2, <2>3, <2>4, <2>6, <3>2 DEF GetOK
    <3> QED
      BY <1>1, <3>1, <3>2, <3>3, ReadsSafe DEF Reads, LF!AtDeq
  <2> QED
    BY <1>4, <2>5, <2>6
<1>5. LF!Go(c, "index") \/ (/\ head.index = deq[c].index \/ Elided
                         /\ IF deq[c].tnode = deq[c].node
                            THEN IF deq[c].next = LF!null THEN deq' = [deq EXCEPT ![c] = LF!Get0(NoValue)]
                                                       ELSE LF!Go(c, "help")
                            ELSE LF!Go(c, IF deq[c].next = LF!null THEN "index" ELSE "data"))
  BY DEF LF!Dequeue_Check
<1>6. CASE deq[c].tnode = deq[c].node
  BY <1>3, <1>4, <1>5, <1>6
<1>7. CASE deq[c].tnode # deq[c].node /\ deq[c].next = LF!null
  BY <1>3, <1>5, <1>7
<1>8. CASE deq[c].tnode # deq[c].node /\ deq[c].next # LF!null
  BY <1>3, <1>4, <1>5, <1>8
<1> QED
  BY <1>6, <1>7, <1>8

-----------------------------------------------------------------------------
(* The steps that move nodes from one place to another.                    *)

(* A place no node comes to or leaves.                                     *)
LEMMA FillsKeeps ==
    ASSUME NEW s, NEW at, NEW x, Fills(s, at, x), NEW at2, DOMAIN at \subseteq DOMAIN at2,
           \A m \in DOMAIN at : at[m] = x <=> at2[m] = x,
           \A m \in DOMAIN at2 : m \notin DOMAIN at => at2[m] # x
    PROVE  Fills(s, at2, x)
  BY DEF Fills

(* All the nodes of one place join those of another.                       *)
LEMMA FillsJoin ==
    ASSUME NEW s \in Seq(LF!Node), NEW t \in Seq(LF!Node), NEW at, NEW x, NEW y, Fills(s, at, x), Fills(t, at, y),
           NEW at2, at2 = [m \in DOMAIN at |-> IF at[m] = y THEN x ELSE at[m]]
    PROVE  Fills(s \o t, at2, x)
<1>0. Len(s) \in Nat /\ Len(t) \in Nat
  OBVIOUS
<1>1. PICK n, l : n = Len(s) /\ n \in Nat /\ l = Len(t) /\ l \in Nat
  BY <1>0
<1>2. PICK u : u = s \o t
  OBVIOUS
<1>3. Len(u) = n + l /\ \A k \in 1 .. n + l : u[k] = IF k <= n THEN s[k] ELSE t[k - n]
  BY <1>1, <1>2
<1>4. ASSUME NEW k \in 1 .. n + l PROVE u[k] \in DOMAIN at2 /\ at2[u[k]] = x
  <2>1. CASE k <= n
    <3>1. k \in 1 .. n /\ u[k] = s[k]
      BY <1>1, <1>3, <2>1
    <3> QED
      BY <1>1, <3>1 DEF Fills
  <2>2. CASE ~(k <= n)
    <3>1. k - n \in 1 .. l /\ u[k] = t[k - n]
      BY <1>1, <1>3, <2>2
    <3> QED
      BY <1>1, <3>1 DEF Fills
  <2> QED
    BY <2>1, <2>2
<1>5. ASSUME NEW m \in DOMAIN at2, at2[m] = x PROVE \E k \in 1 .. n + l : u[k] = m
  <2>1. CASE at[m] = y
    <3>1. PICK j \in 1 .. l : t[j] = m
      BY <1>1, <2>1 DEF Fills
    <3>2. PICK i : i = n + j /\ i \in 1 .. n + l /\ ~(i <= n) /\ i - n = j
      BY <1>1
    <3>3. u[i] = t[j]
      BY <1>3, <3>2
    <3> QED
      BY <3>1, <3>2, <3>3
  <2>2. CASE at[m] = x
    <3>1. PICK j \in 1 .. n : s[j] = m
      BY <1>1, <2>2 DEF Fills
    <3>2. j \in 1 .. n + l /\ j <= n
      BY <1>1
    <3>3. u[j] = s[j]
      BY <1>3, <3>2
    <3> QED
      BY <3>1, <3>2, <3>3
  <2> QED
    BY <1>5, <2>1, <2>2
<1> QED
  BY <1>2, <1>3, <1>4, <1>5 DEF Fills

(* Whatever the step, consumers that did not move know what they knew.     *)
LEMMA OthersKeep ==
    ASSUME LF!TypeOK, LF!Sees, NEW q, NEW w, NEW at, NEW older, Safe(q, w, at, older), NEW q2, QueueOK(q2)',
           data' \in [LF!Node -> LF!Value \cup {NoValue}], TailStep, HeadStep, QueueKept(at),
           fresh' \in Nat, fresh <= fresh'
    PROVE  /\ SeenOK(q2)'
           /\ \A c, d \in Consumer : (head' # head => c # d) /\ deq'[d] = deq[d] => GetOK(d)'
  BY SeenAfter, KeepGet DEF Safe, QueueOK, LF!AtDeq

LEMMA Dequeue_FreeSafe ==
    ASSUME LF!TypeOK, LF!Sees, NEW q, NEW w, NEW at, NEW older, Safe(q, w, at, older),
           NEW c \in Consumer, LF!Dequeue_Free(c)
    PROVE  \E at2 : Safe(q, w, at2, older)'
<1>1. /\ UNCHANGED <<next, data, fresh, head, tail, enq>> /\ deq[c].step = "free"
      /\ pool' = <<deq[c].node>> \o pool /\ deq' = [deq EXCEPT ![c] = LF!Get0(@.value)]
  BY DEF LF!Dequeue_Free, LF!AtDeq
<1>2. PICK m, at2 : m = deq[c].node /\ at2 = [at EXCEPT ![m] = InPool]
  OBVIOUS
<1>3. OnlyGet(c) /\ deq'[c].step = "idle"
  BY <1>1 DEF LF!TypeOK, OnlyGet, LF!Get0
<1>4. /\ QueueOK(q) /\ CarryOK(w) /\ PlacesOK(q, w, at) /\ TailOK(at) /\ PoolOK /\ EndsOK(at) /\ OlderOK(older)
      /\ \A u \in Producer : PutOK(u, at, older)
  BY DEF Safe
<1>5. m \in 1 .. fresh /\ at[m] = FreedBy(c) /\ DOMAIN at = 1 .. fresh /\ DOMAIN at2 = 1 .. fresh
      /\ at2[m] = InPool /\ \A k \in 1 .. fresh : k # m => at2[k] = at[k]
  BY <1>1, <1>2, <1>4 DEF PlacesOK, LF!AtDeq
<1>6. QueueOK(q)' /\ CarryOK(w)'
  BY <1>1, <1>4 DEF QueueOK, CarryOK, Carrying, LF!At, LF!Linked
<1>7. PICK n : n = Len(pool) /\ n \in Nat /\ pool \in Seq(LF!Node) /\ m \in LF!Node
  <2>1. fresh \in 1 .. MaxPut + 1 /\ MaxPut \in Nat
    BY LockFreeQueueAssumption DEF LF!TypeOK, LF!Node
  <2>2. m \in LF!Node
    BY <1>5, <2>1 DEF LF!Node
  <2>3. pool \in Seq(LF!Node) /\ Len(pool) \in Nat
    BY DEF LF!TypeOK
  <2> QED
    BY <2>2, <2>3
<1>8. Len(pool') = n + 1 /\ pool'[1] = m /\ \A k \in 1 .. n : pool'[k + 1] = pool[k]
  BY <1>1, <1>2, <1>7
<1>9. \A k \in 1 .. n + 1 : k = 1 \/ (k - 1 \in 1 .. n /\ k = k - 1 + 1)
  BY <1>7
<1>10. \A k \in 1 .. n : pool[k] \in 1 .. fresh /\ at[pool[k]] = InPool /\ pool[k] # m
  BY <1>4, <1>5, <1>7, PlacesDiffer DEF PlacesOK, Fills
<1>11. PoolOK'
  <2> SUFFICES ASSUME NEW i \in 1 .. n + 1, NEW j \in 1 .. n + 1, pool'[i] = pool'[j] PROVE i = j
    BY <1>8 DEF PoolOK
  <2>1. CASE i = 1 /\ j = 1
    BY <2>1
  <2>2. CASE i = 1 /\ j # 1
    BY <1>8, <1>9, <1>10, <2>2
  <2>3. CASE i # 1 /\ j = 1
    BY <1>8, <1>9, <1>10, <2>3
  <2>4. CASE i # 1 /\ j # 1
    <3>1. PICK a, b \in 1 .. n : a = i - 1 /\ b = j - 1
      BY <1>9, <2>4
    <3>2. pool'[i] = pool[a] /\ pool'[j] = pool[b]
      BY <1>7, <1>8, <3>1
    <3>3. a = b
      BY <1>4, <1>7, <3>2 DEF PoolOK
    <3> QED
      BY <1>7, <3>1, <3>3
  <2> QED
    BY <2>1, <2>2, <2>3, <2>4
<1>12. Fills(pool', at2, InPool)
  <2>1. ASSUME NEW k \in 1 .. n + 1 PROVE pool'[k] \in DOMAIN at2 /\ at2[pool'[k]] = InPool
    BY <1>5, <1>8, <1>9, <1>10
  <2>2. ASSUME NEW k \in 1 .. fresh, at2[k] = InPool PROVE \E i \in 1 .. n + 1 : pool'[i] = k
    <3>1. CASE k = m
      BY <1>7, <1>8, <3>1
    <3>2. CASE k # m
      <4>1. PICK i \in 1 .. n : pool[i] = k
        BY <1>4, <1>5, <1>7, <2>2, <3>2 DEF PlacesOK, Fills
      <4>2. i + 1 \in 1 .. n + 1
        BY <1>7
      <4> QED
        BY <1>8, <4>1, <4>2
    <3> QED
      BY <3>1, <3>2
  <2> QED
    BY <1>5, <1>8, <2>1, <2>2 DEF Fills
<1>13. PlacesOK(q, w, at2)'
  <2>1. at2 \in [1 .. fresh -> NodePlaces]
    BY <1>2, <1>4, <1>5, PlacesDiffer DEF PlacesOK
  <2>2. Fills(q, at2, InQueue)
    BY <1>4, <1>5, PlacesDiffer, FillsKeeps DEF PlacesOK
  <2>3. ASSUME NEW u \in Producer PROVE Fills(w[u], at2, Of(u))
    BY <1>4, PlacesDiffer, <1>5, FillsKeeps DEF PlacesOK
  <2>4. ASSUME NEW d \in Consumer, LF!AtDeq(d, "free")' PROVE deq'[d].node \in 1 .. fresh /\ at2[deq'[d].node] = FreedBy(d)
    BY <1>3, <2>4, <1>4, <1>5, PlacesDiffer DEF OnlyGet, LF!AtDeq, PlacesOK
  <2>5. ASSUME NEW d \in Consumer, NEW k \in 1 .. fresh, at2[k] = FreedBy(d)
        PROVE  LF!AtDeq(d, "free")' /\ deq'[d].node = k
    BY <1>5, <2>5, PlacesDiffer, <1>4, <1>2, <1>3 DEF PlacesOK, OnlyGet, LF!AtDeq
  <2> QED
    BY <1>1, <1>12, <2>1, <2>2, <2>3, <2>4, <2>5 DEF PlacesOK
<1>14. EndsOK(at2)'
  BY <1>4, <1>5, <1>1 DEF EndsOK
<1>15. TailOK(at2)'
  BY <1>1, <1>4, <1>5, PlacesDiffer DEF TailOK
<1>16. QueueKept(at) /\ fresh' \in Nat /\ fresh <= fresh' /\ HeadStep /\ head' = head /\ TailStep
       /\ data' \in [LF!Node -> LF!Value \cup {NoValue}]
  BY <1>1 DEF QueueKept, LF!TypeOK, LF!Node, HeadStep, TailStep
<1>17. ASSUME NEW u \in Producer PROVE PutOK(u, at2, older)'
  <2>1. enq'[u] = enq[u] /\ PutOK(u, at, older)
    BY <1>1, <1>4
  <2>2. enq[u].step \in {"next", "link", "help"} =>
            \A v \in Producer : at2[enq[u].node] = Of(v) => <<u, v>> \in older
    BY <1>5, <2>1, PlacesDiffer DEF PutOK
  <2>3. Carrying(u) => data'[enq[u].new] = data[enq[u].new]
    BY <1>1
  <2> QED
    BY <1>4, <1>16, <2>1, <2>2, <2>3, KeepPut
<1>18. SeenOK(q)' /\ \A d \in Consumer : d # c => GetOK(d)'
  BY <1>6, <1>16, OthersKeep, <1>3 DEF OnlyGet
<1>19. GetOK(c)'
  BY <1>3 DEF GetOK
<1>20. Safe(q, w, at2, older)'
  BY <1>4, <1>6, <1>11, <1>13, <1>14, <1>15, <1>17, <1>18, <1>19 DEF Safe, OlderOK
<1> QED
  BY <1>20

(* Head moves: the old dummy is with the consumer that moved it.           *)
LEMMA Dequeue_TakeSafe ==
    ASSUME LF!TypeOK, LF!Sees, OneConsumer, NEW q, NEW w, NEW at, NEW older, Safe(q, w, at, older),
           NEW c \in Consumer, LF!Dequeue_Take(c), LF!Same(head, deq[c])
    PROVE  /\ \E at2 : Safe(Tail(q), w, at2, older)'
           /\ Len(q) > 1 /\ deq[c].value = data[q[2]]
<1>1. /\ UNCHANGED <<next, data, pool, fresh, tail, enq>> /\ deq[c].step = "take"
      /\ head' = [index |-> deq[c].index + 1, node |-> deq[c].next] /\ deq' = [deq EXCEPT ![c].step = "free"]
      /\ head.index = deq[c].index /\ head.node = deq[c].node
  BY DEF LF!Dequeue_Take, LF!AtDeq, LF!nodeVars, LF!Swing, LF!Same, LF!Go
<1>2. /\ QueueOK(q) /\ CarryOK(w) /\ PlacesOK(q, w, at) /\ TailOK(at) /\ PoolOK /\ EndsOK(at) /\ OlderOK(older)
      /\ \A u \in Producer : PutOK(u, at, older)
      /\ GetOK(c)
  BY DEF Safe
<1>3. /\ next[head.node] = deq[c].next /\ deq[c].next # LF!null /\ tail.node # head.node
      /\ deq[c].value = data[deq[c].next]
  BY <1>1, <1>2 DEF GetOK
<1>4. PICK m, at2 : m = head.node /\ at2 = [at EXCEPT ![m] = FreedBy(c)]
  OBVIOUS
<1>5. Path(next, q) /\ q[1] = m /\ 1 \in 1 .. Len(q) /\ Len(q) \in Nat
  BY <1>2, <1>4 DEF QueueOK, Path
<1>6. 1 + 1 \in 1 .. Len(q) /\ next[m] = q[1 + 1]
  BY <1>3, <1>4, <1>5, PathStep
<1>7. Len(q) > 1 /\ q[2] = deq[c].next
  BY <1>3, <1>4, <1>5, <1>6
<1>8. PICK r : r = Tail(q) /\ Path(next, r) /\ Len(r) = Len(q) - 1 /\ \A k \in 1 .. Len(q) - 1 : r[k] = q[k + 1]
  BY <1>5, <1>7, PathTail
<1>9. r[1] = q[2]
  BY <1>5, <1>7, <1>8
<1>10. m \in 1 .. fresh /\ at[m] = InQueue /\ DOMAIN at = 1 .. fresh /\ DOMAIN at2 = 1 .. fresh
       /\ at2[m] = FreedBy(c) /\ \A k \in 1 .. fresh : k # m => at2[k] = at[k]
  BY <1>2, <1>4, <1>5 DEF PlacesOK, Fills
<1>11. \A k \in 1 .. fresh : at[k] # FreedBy(c)
  BY <1>1, <1>2 DEF PlacesOK, LF!AtDeq
<1>12. OnlyGet(c) /\ deq'[c].step = "free" /\ deq'[c].node = m
  BY <1>1, <1>4 DEF LF!TypeOK, OnlyGet
<1>13. QueueOK(r)' /\ CarryOK(w)'
  BY <1>1, <1>2, <1>7, <1>8, <1>9 DEF QueueOK, CarryOK, Carrying, LF!At, LF!Linked
<1>14. Fills(r, at2, InQueue)
  <2>1. ASSUME NEW k \in 1 .. Len(q) - 1 PROVE r[k] \in DOMAIN at2 /\ at2[r[k]] = InQueue
    <3>1. PICK j : j = k + 1 /\ j \in 1 .. Len(q) /\ j # 1
      BY <1>5
    <3>2. r[k] = q[j] /\ q[j] # q[1]
      BY <1>5, <1>8, <3>1 DEF Path
    <3>3. q[j] \in 1 .. fresh /\ at[q[j]] = InQueue
      BY <1>2, <1>10, <3>1 DEF PlacesOK, Fills
    <3> QED
      BY <1>5, <1>10, <3>2, <3>3
  <2>2. ASSUME NEW k \in 1 .. fresh, at2[k] = InQueue PROVE \E i \in 1 .. Len(q) - 1 : r[i] = k
    <3>1. k # m /\ at[k] = InQueue
      BY <1>10, <2>2, PlacesDiffer
    <3>2. PICK j \in 1 .. Len(q) : q[j] = k
      BY <1>2, <1>10, <3>1 DEF PlacesOK, Fills
    <3>3. j # 1
      BY <1>5, <3>1, <3>2
    <3>4. PICK i : i = j - 1 /\ i \in 1 .. Len(q) - 1 /\ i + 1 = j
      BY <1>5, <3>3
    <3>5. r[i] = q[j]
      BY <1>8, <3>4
    <3> QED
      BY <3>2, <3>4, <3>5
  <2> QED
    BY <1>8, <1>10, <2>1, <2>2 DEF Fills
<1>15. PlacesOK(r, w, at2)'
  <2>1. at2 \in [1 .. fresh -> NodePlaces]
    BY <1>2, <1>4, <1>10, PlacesDiffer DEF PlacesOK
  <2>2. Fills(pool, at2, InPool)
    BY <1>2, <1>10, PlacesDiffer, FillsKeeps DEF PlacesOK
  <2>3. ASSUME NEW u \in Producer PROVE Fills(w[u], at2, Of(u))
    BY <1>2, PlacesDiffer, <1>10, FillsKeeps DEF PlacesOK
  <2>4. ASSUME NEW d \in Consumer, LF!AtDeq(d, "free")' PROVE deq'[d].node \in 1 .. fresh /\ at2[deq'[d].node] = FreedBy(d)
    BY <1>10, <1>12, <2>4, <1>2, PlacesDiffer DEF OnlyGet, LF!AtDeq, PlacesOK
  <2>5. ASSUME NEW d \in Consumer, NEW k \in 1 .. fresh, at2[k] = FreedBy(d)
        PROVE  LF!AtDeq(d, "free")' /\ deq'[d].node = k
    BY <1>10, <2>5, PlacesDiffer, <1>12, <1>2, <1>11 DEF LF!AtDeq, PlacesOK, OnlyGet
  <2> QED
    BY <1>1, <1>14, <2>1, <2>2, <2>3, <2>4, <2>5 DEF PlacesOK
<1>16. PoolOK' /\ EndsOK(at2)'
  BY <1>3, <1>4, <1>1, <1>2, <1>10 DEF EndsOK, PoolOK
<1>17. TailOK(at2)'
  BY <1>1, <1>2, <1>3, <1>4, <1>10 DEF TailOK
<1>18. QueueKept(at) /\ fresh' \in Nat /\ fresh <= fresh' /\ HeadStep /\ TailStep
       /\ data' \in [LF!Node -> LF!Value \cup {NoValue}]
  BY <1>1 DEF QueueKept, LF!TypeOK, LF!Node, HeadStep, TailStep
<1>19. ASSUME NEW u \in Producer PROVE PutOK(u, at2, older)'
  <2>1. enq'[u] = enq[u] /\ PutOK(u, at, older)
    BY <1>1, <1>2
  <2>2. enq[u].step \in {"next", "link", "help"} =>
            \A v \in Producer : at2[enq[u].node] = Of(v) => <<u, v>> \in older
    BY <1>10, <2>1, PlacesDiffer DEF PutOK
  <2>3. Carrying(u) => data'[enq[u].new] = data[enq[u].new]
    BY <1>1
  <2> QED
    BY <1>2, <1>18, <2>1, <2>2, <2>3, KeepPut
<1>20. SeenOK(r)' /\ \A d \in Consumer : d # c => GetOK(d)'
  BY <1>13, <1>18, OthersKeep, <1>12 DEF OnlyGet
<1>21. GetOK(c)'
  BY <1>12 DEF GetOK
<1>22. Safe(r, w, at2, older)'
  BY <1>2, <1>13, <1>15, <1>16, <1>17, <1>19, <1>20, <1>21 DEF Safe, OlderOK
<1>23. q \in Seq(LF!Node)
  BY <1>5 DEF Path
<1> QED
  BY <1>3, <1>7, <1>8, <1>22

(* Head has moved since: start again.                                      *)
LEMMA Dequeue_TakeFailSafe ==
    ASSUME LF!TypeOK, LF!Sees, NEW q, NEW w, NEW at, NEW older, Safe(q, w, at, older),
           NEW c \in Consumer, LF!Dequeue_Take(c), ~LF!Same(head, deq[c])
    PROVE  Safe(q, w, at, older)'
  BY ReadsSafe DEF LF!Dequeue_Take, LF!nodeVars, LF!AtDeq, LF!Swing, LF!Go, LF!TypeOK, OnlyGet, GetOK, Reads

(* What a link does: a node that ends its chain leads to the new one.      *)
LEMMA Links ==
    ASSUME LF!TypeOK, NEW q, NEW w, NEW at, NEW older, Safe(q, w, at, older),
           NEW p \in Producer, LF!Enqueue_Link(p), next[enq[p].node] = LF!null
    PROVE  /\ UNCHANGED <<data, pool, fresh, head, tail, deq>> /\ OnlyPut(p)
           /\ enq[p].step = "link" /\ enq'[p].step = "swing"
           /\ enq'[p].new = enq[p].new /\ enq'[p].node = enq[p].node
           /\ enq'[p].index = enq[p].index /\ enq'[p].n = enq[p].n
           /\ Carrying(p) /\ ~Carrying(p)' /\ Path(next, w[p]) /\ w[p][1] = enq[p].new
           /\ enq[p].new \in LF!Node /\ enq[p].new # LF!null
           /\ \A m \in LF!Node : next'[m] = IF m = enq[p].node THEN w[p][1] ELSE next[m]
           /\ enq[p].node \in 1 .. fresh /\ enq[p].node \in LF!Node
           /\ at[enq[p].node] # InPool /\ \A c \in Consumer : at[enq[p].node] # FreedBy(c)
           /\ \/ at[enq[p].node] = InQueue
              \/ \E u \in Producer \ {p} : at[enq[p].node] = Of(u) /\ <<p, u>> \in older
<1>1. /\ UNCHANGED <<data, pool, fresh, head, tail, deq>> /\ enq[p].step = "link"
      /\ next' = [next EXCEPT ![enq[p].node] = enq[p].new] /\ enq' = [enq EXCEPT ![p].step = "swing"]
  BY DEF LF!Enqueue_Link, LF!At
<1>2. /\ CarryOK(w) /\ PlacesOK(q, w, at) /\ EndsOK(at) /\ OlderOK(older) /\ PutOK(p, at, older)
  BY DEF Safe
<1>3. OnlyPut(p) /\ enq'[p] = [enq[p] EXCEPT !.step = "swing"] /\ enq[p] \in [step : LF!EnqStep, n : 0 .. MaxPut,
           new : LF!Node \cup {LF!null}, index : Nat, node : LF!Node \cup {LF!null}, next : LF!Node \cup {LF!null}]
  BY <1>1 DEF LF!TypeOK, OnlyPut
<1>4. /\ enq'[p].step = "swing" /\ enq'[p].new = enq[p].new /\ enq'[p].node = enq[p].node
      /\ enq'[p].index = enq[p].index /\ enq'[p].n = enq[p].n
  BY <1>3
<1>5. Carrying(p) /\ ~Carrying(p)'
  BY <1>1, <1>4 DEF Carrying, LF!At, LF!Linked
<1>6. Path(next, w[p]) /\ w[p][1] = enq[p].new
  BY <1>2, <1>5 DEF CarryOK
<1>7. enq[p].new \in LF!Node /\ enq[p].new # LF!null
  <2>1. Len(w[p]) \in Nat /\ Len(w[p]) > 0
    BY <1>6 DEF Path
  <2>2. 1 \in 1 .. Len(w[p])
    BY <2>1
  <2> QED
    BY <1>6, <2>2, PathLength
<1>8. enq[p].node \in 1 .. fresh /\ enq[p].node \in LF!Node
  BY <1>1, <1>2, LockFreeQueueAssumption DEF PutOK, LF!TypeOK, LF!Node
<1>9. \A m \in LF!Node : next'[m] = IF m = enq[p].node THEN w[p][1] ELSE next[m]
  BY <1>1, <1>6, <1>8 DEF LF!TypeOK
<1>10. at[enq[p].node] # InPool /\ \A c \in Consumer : at[enq[p].node] # FreedBy(c)
  BY <1>2, <1>8 DEF EndsOK
<1>11. \A u \in Producer : at[enq[p].node] = Of(u) => <<p, u>> \in older
  BY <1>1, <1>2 DEF PutOK
<1>12. at[enq[p].node] \in NodePlaces
  BY <1>2, <1>8 DEF PlacesOK
<1>13. \/ at[enq[p].node] = InQueue
       \/ \E u \in Producer \ {p} : at[enq[p].node] = Of(u) /\ <<p, u>> \in older
  BY <1>2, <1>10, <1>11, <1>12 DEF NodePlaces, OlderOK
<1> QED
  BY <1>1, <1>3, <1>4, <1>5, <1>6, <1>7, <1>8, <1>9, <1>10, <1>13

(* Its nodes go where the other's are.                                     *)
NodesJoined(at, p, x) == [m \in DOMAIN at |-> IF at[m] = Of(p) THEN x ELSE at[m]]

(* The chain the node ended goes on with the new one.                      *)
LEMMA LinkPath ==
    ASSUME LF!TypeOK, NEW q, NEW w, NEW at, NEW older, Safe(q, w, at, older),
           NEW p \in Producer, LF!Enqueue_Link(p), next[enq[p].node] = LF!null,
           NEW s, NEW x, Path(next, s), Fills(s, at, x), at[enq[p].node] = x, x # Of(p)
    PROVE  /\ Path(next', s \o w[p]) /\ (s \o w[p])[1] = s[1]
           /\ Fills(s \o w[p], NodesJoined(at, p, x), x)
<1>1. /\ Path(next, w[p]) /\ enq[p].node \in 1 .. fresh
      /\ \A m \in LF!Node : next'[m] = IF m = enq[p].node THEN w[p][1] ELSE next[m]
  BY Links
<1>2. PlacesOK(q, w, at) /\ DOMAIN at = 1 .. fresh
  BY DEF Safe, PlacesOK
<1>3. PICK k \in 1 .. Len(s) : s[k] = enq[p].node
  BY <1>1, <1>2 DEF Fills
<1>4. k = Len(s)
  BY <1>3, PathStep
<1>5. \A m \in LF!Node : next'[m] = IF m = s[Len(s)] THEN w[p][1] ELSE next[m]
  BY <1>1, <1>3, <1>4
<1>6. Fills(w[p], at, Of(p))
  BY <1>2 DEF PlacesOK
<1>7. \A i \in 1 .. Len(s), j \in 1 .. Len(w[p]) : s[i] # w[p][j]
  BY <1>6 DEF Fills
<1>8. PICK t : t = w[p] /\ Path(next, t)
  BY <1>1
<1>9. Path(next', s \o t) /\ \A i \in 1 .. Len(s) + Len(t) : (s \o t)[i] = IF i <= Len(s) THEN s[i] ELSE t[i - Len(s)]
  BY <1>5, <1>7, <1>8, PathJoin
<1>10. Len(s) \in Nat /\ Len(s) > 0 /\ Len(t) \in Nat /\ s \in Seq(LF!Node) /\ t \in Seq(LF!Node)
  BY <1>8 DEF Path
<1>11. (s \o t)[1] = s[1]
  BY <1>10, <1>9
<1>12. Fills(s \o t, NodesJoined(at, p, x), x)
  BY <1>6, <1>8, <1>10, FillsJoin DEF NodesJoined
<1> QED
  BY <1>8, <1>9, <1>11, <1>12

(* The others stay as they were.                                           *)
LEMMA LinkKeepsPath ==
    ASSUME LF!TypeOK, NEW q, NEW w, NEW at, NEW older, Safe(q, w, at, older),
           NEW p \in Producer, LF!Enqueue_Link(p), next[enq[p].node] = LF!null,
           NEW s, NEW z, Path(next, s), Fills(s, at, z), at[enq[p].node] # z
    PROVE  Path(next', s)
  BY Links, PathLength, PathKeeps DEF Fills

(* All but the queue and what producers carry, after a link.               *)
LEMMA LinkKeeps ==
    ASSUME LF!TypeOK, NEW q, NEW w, NEW at, NEW older, Safe(q, w, at, older),
           NEW p \in Producer, LF!Enqueue_Link(p), next[enq[p].node] = LF!null,
           NEW at2, at2 = NodesJoined(at, p, at[enq[p].node])
    PROVE  /\ at2 \in [1 .. fresh -> NodePlaces] /\ Fills(pool, at2, InPool)
           /\ \A c \in Consumer : LF!AtDeq(c, "free") =>
                  deq[c].node \in 1 .. fresh /\ at2[deq[c].node] = FreedBy(c)
           /\ \A c \in Consumer, m \in 1 .. fresh : at2[m] = FreedBy(c) =>
                  LF!AtDeq(c, "free") /\ deq[c].node = m
           /\ EndsOK(at2)' /\ TailOK(at2)'
           /\ \A u \in Producer : PutOK(u, at2, older)'
           /\ QueueKept(at)
           /\ \A z \in Producer :
                  z # p /\ at[enq[p].node] # Of(z) => Fills(w[z], at2, Of(z))
           /\ Fills(<<>>, at2, Of(p))
           /\ at[enq[p].node] # InQueue => Fills(q, at2, InQueue)
<1>1. /\ UNCHANGED <<data, pool, fresh, head, tail, deq>> /\ OnlyPut(p)
      /\ enq[p].step = "link" /\ enq'[p].step = "swing"
      /\ enq'[p].new = enq[p].new /\ enq'[p].node = enq[p].node
      /\ enq'[p].index = enq[p].index /\ enq'[p].n = enq[p].n
      /\ Carrying(p) /\ ~Carrying(p)' /\ w[p][1] = enq[p].new
      /\ enq[p].new \in LF!Node /\ enq[p].new # LF!null
  BY Links
<1>2. PICK b : b = enq[p].node /\ b \in 1 .. fresh /\ b \in LF!Node
  BY Links
<1>3. PICK x : x = at[b]
  OBVIOUS
<1>4. /\ x # InPool /\ \A c \in Consumer : x # FreedBy(c)
      /\ x = InQueue \/ \E u \in Producer \ {p} : x = Of(u) /\ <<p, u>> \in older
      /\ \A m \in LF!Node : next'[m] = IF m = b THEN enq[p].new ELSE next[m]
  BY <1>1, <1>2, <1>3, Links
<1>5. x # Of(p) /\ x \in NodePlaces
  <2>1. x = InQueue \/ \E u \in Producer \ {p} : x = Of(u)
    BY <1>4
  <2>2. CASE x = InQueue
    BY <2>2, PlacesDiffer
  <2>3. CASE \E u \in Producer \ {p} : x = Of(u)
    BY <2>3, PlacesDiffer
  <2> QED
    BY <2>1, <2>2, <2>3
<1>6. /\ PlacesOK(q, w, at) /\ EndsOK(at) /\ OlderOK(older) /\ TailOK(at)
      /\ \A u \in Producer : PutOK(u, at, older)
      /\ DOMAIN at = 1 .. fresh /\ 1 .. fresh \subseteq LF!Node
  BY LockFreeQueueAssumption DEF LF!TypeOK, LF!Node, Safe, PlacesOK
<1>7. DOMAIN at2 = 1 .. fresh /\ \A m \in 1 .. fresh : at2[m] = IF at[m] = Of(p) THEN x ELSE at[m]
  BY <1>2, <1>3, <1>6 DEF NodesJoined
<1>8. at2 \in [1 .. fresh -> NodePlaces]
  BY <1>2, <1>3, <1>6, <1>5 DEF NodesJoined, PlacesOK
<1>9. Fills(pool, at2, InPool)
  <2>1. Fills(pool, at, InPool) /\ InPool # Of(p) /\ InPool # x
    BY <1>4, <1>6, PlacesDiffer DEF PlacesOK
  <2> QED
    BY <1>6, <1>7, <2>1, FillsKeeps
<1>10. \A c \in Consumer : LF!AtDeq(c, "free") =>
           deq[c].node \in 1 .. fresh /\ at2[deq[c].node] = FreedBy(c)
  BY <1>6, <1>7, PlacesDiffer DEF PlacesOK
<1>11. \A c \in Consumer, m \in 1 .. fresh : at2[m] = FreedBy(c) =>
           LF!AtDeq(c, "free") /\ deq[c].node = m
  BY <1>4, <1>6, <1>7 DEF PlacesOK
<1>12. EndsOK(at2)'
  BY <1>1, <1>4, <1>7, <1>3, <1>6 DEF EndsOK
<1>13. TailOK(at2)'
  BY <1>1, <1>6, <1>7, PlacesDiffer DEF TailOK
<1>14. QueueKept(at)
  BY <1>2, <1>1, <1>4, <1>6 DEF QueueKept
<1>15. ASSUME NEW u \in Producer, u # p PROVE PutOK(u, at2, older)'
  <2>1. enq'[u] = enq[u] /\ PutOK(u, at, older)
    BY <1>1, <1>6, <1>15 DEF OnlyPut
  <2>2. ASSUME enq[u].step \in {"next", "link", "help"}, NEW v \in Producer, at2[enq[u].node] = Of(v)
        PROVE  <<u, v>> \in older
    <3>1. enq[u].node \in 1 .. fresh
      BY <2>1, <2>2 DEF PutOK
    <3>2. CASE at[enq[u].node] = Of(p)
      <4>1. x = Of(v) /\ <<u, p>> \in older
        BY <1>7, <2>1, <2>2, <3>1, <3>2 DEF PutOK
      <4>2. <<p, v>> \in older
        BY <1>4, <4>1, PlacesDiffer
      <4> QED
        BY <1>6, <4>1, <4>2 DEF OlderOK
    <3>3. CASE at[enq[u].node] # Of(p)
      BY <1>7, <2>1, <2>2, <3>1, <3>3 DEF PutOK
    <3> QED
      BY <3>2, <3>3
  <2>3. Carrying(u) => data'[enq[u].new] = data[enq[u].new]
    BY <1>1
  <2>4. TailStep /\ fresh' \in Nat /\ fresh <= fresh'
    BY <1>1 DEF TailStep, LF!TypeOK, LF!Node
  <2> QED
    BY <1>6, <1>14, <2>1, <2>2, <2>3, <2>4, KeepPut
<1>16. PutOK(p, at2, older)'
  BY <1>1, <1>6, <1>2, <1>4 DEF PutOK
<1>17. ASSUME NEW z \in Producer, z # p, x # Of(z) PROVE Fills(w[z], at2, Of(z))
  <2>1. Fills(w[z], at, Of(z)) /\ Of(z) # Of(p)
    BY <1>6, <1>17, PlacesDiffer DEF PlacesOK
  <2> QED
    BY <1>6, <1>7, <1>17, <2>1, FillsKeeps
<1>18. Fills(<<>>, at2, Of(p))
  BY <1>5, <1>7 DEF Fills
<1>19. x # InQueue => Fills(q, at2, InQueue)
  <2>1. Fills(q, at, InQueue) /\ InQueue # Of(p)
    BY <1>6, PlacesDiffer DEF PlacesOK
  <2> QED
    BY <1>6, <1>7, <2>1, FillsKeeps
<1> QED
  BY <1>2, <1>3, <1>8, <1>9, <1>10, <1>11, <1>12, <1>13, <1>14, <1>15, <1>16, <1>17, <1>18, <1>19

(* The new nodes go to the end of the queue.                               *)
LEMMA Enqueue_LinkQueueSafe ==
    ASSUME LF!TypeOK, LF!Sees, NEW q, NEW w, NEW at, NEW older, Safe(q, w, at, older),
           NEW p \in Producer, LF!Enqueue_Link(p), next[enq[p].node] = LF!null, at[enq[p].node] = InQueue
    PROVE  /\ \E at2 : Safe(q \o w[p], [w EXCEPT ![p] = <<>>], at2, older)'
           /\ Path(next, w[p]) /\ w[p][1] = enq[p].new /\ Carrying(p)
<1>1. /\ UNCHANGED <<data, pool, fresh, head, tail, deq>> /\ OnlyPut(p) /\ ~Carrying(p)'
      /\ Path(next, w[p]) /\ w[p][1] = enq[p].new /\ Carrying(p)
  BY Links
<1>2. /\ QueueOK(q) /\ CarryOK(w) /\ PlacesOK(q, w, at) /\ PoolOK /\ OlderOK(older)
      /\ \A c \in Consumer : GetOK(c)
  BY DEF Safe
<1>3. PICK at2 : at2 = NodesJoined(at, p, at[enq[p].node])
  OBVIOUS
<1>4. /\ at2 \in [1 .. fresh -> NodePlaces] /\ Fills(pool, at2, InPool)
      /\ \A c \in Consumer : LF!AtDeq(c, "free") =>
             deq[c].node \in 1 .. fresh /\ at2[deq[c].node] = FreedBy(c)
      /\ \A c \in Consumer, m \in 1 .. fresh : at2[m] = FreedBy(c) =>
             LF!AtDeq(c, "free") /\ deq[c].node = m
      /\ EndsOK(at2)' /\ TailOK(at2)'
      /\ \A u \in Producer : PutOK(u, at2, older)'
      /\ QueueKept(at)
      /\ \A z \in Producer : z # p /\ at[enq[p].node] # Of(z) => Fills(w[z], at2, Of(z))
      /\ Fills(<<>>, at2, Of(p))
  BY <1>3, LinkKeeps
<1>5. PICK q2, w2 : q2 = q \o w[p] /\ w2 = [w EXCEPT ![p] = <<>>]
  OBVIOUS
<1>6. Path(next', q2) /\ q2[1] = q[1] /\ Fills(q2, at2, InQueue)
  <2>1. Path(next, q) /\ Fills(q, at, InQueue) /\ InQueue # Of(p)
    BY <1>2, PlacesDiffer DEF QueueOK, PlacesOK
  <2>2. PICK x : x = InQueue /\ at2 = NodesJoined(at, p, x) /\ at[enq[p].node] = x /\ Fills(q, at, x) /\ x # Of(p)
    BY <1>3, <2>1
  <2>3. Path(next', q \o w[p]) /\ (q \o w[p])[1] = q[1] /\ Fills(q \o w[p], NodesJoined(at, p, x), x)
    BY <2>1, <2>2, LinkPath
  <2> QED
    BY <1>5, <2>2, <2>3
<1>7. DOMAIN w = Producer /\ DOMAIN w2 = Producer /\ w2[p] = <<>> /\ \A z \in Producer : z # p => w2[z] = w[z]
  BY <1>2, <1>5 DEF CarryOK
<1>8. QueueOK(q2)'
  BY <1>1, <1>2, <1>6 DEF QueueOK
<1>9. ASSUME NEW z \in Producer, z # p
      PROVE  IF Carrying(z)' THEN Path(next', w2[z]) /\ w2[z][1] = enq'[z].new ELSE w2[z] = <<>>
  <2>1. Carrying(z)' = Carrying(z) /\ enq'[z] = enq[z] /\ w2[z] = w[z]
    BY <1>1, <1>7, <1>9 DEF OnlyPut, Carrying, LF!At, LF!Linked
  <2>2. Carrying(z) => Path(next', w[z])
    BY <1>2, PlacesDiffer, LinkKeepsPath DEF CarryOK, PlacesOK
  <2> QED
    BY <1>2, <2>1, <2>2 DEF CarryOK
<1>10. CarryOK(w2)'
  BY <1>1, <1>7, <1>9 DEF CarryOK
<1>11. \A z \in Producer : Fills(w2[z], at2, Of(z))
  BY <1>4, <1>7, PlacesDiffer
<1>12. PlacesOK(q2, w2, at2)'
  BY <1>1, <1>4, <1>6, <1>11 DEF PlacesOK, LF!AtDeq
<1>13. SeenOK(q2)' /\ \A d \in Consumer : GetOK(d)'
  <2>1. TailStep /\ HeadStep /\ head' = head /\ fresh' \in Nat /\ fresh <= fresh'
        /\ data' \in [LF!Node -> LF!Value \cup {NoValue}] /\ \A d \in Consumer : deq'[d] = deq[d]
    BY <1>1 DEF TailStep, HeadStep, LF!TypeOK, LF!Node
  <2>2. SeenOK(q2)' /\ \A c, d \in Consumer : (head' # head => c # d) /\ deq'[d] = deq[d] => GetOK(d)'
    BY <1>4, <1>8, <2>1, OthersKeep
  <2> QED
    BY <2>1, <2>2
<1>14. PoolOK'
  BY <1>1, <1>2 DEF PoolOK
<1>15. Safe(q2, w2, at2, older)'
  BY <1>2, <1>4, <1>8, <1>10, <1>12, <1>13, <1>14 DEF Safe, OlderOK
<1> QED
  BY <1>1, <1>5, <1>15

(* They go behind the node that another producer has not linked yet.       *)
LEMMA Enqueue_LinkOtherSafe ==
    ASSUME LF!TypeOK, LF!Sees, NEW q, NEW w, NEW at, NEW older, Safe(q, w, at, older),
           NEW p \in Producer, LF!Enqueue_Link(p), next[enq[p].node] = LF!null,
           NEW o \in Producer, o # p, at[enq[p].node] = Of(o)
    PROVE  /\ \E at2 : Safe(q, [w EXCEPT ![p] = <<>>, ![o] = w[o] \o w[p]], at2, older)'
           /\ Path(next, w[p]) /\ w[p][1] = enq[p].new /\ Carrying(p) /\ Carrying(o)
           /\ Path(next, w[o]) /\ Carrying(o)' /\ Path(next', w[o] \o w[p])
<1>1. /\ UNCHANGED <<data, pool, fresh, head, tail, deq>> /\ OnlyPut(p) /\ ~Carrying(p)'
      /\ Path(next, w[p]) /\ w[p][1] = enq[p].new /\ Carrying(p) /\ enq[p].node \in 1 .. fresh
  BY Links
<1>2. /\ QueueOK(q) /\ CarryOK(w) /\ PlacesOK(q, w, at) /\ PoolOK /\ OlderOK(older)
      /\ \A c \in Consumer : GetOK(c)
  BY DEF Safe
<1>3. PICK at2 : at2 = NodesJoined(at, p, at[enq[p].node])
  OBVIOUS
<1>4. /\ at2 \in [1 .. fresh -> NodePlaces] /\ Fills(pool, at2, InPool)
      /\ \A c \in Consumer : LF!AtDeq(c, "free") =>
             deq[c].node \in 1 .. fresh /\ at2[deq[c].node] = FreedBy(c)
      /\ \A c \in Consumer, m \in 1 .. fresh : at2[m] = FreedBy(c) =>
             LF!AtDeq(c, "free") /\ deq[c].node = m
      /\ EndsOK(at2)' /\ TailOK(at2)'
      /\ \A u \in Producer : PutOK(u, at2, older)'
      /\ QueueKept(at)
      /\ \A z \in Producer : z # p /\ at[enq[p].node] # Of(z) => Fills(w[z], at2, Of(z))
      /\ Fills(<<>>, at2, Of(p))
      /\ at[enq[p].node] # InQueue => Fills(q, at2, InQueue)
  BY <1>3, LinkKeeps
<1>5. PICK w2 : w2 = [w EXCEPT ![p] = <<>>, ![o] = w[o] \o w[p]]
  OBVIOUS
<1>6. Carrying(o) /\ Path(next, w[o]) /\ w[o][1] = enq[o].new /\ Fills(w[o], at, Of(o))
  BY <1>2, <1>1 DEF PlacesOK, Fills, CarryOK
<1>7. Path(next', w[o] \o w[p]) /\ (w[o] \o w[p])[1] = w[o][1] /\ Fills(w[o] \o w[p], at2, Of(o))
  <2>1. Of(o) # Of(p) /\ at2 = NodesJoined(at, p, Of(o))
    BY <1>3, PlacesDiffer
  <2>2. Path(next', w[o] \o w[p]) /\ (w[o] \o w[p])[1] = w[o][1] /\ Fills(w[o] \o w[p], NodesJoined(at, p, Of(o)), Of(o))
    BY <1>6, <2>1, LinkPath
  <2> QED
    BY <2>1, <2>2
<1>8. /\ DOMAIN w = Producer /\ DOMAIN w2 = Producer /\ w2[p] = <<>> /\ w2[o] = w[o] \o w[p]
      /\ \A z \in Producer : z # p /\ z # o => w2[z] = w[z]
  BY <1>2, <1>5 DEF CarryOK
<1>9. QueueOK(q)' /\ Fills(q, at2, InQueue)
  BY <1>2, PlacesDiffer, LinkKeepsPath, <1>1, <1>4 DEF QueueOK, PlacesOK
<1>10. \A z \in Producer : z # p => Carrying(z)' = Carrying(z) /\ enq'[z] = enq[z]
  BY <1>1 DEF OnlyPut, Carrying, LF!At, LF!Linked
<1>11. ASSUME NEW z \in Producer, z # p, z # o
       PROVE  IF Carrying(z)' THEN Path(next', w2[z]) /\ w2[z][1] = enq'[z].new ELSE w2[z] = <<>>
  <2>1. Carrying(z)' = Carrying(z) /\ enq'[z] = enq[z] /\ w2[z] = w[z]
    BY <1>8, <1>10, <1>11
  <2>2. Carrying(z) => Path(next', w[z])
    BY <1>2, <1>11, PlacesDiffer, LinkKeepsPath DEF CarryOK, PlacesOK
  <2> QED
    BY <1>2, <2>1, <2>2 DEF CarryOK
<1>12. CarryOK(w2)'
  BY <1>1, <1>6, <1>7, <1>8, <1>10, <1>11 DEF CarryOK
<1>13. \A z \in Producer : Fills(w2[z], at2, Of(z))
  BY <1>4, <1>8, <1>7, PlacesDiffer
<1>14. PlacesOK(q, w2, at2)'
  BY <1>1, <1>4, <1>9, <1>13 DEF PlacesOK, LF!AtDeq
<1>15. SeenOK(q)' /\ \A d \in Consumer : GetOK(d)'
  <2>1. TailStep /\ HeadStep /\ head' = head /\ fresh' \in Nat /\ fresh <= fresh'
        /\ data' \in [LF!Node -> LF!Value \cup {NoValue}] /\ \A d \in Consumer : deq'[d] = deq[d]
    BY <1>1 DEF TailStep, HeadStep, LF!TypeOK, LF!Node
  <2>2. SeenOK(q)' /\ \A c, d \in Consumer : (head' # head => c # d) /\ deq'[d] = deq[d] => GetOK(d)'
    BY <1>4, <1>9, <2>1, OthersKeep
  <2> QED
    BY <2>1, <2>2
<1>16. PoolOK'
  BY <1>1, <1>2 DEF PoolOK
<1>17. Safe(q, w2, at2, older)'
  BY <1>2, <1>4, <1>9, <1>12, <1>14, <1>15, <1>16 DEF Safe, OlderOK
<1>18. Carrying(o)'
  BY <1>6, <1>10
<1> QED
  BY <1>1, <1>5, <1>6, <1>7, <1>17, <1>18

(* The other node leads on by now: start again.                            *)
LEMMA Enqueue_LinkFailSafe ==
    ASSUME LF!TypeOK, LF!Sees, NEW q, NEW w, NEW at, NEW older, Safe(q, w, at, older),
           NEW p \in Producer, LF!Enqueue_Link(p), next[enq[p].node] # LF!null
    PROVE  Safe(q, w, at, older)'
<1>1. UNCHANGED <<next, data, pool, fresh, head, tail, deq>> /\ enq[p].step = "link"
      /\ enq' = [enq EXCEPT ![p].step = "index"]
  BY DEF LF!Enqueue_Link, LF!At
<1>2. OnlyPut(p) /\ enq'[p].step = "index" /\ enq'[p].new = enq[p].new /\ enq'[p].n = enq[p].n
  BY <1>1 DEF LF!TypeOK, OnlyPut
<1>3. Carrying(p) /\ Carrying(p)'
  BY <1>1, <1>2 DEF Carrying, LF!At, LF!Linked
<1>4. PutOK(p, at, older)'
  BY <1>1, <1>2, <1>3 DEF Safe, PutOK
<1> QED
  BY <1>1, <1>2, <1>3, <1>4, ProducerStep DEF TailStep

(* The calls of Enqueue are counted.                                       *)
LEMMA CallsIs ==
    ASSUME LF!TypeOK
    PROVE  LF!Calls \in Nat /\ \A p \in Producer : enq[p].n <= LF!Calls
<1> DEFINE S == {v \in LF!Value : v[2] <= enq[v[1]].n}
<1>1. IsFiniteSet(S) /\ Cardinality(S) \in Nat
  <2>1. IsFiniteSet(LF!Value)
    <3>1. IsFiniteSet(1 .. MaxPut) /\ IsFiniteSet(Producer)
      BY LockFreeQueueAssumption, FS_Interval
    <3> QED
      BY <3>1, FS_Product DEF LF!Value
  <2> QED
    BY <2>1, FS_Subset, FS_CardinalityType
<1>2. ASSUME NEW p \in Producer, Cardinality(S) < enq[p].n PROVE FALSE
  <2>1. PICK n : n = enq[p].n /\ n \in 0 .. MaxPut /\ n \in Nat /\ MaxPut \in Nat
    BY LockFreeQueueAssumption DEF LF!TypeOK
  <2>2. IsFiniteSet(1 .. n) /\ Cardinality(1 .. n) = n
    <3>1. 1 \in Int /\ n \in Int /\ (IF 1 > n THEN 0 ELSE n - 1 + 1) = n
      BY <1>1, <1>2, <2>1
    <3>2. IsFiniteSet(1 .. n) /\ Cardinality(1 .. n) = IF 1 > n THEN 0 ELSE n - 1 + 1
      BY <3>1, FS_Interval
    <3> QED
      BY <3>1, <3>2
  <2>3. PICK f : f = [k \in 1 .. n |-> <<p, k>>]
    OBVIOUS
  <2>4. f \in [1 .. n -> S]
    <3>1. ASSUME NEW k \in 1 .. n PROVE <<p, k>> \in S
      BY <2>1 DEF LF!Value
    <3> HIDE DEF S
    <3> QED
      BY <2>3, <3>1
  <2>5. \E i, j \in 1 .. n : i # j /\ f[i] = f[j]
    <3> HIDE DEF S
    <3> QED
      BY <1>1, <1>2, <2>1, <2>2, <2>4, FS_PigeonHole
  <2> QED
    BY <2>3, <2>5
<1>3. ASSUME NEW p \in Producer PROVE enq[p].n <= Cardinality(S)
  <2>1. enq[p].n \in Int
    BY DEF LF!TypeOK
  <2> HIDE DEF S
  <2> QED
    BY <1>1, <1>2, <2>1
<1>4. LF!Calls = Cardinality(S)
  BY SameCardinality DEF LF!Calls
<1> QED
  BY <1>1, <1>3, <1>4

LEMMA CallsRise ==
    ASSUME LF!TypeOK, NEW p \in Producer, LF!Calls < MaxPut, enq'[p].n = enq[p].n + 1,
           \A u \in Producer \ {p} : enq'[u].n = enq[u].n
    PROVE  enq[p].n + 1 \in 1 .. MaxPut /\ LF!Calls' = LF!Calls + 1
<1>1. LF!Calls \in Nat /\ enq[p].n <= LF!Calls /\ enq[p].n \in Nat /\ MaxPut \in Nat
  BY CallsIs, LockFreeQueueAssumption DEF LF!TypeOK
<1>2. PICK n : n = enq[p].n + 1 /\ n \in 1 .. MaxPut /\ n \in Nat
  BY <1>1
<1> DEFINE S == {v \in LF!Value : v[2] <= enq[v[1]].n}
           T == {v \in LF!Value : v[2] <= enq'[v[1]].n}
<1>3. IsFiniteSet(S)
  <2>1. IsFiniteSet(LF!Value)
    <3>1. IsFiniteSet(1 .. MaxPut) /\ IsFiniteSet(Producer)
      BY LockFreeQueueAssumption, FS_Interval
    <3> QED
      BY <3>1, FS_Product DEF LF!Value
  <2> QED
    BY <2>1, FS_Subset
<1>4. <<p, n>> \notin S
  BY <1>1, <1>2
<1>5. ASSUME NEW v \in LF!Value PROVE v \in T <=> v \in S \/ v = <<p, n>>
  BY <1>1, <1>2 DEF LF!Value, LF!TypeOK
<1>6. T = S \cup {<<p, n>>}
  BY <1>2, <1>5 DEF LF!Value
<1>7. LF!Calls = Cardinality(S) /\ LF!Calls' = Cardinality(T)
  BY SameCardinality DEF LF!Calls, LF!Value
<1>8. Cardinality(S \cup {<<p, n>>}) = Cardinality(S) + 1
  <2> HIDE DEF S
  <2> QED
    BY <1>3, <1>4, FS_AddElement
<1> QED
  BY <1>2, <1>6, <1>7, <1>8

(* What an Enqueue takes from the pool, or makes.                          *)
Allocated(p, m, at) ==
    /\ UNCHANGED <<head, tail, deq>> /\ OnlyPut(p)
    /\ enq[p].step = "idle" /\ enq'[p] = [LF!Put0(enq[p].n + 1) EXCEPT !.step = "index", !.new = m]
    /\ next' = [next EXCEPT ![m] = LF!null] /\ data' = [data EXCEPT ![m] = <<p, enq[p].n + 1>>]
    /\ enq[p].n + 1 \in 1 .. MaxPut
    /\ fresh' \in LF!Node /\ fresh <= fresh' /\ fresh' <= 1 + LF!Calls'
    /\ m \in 1 .. fresh' /\ (m \notin 1 .. fresh \/ at[m] = InPool)
    /\ 1 .. fresh' = 1 .. fresh \cup {m}
    /\ pool' \in Seq(LF!Node) /\ PoolOK'
    /\ \A k \in 1 .. Len(pool') : pool'[k] # m /\ \E i \in 1 .. Len(pool) : pool[i] = pool'[k]
    /\ \A i \in 1 .. Len(pool) : pool[i] # m => \E k \in 1 .. Len(pool') : pool[i] = pool'[k]

LEMMA Allocates ==
    ASSUME LF!TypeOK, fresh <= 1 + LF!Calls, NEW q, NEW w, NEW at, NEW older, Safe(q, w, at, older),
           NEW p \in Producer, LF!Enqueue(p)
    PROVE  \E m \in LF!Node : Allocated(p, m, at)
<1>1. PICK m : m = IF pool # <<>> THEN Head(pool) ELSE fresh + 1
  OBVIOUS
<1>2. /\ UNCHANGED <<head, tail, deq>> /\ enq[p].step = "idle" /\ LF!Calls < MaxPut
      /\ enq' = [enq EXCEPT ![p] = [LF!Put0(@.n + 1) EXCEPT !.step = "index", !.new = m]]
      /\ next' = [next EXCEPT ![m] = LF!null] /\ data' = [data EXCEPT ![m] = <<p, enq[p].n + 1>>]
  BY <1>1 DEF LF!Enqueue, LF!At
<1>3. IF pool # <<>> THEN pool' = Tail(pool) /\ fresh' = fresh ELSE fresh' = fresh + 1 /\ pool' = pool
  BY DEF LF!Enqueue
<1>4. OnlyPut(p) /\ enq'[p] = [LF!Put0(enq[p].n + 1) EXCEPT !.step = "index", !.new = m]
  BY <1>2 DEF OnlyPut, LF!TypeOK
<1>5. enq[p].n + 1 \in 1 .. MaxPut /\ LF!Calls' = LF!Calls + 1
  BY <1>4, <1>2, CallsRise DEF LF!Put0, OnlyPut
<1>6. fresh \in Nat /\ fresh \in 1 .. MaxPut + 1 /\ LF!Calls \in Nat /\ MaxPut \in Nat /\ LF!Node = 1 .. MaxPut + 1
  BY LockFreeQueueAssumption, CallsIs DEF LF!TypeOK, LF!Node
<1>7. Fills(pool, at, InPool) /\ PoolOK /\ DOMAIN at = 1 .. fresh
  BY DEF Safe, PlacesOK
<1>8. CASE pool # <<>>
  <2>0. pool \in Seq(LF!Node)
    BY DEF LF!TypeOK
  <2>1. PICK n : n = Len(pool) /\ n \in Nat /\ n > 0
    BY <1>8, <2>0
  <2>2. m = pool[1] /\ 1 \in 1 .. n
    BY <1>1, <1>8, <2>1
  <2>3. m \in 1 .. fresh /\ at[m] = InPool
    BY <1>7, <2>1, <2>2 DEF Fills
  <2>4. m \in LF!Node
    BY <1>6, <2>3
  <2>5. pool' \in Seq(LF!Node) /\ Len(pool') = n - 1 /\ \A k \in 1 .. n - 1 : pool'[k] = pool[k + 1]
    BY <1>3, <1>8, <2>0, <2>1
  <2>6. \A k \in 1 .. n - 1 : k + 1 \in 1 .. n /\ k + 1 # 1
    BY <2>1
  <2>7. PoolOK'
    BY <2>5, <1>7, <2>1, <2>6 DEF PoolOK
  <2>8. \A k \in 1 .. n - 1 : pool'[k] # m /\ \E i \in 1 .. n : pool[i] = pool'[k]
    BY <2>5, <2>6, <1>7, <2>1, <2>2 DEF PoolOK
  <2>9. \A i \in 1 .. n : pool[i] # m => \E k \in 1 .. n - 1 : pool[i] = pool'[k]
    <3> SUFFICES ASSUME NEW i \in 1 .. n, pool[i] # m PROVE \E k \in 1 .. n - 1 : pool[i] = pool'[k]
      OBVIOUS
    <3>1. i # 1
      BY <2>2
    <3>2. PICK k : k = i - 1 /\ k \in 1 .. n - 1 /\ i = k + 1
      BY <2>1, <3>1
    <3> QED
      BY <2>5, <3>2
  <2>10. fresh' = fresh /\ fresh' <= 1 + LF!Calls' /\ fresh' \in LF!Node
    BY <1>3, <1>5, <1>6, <1>8
  <2>11. 1 .. fresh' = 1 .. fresh \cup {m} /\ m \in 1 .. fresh' /\ fresh <= fresh'
    BY <1>6, <2>3, <2>10
  <2>12. /\ \A k \in 1 .. Len(pool') : pool'[k] # m /\ \E i \in 1 .. Len(pool) : pool[i] = pool'[k]
         /\ \A i \in 1 .. Len(pool) : pool[i] # m => \E k \in 1 .. Len(pool') : pool[i] = pool'[k]
    BY <2>1, <2>5, <2>8, <2>9
  <2> QED
    BY <1>2, <1>4, <1>5, <2>3, <2>4, <2>5, <2>7, <2>10, <2>11, <2>12 DEF Allocated
<1>9. CASE pool = <<>>
  <2>1. m = fresh + 1 /\ fresh' = fresh + 1 /\ pool' = <<>> /\ Len(pool) = 0 /\ Len(pool') = 0
    BY <1>1, <1>3, <1>9
  <2>2. m \in LF!Node /\ fresh' \in LF!Node /\ fresh <= fresh' /\ fresh' <= 1 + LF!Calls'
        /\ m \notin 1 .. fresh /\ m \in 1 .. fresh' /\ 1 .. fresh' = 1 .. fresh \cup {m}
    BY <1>2, <1>5, <1>6, <2>1
  <2>3. pool' \in Seq(LF!Node) /\ PoolOK'
    BY <2>1 DEF PoolOK
  <2>4. /\ \A k \in 1 .. Len(pool') : pool'[k] # m /\ \E i \in 1 .. Len(pool) : pool[i] = pool'[k]
        /\ \A i \in 1 .. Len(pool) : pool[i] # m => \E k \in 1 .. Len(pool') : pool[i] = pool'[k]
    BY <2>1
  <2> QED
    BY <1>2, <1>4, <1>5, <2>2, <2>3, <2>4 DEF Allocated
<1> QED
  BY <1>8, <1>9

(* The new node is with p, and younger than those of the others.           *)
LEMMA EnqueueSafe ==
    ASSUME LF!TypeOK, LF!Sees, fresh <= 1 + LF!Calls, NEW q, NEW w, NEW at, NEW older, Safe(q, w, at, older),
           NEW p \in Producer, LF!Enqueue(p)
    PROVE  \E m \in LF!Node :
           /\ \E at2, older2 : Safe(q, [w EXCEPT ![p] = <<m>>], at2, older2)'
           /\ fresh' <= 1 + LF!Calls' /\ fresh' \in LF!Node /\ pool' \in Seq(LF!Node)
           /\ next' \in [LF!Node -> LF!Node \cup {LF!null}] /\ data' \in [LF!Node -> LF!Value \cup {NoValue}]
           /\ \A k \in 1 .. Len(q) : data'[q[k]] = data[q[k]]
           /\ \A u \in Producer : \A k \in 1 .. Len(w[u]) : data'[w[u][k]] = data[w[u][k]]
           /\ OnlyPut(p) /\ enq[p].step = "idle" /\ enq[p].n + 1 \in 1 .. MaxPut
           /\ enq'[p] = [LF!Put0(enq[p].n + 1) EXCEPT !.step = "index", !.new = m]
           /\ UNCHANGED <<head, tail, deq>>
<1>0. PICK m \in LF!Node : Allocated(p, m, at)
  BY Allocates
<1>1. /\ UNCHANGED <<head, tail, deq>> /\ OnlyPut(p)
      /\ enq[p].step = "idle" /\ enq'[p] = [LF!Put0(enq[p].n + 1) EXCEPT !.step = "index", !.new = m]
      /\ next' = [next EXCEPT ![m] = LF!null] /\ data' = [data EXCEPT ![m] = <<p, enq[p].n + 1>>]
      /\ enq[p].n + 1 \in 1 .. MaxPut
      /\ fresh' \in LF!Node /\ fresh <= fresh' /\ fresh' <= 1 + LF!Calls'
      /\ m \in 1 .. fresh' /\ (m \notin 1 .. fresh \/ at[m] = InPool)
      /\ 1 .. fresh' = 1 .. fresh \cup {m}
      /\ pool' \in Seq(LF!Node) /\ PoolOK'
      /\ \A k \in 1 .. Len(pool') : pool'[k] # m /\ \E i \in 1 .. Len(pool) : pool[i] = pool'[k]
      /\ \A i \in 1 .. Len(pool) : pool[i] # m => \E k \in 1 .. Len(pool') : pool[i] = pool'[k]
  BY <1>0 DEF Allocated
<1>2. /\ QueueOK(q) /\ CarryOK(w) /\ PlacesOK(q, w, at) /\ TailOK(at) /\ PoolOK /\ EndsOK(at) /\ OlderOK(older)
      /\ \A u \in Producer : PutOK(u, at, older)
  BY DEF Safe
<1>3. PICK n : n = enq[p].n + 1 /\ n \in 1 .. MaxPut
  BY <1>1
<1>4. enq'[p].step = "index" /\ enq'[p].new = m /\ enq'[p].n = n
  BY <1>1, <1>3 DEF LF!Put0
<1>5. /\ next' \in [LF!Node -> LF!Node \cup {LF!null}] /\ data' \in [LF!Node -> LF!Value \cup {NoValue}]
      /\ next'[m] = LF!null /\ data'[m] = <<p, n>>
      /\ \A k \in LF!Node : k # m => next'[k] = next[k] /\ data'[k] = data[k]
  BY <1>3, <1>1 DEF LF!Value, LF!TypeOK
<1>6. DOMAIN at = 1 .. fresh /\ 1 .. fresh \subseteq LF!Node
  BY LockFreeQueueAssumption, <1>2 DEF LF!TypeOK, LF!Node, PlacesOK
<1>7. PICK at2 : at2 = [k \in 1 .. fresh' |-> IF k = m THEN Of(p) ELSE at[k]]
  OBVIOUS
<1>8. /\ DOMAIN at2 = 1 .. fresh' /\ at2[m] = Of(p)
      /\ \A k \in 1 .. fresh : k # m => k \in 1 .. fresh' /\ at2[k] = at[k]
      /\ \A k \in 1 .. fresh' : k # m => k \in 1 .. fresh /\ at2[k] = at[k]
  BY <1>1, <1>7
<1>9. at2 \in [1 .. fresh' -> NodePlaces]
  BY <1>1, <1>2, PlacesDiffer, <1>7 DEF PlacesOK
<1>10. PICK older2 : older2 = {pr \in Producer \X Producer : pr[1] # p /\ (pr[2] = p \/ pr \in older)}
  OBVIOUS
<1>11. \A u, v \in Producer : <<u, v>> \in older2 <=> u # p /\ (v = p \/ <<u, v>> \in older)
  BY <1>10
<1>12. OlderOK(older2)
  BY <1>2, <1>11 DEF OlderOK
<1>13. ASSUME NEW s, NEW z, Path(next, s), Fills(s, at, z), z # InPool
       PROVE  Path(next', s) /\ \A k \in 1 .. Len(s) : s[k] # m /\ s[k] \in LF!Node /\ data'[s[k]] = data[s[k]]
  <2>1. \A k \in 1 .. Len(s) : s[k] # m /\ s[k] \in LF!Node
    BY <1>1, <1>6, <1>13 DEF Fills
  <2>2. \A k \in 1 .. Len(s) : next'[s[k]] = next[s[k]]
    BY <1>5, <2>1
  <2>3. Path(next', s)
    BY <1>13, <2>2, PathKeeps
  <2> QED
    BY <1>5, <2>1, <2>3
<1>14. ASSUME NEW s, NEW z, Fills(s, at, z), z # InPool, z # Of(p)
       PROVE  Fills(s, at2, z)
  BY <1>1, <1>6, <1>14, <1>8 DEF Fills
<1>15. Path(next, q) /\ Fills(q, at, InQueue) /\ InQueue # InPool /\ InQueue # Of(p)
  BY <1>2, PlacesDiffer DEF QueueOK, PlacesOK
<1>16. QueueOK(q)' /\ Fills(q, at2, InQueue)
  BY <1>13, <1>14, <1>15, <1>1, <1>2 DEF QueueOK
<1>17. PICK w2 : w2 = [w EXCEPT ![p] = <<m>>]
  OBVIOUS
<1>18. DOMAIN w = Producer /\ DOMAIN w2 = Producer /\ w2[p] = <<m>> /\ \A z \in Producer : z # p => w2[z] = w[z]
  BY <1>2, <1>17 DEF CarryOK
<1>19. ~Carrying(p) /\ Carrying(p)' /\ w[p] = <<>>
  BY <1>1, <1>2, <1>4 DEF Carrying, LF!At, LF!Linked, CarryOK
<1>20. \A z \in Producer : z # p => Carrying(z)' = Carrying(z) /\ enq'[z] = enq[z]
  BY <1>1 DEF OnlyPut, Carrying, LF!At, LF!Linked
<1>21. \A z \in Producer : Carrying(z) =>
           Path(next', w[z]) /\ \A k \in 1 .. Len(w[z]) : w[z][k] # m /\ w[z][k] \in LF!Node /\ data'[w[z][k]] = data[w[z][k]]
  BY <1>2, PlacesDiffer, <1>13 DEF CarryOK, PlacesOK
<1>22. CarryOK(w2)'
  <2>1. Path(next', <<m>>) /\ <<m>>[1] = m
    BY <1>5, PathOne
  <2>2. ASSUME NEW z \in Producer
        PROVE  IF Carrying(z)' THEN Path(next', w2[z]) /\ w2[z][1] = enq'[z].new ELSE w2[z] = <<>>
    BY <1>4, <1>18, <1>19, <2>1, <1>20, <1>2, <1>21 DEF CarryOK
  <2> QED
    BY <1>18, <2>2 DEF CarryOK
<1>23. ASSUME NEW z \in Producer PROVE Fills(w2[z], at2, Of(z))
  <2>1. CASE z = p
    BY <1>2, <1>19, <1>6, <1>8, <1>1, <1>18, <2>1 DEF PlacesOK, Fills
  <2>2. CASE z # p
    BY <1>2, <2>2, PlacesDiffer, <1>14, <1>18 DEF PlacesOK
  <2> QED
    BY <2>1, <2>2
<1>24. Fills(pool', at2, InPool)
  <2>1. Fills(pool, at, InPool) /\ Of(p) # InPool
    BY <1>2, PlacesDiffer DEF PlacesOK
  <2>2. ASSUME NEW k \in 1 .. Len(pool') PROVE pool'[k] \in DOMAIN at2 /\ at2[pool'[k]] = InPool
    BY <1>1, <1>6, <2>1, <1>8 DEF Fills
  <2>3. ASSUME NEW k \in 1 .. fresh', at2[k] = InPool PROVE \E i \in 1 .. Len(pool') : pool'[i] = k
    <3>1. k # m /\ k \in 1 .. fresh /\ at[k] = InPool
      BY <1>8, <2>1, <2>3
    <3>2. PICK i \in 1 .. Len(pool) : pool[i] = k
      BY <1>6, <2>1, <3>1 DEF Fills
    <3> QED
      BY <1>1, <3>1, <3>2
  <2> QED
    BY <1>8, <2>2, <2>3 DEF Fills
<1>25. PlacesOK(q, w2, at2)'
  BY <1>1, <1>2, PlacesDiffer, <1>8, <1>9, <1>16, <1>23, <1>24 DEF LF!AtDeq, PlacesOK
<1>26. EndsOK(at2)'
  BY <1>8, PlacesDiffer, <1>6, <1>2, <1>5 DEF EndsOK
<1>27. TailOK(at2)'
  BY <1>2, <1>1, PlacesDiffer, <1>8 DEF TailOK
<1>28. QueueKept(at) /\ fresh' \in Nat /\ fresh <= fresh' /\ HeadStep /\ head' = head /\ TailStep
  BY <1>1, <1>6, PlacesDiffer, <1>5 DEF QueueKept, LF!Node, HeadStep, TailStep
<1>29. ASSUME NEW u \in Producer, u # p PROVE PutOK(u, at2, older2)'
  <2>1. enq'[u] = enq[u] /\ PutOK(u, at, older)
    BY <1>1, <1>2, <1>29 DEF OnlyPut
  <2>2. ASSUME enq[u].step \in {"next", "link", "help"}, NEW v \in Producer, at2[enq[u].node] = Of(v)
        PROVE  <<u, v>> \in older2
    BY <2>1, <2>2, <1>8, <1>11, <1>29, PlacesDiffer DEF PutOK
  <2>3. Carrying(u) => data'[enq[u].new] = data[enq[u].new]
    BY <1>2, <1>21 DEF CarryOK, Path
  <2> QED
    BY <1>2, <1>28, <2>1, <2>2, <2>3, KeepPut
<1>30. PutOK(p, at2, older2)'
  BY <1>4, <1>5 DEF PutOK
<1>31. SeenOK(q)' /\ \A d \in Consumer : GetOK(d)'
  BY <1>1, <1>5, <1>16, <1>28, OthersKeep
<1>32. Safe(q, w2, at2, older2)'
  BY <1>1, <1>12, <1>16, <1>22, <1>25, <1>26, <1>27, <1>29, <1>30, <1>31 DEF Safe, OlderOK
<1>33. \A k \in 1 .. Len(q) : data'[q[k]] = data[q[k]]
  BY <1>13, <1>15
<1>34. \A u \in Producer : \A k \in 1 .. Len(w[u]) : data'[w[u][k]] = data[w[u][k]]
  BY <1>21, <1>2 DEF CarryOK
<1> QED
  BY <1>1, <1>5, <1>17, <1>32, <1>33, <1>34

-----------------------------------------------------------------------------
(* Types.                                                                  *)

PutType == [step : LF!EnqStep, n : 0 .. MaxPut, new : LF!Node \cup {LF!null}, index : Nat,
            node : LF!Node \cup {LF!null}, next : LF!Node \cup {LF!null}]
GetType == [step : LF!DeqStep, index : Nat, node : LF!Node \cup {LF!null}, next : LF!Node \cup {LF!null},
            tindex : Nat, tnode : LF!Node \cup {LF!null}, value : LF!Value \cup {NoValue}]

LEMMA SeenTyped == ASSUME LF!Sees PROVE seen' \in [Consumer -> BOOLEAN]
  BY DEF LF!Sees

LEMMA PutTyped ==
    ASSUME LF!TypeOK, LF!Sees, NEW p \in Producer, NEW r \in PutType, enq' = [enq EXCEPT ![p] = r],
           UNCHANGED <<data, pool, fresh, head, deq>>,
           next' \in [LF!Node -> LF!Node \cup {LF!null}], tail' \in [index : Nat, node : LF!Node]
    PROVE  LF!TypeOK'
  BY SeenTyped DEF LF!TypeOK, PutType

LEMMA GetTyped ==
    ASSUME LF!TypeOK, LF!Sees, NEW c \in Consumer, NEW r \in GetType, deq' = [deq EXCEPT ![c] = r],
           UNCHANGED <<next, data, fresh, enq>>,
           pool' \in Seq(LF!Node), head' \in [index : Nat, node : LF!Node], tail' \in [index : Nat, node : LF!Node]
    PROVE  LF!TypeOK'
  BY SeenTyped DEF LF!TypeOK, GetType

(* A node the safe locals hold is one.                                     *)
LEMMA Made == ASSUME LF!TypeOK PROVE 1 .. fresh \subseteq LF!Node
  BY LockFreeQueueAssumption DEF LF!TypeOK, LF!Node

LEMMA EnqueueTypes ==
    ASSUME LF!TypeOK, LF!Sees, fresh <= 1 + LF!Calls, NEW q, NEW w, NEW at, NEW older, Safe(q, w, at, older),
           NEW p \in Producer, LF!Enqueue(p)
    PROVE  LF!TypeOK'
<1>1. PICK m \in LF!Node :
           /\ fresh' \in LF!Node /\ pool' \in Seq(LF!Node)
           /\ next' \in [LF!Node -> LF!Node \cup {LF!null}] /\ data' \in [LF!Node -> LF!Value \cup {NoValue}]
           /\ OnlyPut(p) /\ enq[p].n + 1 \in 1 .. MaxPut
           /\ enq'[p] = [LF!Put0(enq[p].n + 1) EXCEPT !.step = "index", !.new = m]
           /\ UNCHANGED <<head, tail, deq>>
  BY EnqueueSafe
<1>2. enq' = [enq EXCEPT ![p] = enq'[p]]
  BY DEF LF!TypeOK, PutType, LF!Enqueue
<1>3. enq'[p] \in PutType
  <2>1. PICK n : n = enq[p].n + 1 /\ n \in 0 .. MaxPut
    BY <1>1
  <2>2. enq'[p] = [step |-> "index", n |-> n, new |-> m, index |-> 0, node |-> LF!null, next |-> LF!null]
    BY <1>1, <2>1 DEF LF!Put0
  <2> QED
    BY <2>1, <2>2 DEF PutType, LF!EnqStep
<1>4. enq' \in [Producer -> PutType]
  BY <1>2, <1>3 DEF LF!TypeOK, PutType
<1> QED
  BY <1>1, <1>4, SeenTyped DEF LF!TypeOK, PutType

LEMMA EnqueueStepTypes ==
    ASSUME LF!TypeOK, LF!Sees, NEW q, NEW w, NEW at, NEW older, Safe(q, w, at, older),
           NEW p \in Producer, LF!EnqueueStep(p)
    PROVE  LF!TypeOK'
<1>1. /\ enq[p] \in PutType /\ tail.index \in Nat /\ tail.node \in LF!Node
      /\ next \in [LF!Node -> LF!Node \cup {LF!null}] /\ tail \in [index : Nat, node : LF!Node]
      /\ DOMAIN enq = Producer
  BY DEF LF!TypeOK, PutType
<1>2. PutOK(p, at, older)
  BY DEF Safe
<1>3. CASE LF!Enqueue_Index(p)
  <2>1. PICK r : r = [enq[p] EXCEPT !.step = "node", !.index = tail.index]
    OBVIOUS
  <2>2. r \in PutType
    BY <1>1, <2>1 DEF PutType, LF!EnqStep
  <2>3. enq' = [enq EXCEPT ![p] = r]
    BY <1>1, <1>3, <2>1 DEF LF!Enqueue_Index
  <2> QED
    BY <1>1, <1>3, <2>2, <2>3, PutTyped DEF LF!Enqueue_Index, LF!nodeVars
<1>4. CASE LF!Enqueue_Node(p)
  <2>1. PICK r : r = [enq[p] EXCEPT !.step = "next", !.node = tail.node]
    OBVIOUS
  <2>2. r \in PutType
    BY <1>1, <2>1 DEF PutType, LF!EnqStep
  <2>3. enq' = [enq EXCEPT ![p] = r]
    BY <1>1, <1>4, <2>1 DEF LF!Enqueue_Node
  <2> QED
    BY <1>1, <1>4, <2>2, <2>3, PutTyped DEF LF!Enqueue_Node, LF!nodeVars
<1>5. CASE LF!Enqueue_Next(p)
  <2>0. enq[p].node \in LF!Node
    BY <1>2, <1>5, Made DEF LF!Enqueue_Next, LF!At, PutOK
  <2>1. PICK r : r = [enq[p] EXCEPT !.step = IF next[enq[p].node] = LF!null THEN "link" ELSE "help",
                                    !.next = next[enq[p].node]]
    OBVIOUS
  <2>2. r \in PutType
    BY <1>1, <2>0, <2>1 DEF PutType, LF!EnqStep
  <2>3. enq' = [enq EXCEPT ![p] = r]
    BY <1>1, <1>5, <2>1 DEF LF!Enqueue_Next
  <2> QED
    BY <1>1, <1>5, <2>2, <2>3, PutTyped DEF LF!Enqueue_Next, LF!nodeVars
<1>6. CASE LF!Enqueue_Link(p) /\ next[enq[p].node] = LF!null
  BY <1>6, Links, <1>1, PutTyped DEF PutType, LF!EnqStep, LF!Enqueue_Link
<1>7. CASE LF!Enqueue_Link(p) /\ next[enq[p].node] # LF!null
  BY <1>1, <1>7, PutTyped DEF PutType, LF!EnqStep, LF!Enqueue_Link
<1>8. CASE LF!Enqueue_Swing(p)
  <2>1. PICK r : r = LF!Put0(enq[p].n)
    OBVIOUS
  <2>2. r \in PutType
    BY <1>1, <2>1 DEF PutType, LF!EnqStep, LF!Put0, LF!null
  <2>3. enq' = [enq EXCEPT ![p] = r]
    BY <1>1, <1>8, <2>1 DEF LF!Enqueue_Swing
  <2>4. enq[p].new # LF!null
    BY <1>2, <1>8 DEF LF!Enqueue_Swing, LF!At, PutOK
  <2>5. tail' \in [index : Nat, node : LF!Node]
    BY <1>1, <2>4, <1>8 DEF PutType, LF!Enqueue_Swing, LF!Swing
  <2> QED
    BY <1>1, <1>8, <2>2, <2>3, <2>5, PutTyped DEF LF!Enqueue_Swing, LF!nodeVars
<1>9. CASE LF!Enqueue_Help(p)
  <2>1. PICK r : r = [enq[p] EXCEPT !.step = "index"]
    OBVIOUS
  <2>2. r \in PutType
    BY <1>1, <2>1 DEF PutType, LF!EnqStep
  <2>3. enq' = [enq EXCEPT ![p] = r]
    BY <1>1, <1>9, <2>1 DEF LF!Enqueue_Help
  <2>4. enq[p].next # LF!null
    BY <1>2, <1>9 DEF LF!Enqueue_Help, LF!At, PutOK
  <2>5. tail' \in [index : Nat, node : LF!Node]
    BY <1>1, <2>4, <1>9 DEF PutType, LF!Enqueue_Help, LF!Swing
  <2> QED
    BY <1>1, <1>9, <2>2, <2>3, <2>5, PutTyped DEF LF!Enqueue_Help, LF!nodeVars
<1> QED
  BY <1>3, <1>4, <1>5, <1>6, <1>7, <1>8, <1>9 DEF LF!EnqueueStep

LEMMA DequeueTypes ==
    ASSUME LF!TypeOK, LF!Sees, NEW q, NEW w, NEW at, NEW older, Safe(q, w, at, older),
           NEW c \in Consumer, LF!Dequeue(c) \/ LF!DequeueStep(c)
    PROVE  LF!TypeOK'
<1>1. /\ deq[c] \in GetType /\ tail.index \in Nat /\ tail.node \in LF!Node /\ head.index \in Nat /\ head.node \in LF!Node
      /\ next \in [LF!Node -> LF!Node \cup {LF!null}] /\ tail \in [index : Nat, node : LF!Node]
      /\ data \in [LF!Node -> LF!Value \cup {NoValue}] /\ head \in [index : Nat, node : LF!Node]
      /\ DOMAIN deq = Consumer /\ pool \in Seq(LF!Node)
  BY DEF LF!TypeOK, GetType
<1>2. GetOK(c)
  BY DEF Safe
<1>3. LF!Get0(NoValue) \in GetType /\ LF!Get0(deq[c].value) \in GetType /\ [LF!Get0(NoValue) EXCEPT !.step = "index"] \in GetType
  BY <1>1 DEF LF!Get0, GetType, LF!DeqStep
<1>4. \A step \in LF!DeqStep : [deq[c] EXCEPT !.step = step] \in GetType
  BY <1>1 DEF GetType
<1>5. ASSUME NEW r \in GetType, deq' = [deq EXCEPT ![c] = r], UNCHANGED <<next, data, pool, fresh, enq, head, tail>>
      PROVE  LF!TypeOK'
  BY <1>1, <1>5, GetTyped
<1>6. CASE LF!Dequeue(c)
  BY <1>3, <1>5, <1>6 DEF LF!Dequeue, LF!nodeVars
<1>7. CASE LF!Dequeue_Head(c)
  BY <1>1, <1>7, <1>5 DEF GetType, LF!DeqStep, LF!Dequeue_Head, LF!nodeVars
<1>8. CASE LF!Dequeue_Next(c)
  BY <1>2, <1>8, Made, <1>1, <1>5 DEF LF!Dequeue_Next, LF!AtDeq, GetOK, GetType, LF!DeqStep, LF!nodeVars
<1>9. CASE LF!Dequeue_Tail(c)
  BY <1>1, <1>9, <1>5 DEF GetType, LF!DeqStep, LF!Dequeue_Tail, LF!nodeVars
<1>10. CASE LF!Dequeue_Check(c)
  BY <1>1, <1>10, <1>3, <1>4, <1>5 DEF LF!Dequeue_Check, LF!Go, LF!DeqStep, LF!nodeVars
<1>11. CASE LF!Dequeue_Help(c)
  <2>1. deq' = [deq EXCEPT ![c] = [deq[c] EXCEPT !.step = "index"]] /\ "index" \in LF!DeqStep
    BY <1>1, <1>11 DEF LF!Dequeue_Help, LF!Go, LF!DeqStep
  <2>2. deq[c].next # LF!null
    BY <1>2, <1>11 DEF LF!Dequeue_Help, LF!AtDeq, GetOK
  <2>3. tail' \in [index : Nat, node : LF!Node]
    BY <1>1, <2>2, <1>11 DEF GetType, LF!Dequeue_Help, LF!Swing
  <2>4. [deq[c] EXCEPT !.step = "index"] \in GetType
    BY <1>4, <2>1
  <2> QED
    BY <1>1, <1>11, <2>1, <2>3, <2>4, GetTyped DEF LF!Dequeue_Help, LF!nodeVars
<1>12. CASE LF!Dequeue_Data(c)
  BY <1>1, <1>2, <1>12, <1>5 DEF LF!Dequeue_Data, LF!AtDeq, GetOK, GetType, LF!DeqStep, LF!nodeVars
<1>13. CASE LF!Dequeue_Take(c)
  <2>1. PICK step \in LF!DeqStep : deq' = [deq EXCEPT ![c] = [deq[c] EXCEPT !.step = step]]
    BY <1>1, <1>13 DEF LF!Dequeue_Take, LF!Go, LF!DeqStep
  <2>2. deq[c].next # LF!null
    BY <1>2, <1>13 DEF LF!Dequeue_Take, LF!AtDeq, GetOK
  <2>3. head' \in [index : Nat, node : LF!Node]
    BY <1>1, <2>2, <1>13 DEF GetType, LF!Dequeue_Take, LF!Swing
  <2>4. [deq[c] EXCEPT !.step = step] \in GetType
    BY <1>4
  <2> QED
    BY <1>1, <1>13, <2>1, <2>3, <2>4, GetTyped DEF LF!Dequeue_Take, LF!nodeVars
<1>14. CASE LF!Dequeue_Free(c)
  <2>1. deq[c].node \in LF!Node
    BY <1>14, Made DEF LF!Dequeue_Free, LF!AtDeq, Safe, PlacesOK
  <2>2. pool' \in Seq(LF!Node)
    BY <1>1, <1>14, <2>1 DEF LF!Dequeue_Free
  <2>3. deq' = [deq EXCEPT ![c] = LF!Get0(deq[c].value)]
    BY <1>1, <1>14 DEF LF!Dequeue_Free
  <2> QED
    BY <1>1, <1>3, <1>14, <2>2, <2>3, GetTyped DEF LF!Dequeue_Free
<1> QED
  BY <1>6, <1>7, <1>8, <1>9, <1>10, <1>11, <1>12, <1>13, <1>14 DEF LF!DequeueStep

-----------------------------------------------------------------------------
(* The invariant.                                                          *)

LEMMA QueueInit == LF!Init => QueueInv
<1> SUFFICES ASSUME LF!Init PROVE QueueInv
  OBVIOUS
<1>1. MaxPut \in Nat /\ 1 \in LF!Node
  BY LockFreeQueueAssumption DEF LF!Node
<1>2. LF!TypeOK
  BY <1>1 DEF LF!Init, LF!TypeOK, LF!Put0, LF!Get0, LF!EnqStep, LF!DeqStep
<1>3. fresh = 1 /\ fresh <= 1 + LF!Calls
  BY <1>2, CallsIs DEF LF!Init
<1>4. /\ next[1] = LF!null /\ head.node = 1 /\ tail.node = 1 /\ pool = <<>>
      /\ \A p \in Producer : LF!At(p, "idle")
      /\ \A c \in Consumer : deq[c].step = "idle" /\ ~seen[c]
  BY <1>1 DEF LF!Init, LF!Put0, LF!Get0, LF!At
<1>5. PICK q, w, at, older : q = <<1>> /\ w = [p \in Producer |-> <<>>] /\ at = [m \in {1} |-> InQueue] /\ older = {}
  OBVIOUS
<1>6. QueueOK(q)
  BY <1>1, <1>4, <1>5, PathOne DEF QueueOK
<1>7. CarryOK(w)
  BY <1>4, <1>5 DEF CarryOK, Carrying
<1>8. 1 .. fresh = {1} /\ DOMAIN at = {1} /\ at[1] = InQueue
  BY <1>3, <1>5
<1>9. PlacesOK(q, w, at)
  BY <1>5, <1>8, PlacesDiffer, <1>4 DEF Fills, LF!AtDeq, PlacesOK
<1>10. PoolOK /\ OlderOK(older)
  BY <1>4, <1>5 DEF PoolOK, OlderOK
<1>11. EndsOK(at) /\ TailOK(at)
  BY <1>4, <1>8, PlacesDiffer DEF EndsOK, TailOK
<1>12. \A p \in Producer : PutOK(p, at, older)
  BY <1>4 DEF PutOK, LF!At, Carrying
<1>13. \A c \in Consumer : GetOK(c)
  BY <1>4 DEF GetOK
<1>14. SeenOK(q)
  BY <1>4 DEF SeenOK, LF!AtDeq
<1> QED
  BY <1>2, <1>3, <1>6, <1>7, <1>9, <1>10, <1>11, <1>12, <1>13, <1>14 DEF QueueInv, Safe

(* A step keeps what is safe, and the calls and nodes in step.             *)
LEMMA CallsStay ==
    ASSUME \A u \in Producer : enq'[u].n = enq[u].n
    PROVE  LF!Calls' = LF!Calls
  BY DEF LF!Value, LF!Calls

LEMMA EnqueueStepSafe ==
    ASSUME LF!TypeOK, LF!Sees, NEW q, NEW w, NEW at, NEW older, Safe(q, w, at, older),
           NEW p \in Producer, LF!EnqueueStep(p)
    PROVE  \E q2, w2, at2, older2 : Safe(q2, w2, at2, older2)'
<1>1. CASE LF!Enqueue_Index(p)
  BY <1>1, Enqueue_IndexSafe
<1>2. CASE LF!Enqueue_Node(p)
  BY <1>2, Enqueue_NodeSafe
<1>3. CASE LF!Enqueue_Next(p)
  BY <1>3, Enqueue_NextSafe
<1>4. CASE LF!Enqueue_Link(p)
  <2>1. CASE next[enq[p].node] # LF!null
    BY <1>4, <2>1, Enqueue_LinkFailSafe
  <2>2. CASE next[enq[p].node] = LF!null /\ at[enq[p].node] = InQueue
    <3>1. \E at2 : Safe(q \o w[p], [w EXCEPT ![p] = <<>>], at2, older)'
      BY <1>4, <2>2, Enqueue_LinkQueueSafe
    <3> QED
      BY <3>1
  <2>3. CASE next[enq[p].node] = LF!null /\ at[enq[p].node] # InQueue
    <3>1. at[enq[p].node] = InQueue \/ \E u \in Producer \ {p} : at[enq[p].node] = Of(u) /\ <<p, u>> \in older
      BY <1>4, <2>3, Links
    <3>2. PICK o \in Producer : o # p /\ at[enq[p].node] = Of(o)
      BY <2>3, <3>1
    <3>3. \E at2 : Safe(q, [w EXCEPT ![p] = <<>>, ![o] = w[o] \o w[p]], at2, older)'
      BY <1>4, <2>3, <3>2, Enqueue_LinkOtherSafe
    <3> QED
      BY <3>3
  <2> QED
    BY <2>1, <2>2, <2>3
<1>5. CASE LF!Enqueue_Swing(p)
  BY <1>5, Enqueue_SwingSafe
<1>6. CASE LF!Enqueue_Help(p)
  BY <1>6, Enqueue_HelpSafe
<1> QED
  BY <1>1, <1>2, <1>3, <1>4, <1>5, <1>6 DEF LF!EnqueueStep

LEMMA DequeueStepSafe ==
    ASSUME LF!TypeOK, LF!Sees, OneConsumer, NEW q, NEW w, NEW at, NEW older, Safe(q, w, at, older),
           NEW c \in Consumer, LF!DequeueStep(c)
    PROVE  \E q2, w2, at2, older2 : Safe(q2, w2, at2, older2)'
  BY Dequeue_HeadSafe, Dequeue_NextSafe, Dequeue_TailSafe, Dequeue_CheckSafe, Dequeue_HelpSafe,
     Dequeue_DataSafe, Dequeue_TakeSafe, Dequeue_TakeFailSafe, Dequeue_FreeSafe DEF LF!DequeueStep

LEMMA QueueStep == OneConsumer /\ QueueInv /\ [LF!Next]_(LF!vars) => QueueInv'
<1> SUFFICES ASSUME OneConsumer, QueueInv, [LF!Next]_(LF!vars) PROVE QueueInv'
  OBVIOUS
<1>1. LF!TypeOK /\ fresh <= 1 + LF!Calls
  BY DEF QueueInv
<1>2. PICK q, w, at, older : Safe(q, w, at, older)
  BY DEF QueueInv
<1>3. ASSUME NEW p \in Producer, LF!Enqueue(p), LF!Sees PROVE QueueInv'
  BY <1>1, <1>2, <1>3, EnqueueTypes, EnqueueSafe DEF QueueInv
<1>4. ASSUME NEW p \in Producer, LF!EnqueueStep(p), LF!Sees PROVE QueueInv'
  <2>1. LF!TypeOK'
    BY <1>1, <1>2, <1>4, EnqueueStepTypes
  <2>2. \E q2, w2, at2, older2 : Safe(q2, w2, at2, older2)'
    BY <1>1, <1>2, <1>4, EnqueueStepSafe
  <2>3. fresh' = fresh /\ \A u \in Producer : enq'[u].n = enq[u].n
    <3>1. enq \in [Producer -> PutType]
      BY <1>1 DEF LF!TypeOK, PutType
    <3>2. CASE LF!Enqueue_Index(p)
      BY <3>1, <3>2 DEF LF!Enqueue_Index, LF!nodeVars, PutType
    <3>3. CASE LF!Enqueue_Node(p)
      BY <3>1, <3>3 DEF LF!Enqueue_Node, LF!nodeVars, PutType
    <3>4. CASE LF!Enqueue_Next(p)
      BY <3>1, <3>4 DEF LF!Enqueue_Next, LF!nodeVars, PutType
    <3>5. CASE LF!Enqueue_Link(p)
      BY <3>1, <3>5 DEF LF!Enqueue_Link, LF!nodeVars, PutType
    <3>6. CASE LF!Enqueue_Swing(p)
      BY <3>1, <3>6 DEF LF!Enqueue_Swing, LF!nodeVars, PutType, LF!Put0
    <3>7. CASE LF!Enqueue_Help(p)
      BY <3>1, <3>7 DEF LF!Enqueue_Help, LF!nodeVars, PutType
    <3> QED
      BY <1>4, <3>2, <3>3, <3>4, <3>5, <3>6, <3>7 DEF LF!EnqueueStep
  <2>4. LF!Calls' = LF!Calls
    BY <2>3, CallsStay
  <2> QED
    BY <1>1, <2>1, <2>2, <2>3, <2>4 DEF QueueInv
<1>5. ASSUME NEW c \in Consumer, LF!Dequeue(c) \/ LF!DequeueStep(c), LF!Sees PROVE QueueInv'
  <2>1. LF!TypeOK'
    BY <1>1, <1>2, <1>5, DequeueTypes
  <2>2. \E q2, w2, at2, older2 : Safe(q2, w2, at2, older2)'
    BY <1>1, <1>2, <1>5, DequeueSafe, DequeueStepSafe
  <2>3. fresh' = fresh /\ enq' = enq
    BY <1>5 DEF LF!Dequeue, LF!DequeueStep, LF!Dequeue_Head, LF!Dequeue_Next, LF!Dequeue_Tail, LF!Dequeue_Check, LF!Dequeue_Help,
                LF!Dequeue_Data, LF!Dequeue_Take, LF!Dequeue_Free, LF!nodeVars
  <2>4. LF!Calls' = LF!Calls
    BY <2>3, CallsStay
  <2> QED
    BY <1>1, <2>1, <2>2, <2>3, <2>4 DEF QueueInv
<1>6. CASE UNCHANGED LF!vars
  <2>1. UNCHANGED <<next, data, pool, fresh, head, tail, enq, deq, seen>>
    BY <1>6 DEF LF!vars, LF!nodeVars
  <2>2. LF!TypeOK' /\ fresh' <= 1 + LF!Calls'
    BY <1>1, <2>1, CallsStay DEF LF!TypeOK
  <2>3. Safe(q, w, at, older)'
    <3>1. QueueOK(q)' /\ CarryOK(w)' /\ PlacesOK(q, w, at)' /\ PoolOK' /\ EndsOK(at)' /\ TailOK(at)' /\ SeenOK(q)'
      BY <1>2, <2>1 DEF Safe, QueueOK, CarryOK, PlacesOK, PoolOK, EndsOK, TailOK, SeenOK, LF!AtDeq, Carrying, LF!At, LF!Linked
    <3>2. \A p \in Producer : PutOK(p, at, older)'
      BY <1>2, <2>1 DEF Safe, PutOK, Carrying, LF!At, LF!Linked
    <3>3. \A c \in Consumer : GetOK(c)'
      BY <1>2, <2>1 DEF Safe, GetOK
    <3> QED
      BY <1>2, <3>1, <3>2, <3>3 DEF Safe, OlderOK
  <2> QED
    BY <2>2, <2>3 DEF QueueInv
<1> QED
  BY <1>3, <1>4, <1>5, <1>6 DEF LF!Next

LEMMA OneMember == ASSUME NEW S, NEW x, S = {x} PROVE Cardinality(S) = 1
  BY FS_Singleton

LEMMA NoMember == ASSUME NEW S, S = {} PROVE Cardinality(S) = 0
  BY FS_EmptySet

LEMMA QueueInvSound == QueueInv => NodesSound
<1> SUFFICES ASSUME QueueInv PROVE NodesSound
  OBVIOUS
<1>1. PICK q, w, at, older : Safe(q, w, at, older)
  BY DEF QueueInv
<1>2. /\ QueueOK(q) /\ CarryOK(w) /\ PlacesOK(q, w, at) /\ PoolOK /\ TailOK(at) /\ pool \in Seq(LF!Node)
  BY <1>1 DEF Safe, QueueInv, LF!TypeOK
<1>3. LF!Chain(next, head.node) = q /\ DOMAIN q = 1 .. Len(q) /\ \A i, j \in 1 .. Len(q) : q[i] = q[j] => i = j
  <2>1. Path(next, q) /\ q[1] = head.node
    BY <1>2 DEF QueueOK
  <2>2. LF!Chain(next, q[1]) = q
    BY <2>1, ChainIs
  <2> QED
    BY <2>1, <2>2 DEF Path
<1>4. \A p \in Producer : Carrying(p) => LF!Chain(next, enq[p].new) = w[p] /\ DOMAIN w[p] = 1 .. Len(w[p])
  <2> SUFFICES ASSUME NEW p \in Producer, Carrying(p)
               PROVE  LF!Chain(next, enq[p].new) = w[p] /\ DOMAIN w[p] = 1 .. Len(w[p])
    OBVIOUS
  <2>1. PICK s : s = w[p] /\ Path(next, s) /\ s[1] = enq[p].new
    BY <1>2 DEF CarryOK
  <2>2. LF!Chain(next, s[1]) = s
    BY <2>1, ChainIs
  <2> QED
    BY <2>1, <2>2 DEF Path
<1>5. \E k \in DOMAIN LF!Chain(next, head.node) : LF!Chain(next, head.node)[k] = tail.node
  BY <1>2, <1>3 DEF TailOK, PlacesOK, Fills
<1>6. ASSUME NEW m \in 1 .. fresh PROVE LF!CopiesOf(m) = 1
  <2> DEFINE A == {k \in DOMAIN LF!Chain(next, head.node) : LF!Chain(next, head.node)[k] = m}
             B == {k \in DOMAIN pool : pool[k] = m}
             C == {p \in Producer : ~LF!Linked(p) /\ ~LF!At(p, "idle") /\
                      \E k \in DOMAIN LF!Chain(next, enq[p].new) : LF!Chain(next, enq[p].new)[k] = m}
             D == {c \in Consumer : LF!AtDeq(c, "free") /\ deq[c].node = m}
  <2>1. LF!CopiesOf(m) = Cardinality(A) + Cardinality(B) + Cardinality(C) + Cardinality(D)
    BY SameCardinality DEF LF!CopiesOf
  <2>2. at[m] \in NodePlaces /\ DOMAIN at = 1 .. fresh
    BY <1>2 DEF PlacesOK
  <2>3. at[m] # InQueue => A = {}
    BY <1>2, <1>3 DEF PlacesOK, Fills
  <2>4. at[m] = InQueue => \E x : A = {x}
    <3> SUFFICES ASSUME at[m] = InQueue PROVE \E x : A = {x}
      OBVIOUS
    <3>1. PICK k \in 1 .. Len(q) : q[k] = m
      BY <1>2, <2>2 DEF PlacesOK, Fills
    <3>2. A = {k}
      BY <1>3, <3>1
    <3> QED
      BY <3>2
  <2>5. at[m] # InPool => B = {}
    BY <1>2 DEF PlacesOK, Fills
  <2>6. at[m] = InPool => \E x : B = {x}
    <3> SUFFICES ASSUME at[m] = InPool PROVE \E x : B = {x}
      OBVIOUS
    <3>1. PICK k \in 1 .. Len(pool) : pool[k] = m
      BY <1>2, <2>2 DEF PlacesOK, Fills
    <3>2. DOMAIN pool = 1 .. Len(pool)
      BY <1>2
    <3>3. B = {k}
      BY <1>2, <3>1, <3>2 DEF PoolOK
    <3> QED
      BY <3>3
  <2>7. ASSUME NEW p \in Producer PROVE p \in C <=> at[m] = Of(p)
    BY <1>2, <1>4, <2>2 DEF Carrying, PlacesOK, Fills, CarryOK
  <2>8. ASSUME NEW c \in Consumer PROVE c \in D <=> at[m] = FreedBy(c)
    BY <1>2 DEF PlacesOK
  <2>9. C \subseteq Producer /\ D \subseteq Consumer
    OBVIOUS
  <2> HIDE DEF A, B, C, D
  <2>10. CASE at[m] = InQueue
    <3>1. B = {} /\ C = {} /\ D = {} /\ \E x : A = {x}
      BY <2>4, <2>5, <2>7, <2>8, <2>9, <2>10, PlacesDiffer
    <3>2. Cardinality(A) + Cardinality(B) + Cardinality(C) + Cardinality(D) = 1
      <4>1. Cardinality(A) = 1
        BY <3>1, OneMember
      <4>2. Cardinality(B) = 0 /\ Cardinality(C) = 0 /\ Cardinality(D) = 0
        BY <3>1, NoMember
      <4> QED
        BY <4>1, <4>2
    <3> QED
      BY <2>1, <3>2
  <2>11. CASE at[m] = InPool
    <3>1. A = {} /\ C = {} /\ D = {} /\ \E x : B = {x}
      BY <2>3, <2>6, <2>7, <2>8, <2>9, <2>11, PlacesDiffer
    <3>2. Cardinality(A) + Cardinality(B) + Cardinality(C) + Cardinality(D) = 1
      <4>1. Cardinality(B) = 1
        BY <3>1, OneMember
      <4>2. Cardinality(A) = 0 /\ Cardinality(C) = 0 /\ Cardinality(D) = 0
        BY <3>1, NoMember
      <4> QED
        BY <4>1, <4>2
    <3> QED
      BY <2>1, <3>2
  <2>12. CASE \E p \in Producer : at[m] = Of(p)
    <3>1. PICK p \in Producer : at[m] = Of(p)
      BY <2>12
    <3>2. C = {p}
      BY <2>7, <2>9, <3>1, PlacesDiffer
    <3>3. A = {} /\ B = {} /\ D = {}
      BY <2>3, <2>5, <2>8, <2>9, <3>1, PlacesDiffer
    <3>4. Cardinality(C) = 1
      BY <3>2, OneMember
    <3>5. Cardinality(A) = 0 /\ Cardinality(B) = 0 /\ Cardinality(D) = 0
      BY <3>3, NoMember
    <3> QED
      BY <2>1, <3>4, <3>5
  <2>13. CASE \E c \in Consumer : at[m] = FreedBy(c)
    <3>1. PICK c \in Consumer : at[m] = FreedBy(c)
      BY <2>13
    <3>2. D = {c}
      BY <2>8, <2>9, <3>1, PlacesDiffer
    <3>3. A = {} /\ B = {} /\ C = {}
      BY <2>3, <2>5, <2>7, <2>9, <3>1, PlacesDiffer
    <3>4. Cardinality(D) = 1
      BY <3>2, OneMember
    <3>5. Cardinality(A) = 0 /\ Cardinality(B) = 0 /\ Cardinality(C) = 0
      BY <3>3, NoMember
    <3> QED
      BY <2>1, <3>4, <3>5
  <2> QED
    BY <2>2, <2>10, <2>11, <2>12, <2>13 DEF NodePlaces
<1>7. LF!TypeOK
  BY DEF QueueInv
<1> QED
  BY <1>5, <1>6, <1>7 DEF NodesSound, LF!NodesInOnePlace

(* A node is in the queue, in the pool, or with the one call that is about *)
(* to link or to free it: never in two of these places, never in none, and *)
(* tail stays in the queue. This is what Enqueue and Dequeue of            *)
(* cLockFreeQueue.h and Alloc and Free of the pool keep up, though nodes   *)
(* are used again while other threads still hold pointers to them. Where   *)
(* the build drops the second read of the index of head, one consumer only.*)
THEOREM NodesSoundAlways == OneConsumer => (LF!Spec => []NodesSound)
<1> SUFFICES ASSUME OneConsumer PROVE LF!Spec => []NodesSound
  OBVIOUS
<1>1. LF!Init => QueueInv
  BY QueueInit
<1>2. QueueInv /\ [LF!Next]_(LF!vars) => QueueInv'
  BY QueueStep
<1>3. QueueInv => NodesSound
  BY QueueInvSound
<1> QED
  BY <1>1, <1>2, <1>3, PTL DEF LF!Spec

-----------------------------------------------------------------------------
(* The queue implements the abstract one.                                  *)

APut == [p \in Producer |-> [step |-> LF!PutPhase(p), n |-> enq[p].n]]
ACar == [p \in Producer |-> LF!Carried(p)]
AGet == [c \in Consumer |-> [step |-> LF!GetPhase(c), value |-> LF!Answer(c)]]

LEMMA FifoActions ==
    /\ \A p : LF!Fifo!PutCall(p) <=> /\ APut[p].step = "idle"
                                  /\ APut' = [APut EXCEPT ![p] = [step |-> "called", n |-> @.n + 1]]
                                  /\ UNCHANGED <<LF!Queued, ACar, AGet>>
    /\ \A p : LF!Fifo!Put(p) <=> /\ APut[p].step = "called" /\ APut' = [APut EXCEPT ![p].step = "done"]
                              /\ LF!Queued' = LF!Queued \o <<<<p, APut[p].n>>>> \o ACar[p]
                              /\ ACar' = [ACar EXCEPT ![p] = <<>>]
                              /\ UNCHANGED AGet
    /\ \A p, o : LF!Fifo!CarriedBy(p, o) <=>
                              /\ p # o /\ APut[o].step = "called"
                              /\ APut[p].step = "called" /\ APut' = [APut EXCEPT ![p].step = "done"]
                              /\ ACar' = [ACar EXCEPT ![o] = @ \o <<<<p, APut[p].n>>>> \o ACar[p], ![p] = <<>>]
                              /\ UNCHANGED <<LF!Queued, AGet>>
    /\ \A p : LF!Fifo!PutReturn(p) <=>
                              /\ APut[p].step = "done" /\ APut' = [APut EXCEPT ![p].step = "idle"]
                              /\ UNCHANGED <<LF!Queued, ACar, AGet>>
    /\ \A c : LF!Fifo!GetCall(c) <=>
                              /\ AGet[c].step = "idle"
                              /\ AGet' = [AGet EXCEPT ![c] = [step |-> "called", value |-> NoValue]]
                              /\ UNCHANGED <<LF!Queued, APut, ACar>>
    /\ \A c : LF!Fifo!Get(c) <=> /\ AGet[c].step = "called" /\ LF!Queued # <<>> /\ LF!Queued' = Tail(LF!Queued)
                              /\ AGet' = [AGet EXCEPT ![c] = [step |-> "done", value |-> Head(LF!Queued)]]
                              /\ UNCHANGED <<APut, ACar>>
    /\ \A c : LF!Fifo!GetReturn(c) <=>
                              /\ AGet[c].step = "done" \/ (AGet[c].step = "called" /\ seen[c])
                              /\ AGet' = [AGet EXCEPT ![c].step = "idle"]
                              /\ UNCHANGED <<LF!Queued, APut, ACar>>
<1>1. \A p : LF!Fifo!PutCall(p) <=> /\ APut[p].step = "idle"
                                  /\ APut' = [APut EXCEPT ![p] = [step |-> "called", n |-> @.n + 1]]
                                  /\ UNCHANGED <<LF!Queued, ACar, AGet>>
  BY DEF LF!Fifo!PutCall, APut, ACar, AGet
<1>2. \A p : LF!Fifo!Put(p) <=> /\ APut[p].step = "called" /\ APut' = [APut EXCEPT ![p].step = "done"]
                              /\ LF!Queued' = LF!Queued \o <<<<p, APut[p].n>>>> \o ACar[p]
                              /\ ACar' = [ACar EXCEPT ![p] = <<>>]
                              /\ UNCHANGED AGet
  BY DEF LF!Fifo!Put, LF!Fifo!PutStep, LF!Fifo!ValueOf, APut, ACar, AGet
<1>3. \A p, o : LF!Fifo!CarriedBy(p, o) <=>
                              /\ p # o /\ APut[o].step = "called"
                              /\ APut[p].step = "called" /\ APut' = [APut EXCEPT ![p].step = "done"]
                              /\ ACar' = [ACar EXCEPT ![o] = @ \o <<<<p, APut[p].n>>>> \o ACar[p], ![p] = <<>>]
                              /\ UNCHANGED <<LF!Queued, AGet>>
  BY DEF LF!Fifo!CarriedBy, LF!Fifo!PutStep, LF!Fifo!ValueOf, APut, ACar, AGet
<1>4. \A p : LF!Fifo!PutReturn(p) <=>
                              /\ APut[p].step = "done" /\ APut' = [APut EXCEPT ![p].step = "idle"]
                              /\ UNCHANGED <<LF!Queued, ACar, AGet>>
  BY DEF LF!Fifo!PutReturn, LF!Fifo!PutStep, APut, ACar, AGet
<1>5. \A c : LF!Fifo!GetCall(c) <=>
                              /\ AGet[c].step = "idle"
                              /\ AGet' = [AGet EXCEPT ![c] = [step |-> "called", value |-> NoValue]]
                              /\ UNCHANGED <<LF!Queued, APut, ACar>>
  BY DEF LF!Fifo!GetCall, APut, ACar, AGet
<1>6. \A c : LF!Fifo!Get(c) <=> /\ AGet[c].step = "called" /\ LF!Queued # <<>> /\ LF!Queued' = Tail(LF!Queued)
                              /\ AGet' = [AGet EXCEPT ![c] = [step |-> "done", value |-> Head(LF!Queued)]]
                              /\ UNCHANGED <<APut, ACar>>
  BY DEF LF!Fifo!Get, APut, ACar, AGet
<1>7. \A c : LF!Fifo!GetReturn(c) <=>
                              /\ AGet[c].step = "done" \/ (AGet[c].step = "called" /\ seen[c])
                              /\ AGet' = [AGet EXCEPT ![c].step = "idle"]
                              /\ UNCHANGED <<LF!Queued, APut, ACar>>
  BY DEF LF!Fifo!GetReturn, APut, ACar, AGet
<1> QED
  BY <1>1, <1>2, <1>3, <1>4, <1>5, <1>6, <1>7

LEMMA SeesMaps == ASSUME LF!Sees PROVE LF!Fifo!Sees
  BY DEF LF!GetPhase, LF!AtDeq, LF!Sees, LF!Fifo!Sees

(* What the queue and a producer hold.                                     *)
LEMMA Contents ==
    ASSUME LF!TypeOK, NEW q, NEW w, NEW at, NEW older, Safe(q, w, at, older)
    PROVE  /\ LF!Queued = Rest(data, q) /\ Len(Rest(data, q)) = Len(q) - 1 /\ Rest(data, q) \in Seq(LF!Value \cup {NoValue})
           /\ \A p \in Producer : LF!Carried(p) = IF Carrying(p) THEN Rest(data, w[p]) ELSE <<>>
<1>1. QueueOK(q) /\ CarryOK(w) /\ data \in [LF!Node -> LF!Value \cup {NoValue}]
  BY DEF Safe, LF!TypeOK
<1>2. Path(next, q) /\ q[1] = head.node
  BY <1>1 DEF QueueOK
<1>3. /\ Tail([k \in DOMAIN LF!Chain(next, q[1]) |-> data[LF!Chain(next, q[1])[k]]]) = Rest(data, q)
      /\ Rest(data, q) \in Seq(LF!Value \cup {NoValue}) /\ Len(Rest(data, q)) = Len(q) - 1
  BY <1>1, <1>2, RestIs
<1>4. LF!Queued = Rest(data, q)
  BY <1>2, <1>3 DEF LF!Queued, LF!Values
<1>5. ASSUME NEW p \in Producer PROVE LF!Carried(p) = IF Carrying(p) THEN Rest(data, w[p]) ELSE <<>>
  <2>1. CASE Carrying(p)
    <3>1. PICK s : s = w[p] /\ Path(next, s) /\ s[1] = enq[p].new
      BY <1>1, <2>1 DEF CarryOK
    <3>2. Tail([k \in DOMAIN LF!Chain(next, s[1]) |-> data[LF!Chain(next, s[1])[k]]]) = Rest(data, s)
      BY <1>1, <3>1, RestIs
    <3> QED
      BY <2>1, <3>1, <3>2 DEF LF!Carried, Carrying, LF!Values
  <2>2. CASE ~Carrying(p)
    BY <2>2 DEF LF!Carried, Carrying
  <2> QED
    BY <2>1, <2>2
<1> QED
  BY <1>3, <1>4, <1>5

LEMMA ContentsAfter ==
    ASSUME data' \in [LF!Node -> LF!Value \cup {NoValue}], NEW q, NEW w, NEW at, NEW older, Safe(q, w, at, older)'
    PROVE  /\ LF!Queued' = Rest(data', q)
           /\ \A p \in Producer : LF!Carried(p)' = IF Carrying(p)' THEN Rest(data', w[p]) ELSE <<>>
<1>1. QueueOK(q)' /\ CarryOK(w)'
  BY DEF Safe
<1>2. Path(next', q) /\ q[1] = head'.node
  BY <1>1 DEF QueueOK
<1>3. Tail([k \in DOMAIN LF!Chain(next', q[1]) |-> data'[LF!Chain(next', q[1])[k]]]) = Rest(data', q)
  BY <1>1, <1>2, RestIs
<1>4. LF!Queued' = Rest(data', q)
  BY <1>2, <1>3 DEF LF!Queued, LF!Values
<1>5. ASSUME NEW p \in Producer PROVE LF!Carried(p)' = IF Carrying(p)' THEN Rest(data', w[p]) ELSE <<>>
  <2>1. CASE Carrying(p)'
    <3>1. PICK s : s = w[p] /\ Path(next', s) /\ s[1] = enq'[p].new
      BY <1>1, <2>1 DEF CarryOK
    <3>2. Tail([k \in DOMAIN LF!Chain(next', s[1]) |-> data'[LF!Chain(next', s[1])[k]]]) = Rest(data', s)
      BY <1>1, <3>1, RestIs
    <3> QED
      BY <2>1, <3>1, <3>2 DEF LF!Carried, Carrying, LF!Values
  <2>2. CASE ~Carrying(p)'
    BY <2>2 DEF LF!Carried, Carrying
  <2> QED
    BY <2>1, <2>2
<1> QED
  BY <1>4, <1>5

LEMMA JoinIs ==
    ASSUME NEW D, NEW a \in Seq(D), NEW b \in Seq(D)
    PROVE  /\ a \o b \in Seq(D) /\ Len(a \o b) = Len(a) + Len(b)
           /\ \A k \in 1 .. Len(a) + Len(b) : (a \o b)[k] = IF k <= Len(a) THEN a[k] ELSE b[k - Len(a)]
  OBVIOUS

(* The values of a path that goes on with another.                         *)
LEMMA RestJoin ==
    ASSUME NEW to, NEW s, Path(to, s), NEW to2, NEW t, Path(to2, t), NEW D, NEW of \in [LF!Node -> D]
    PROVE  Rest(of, s \o t) = Rest(of, s) \o <<of[t[1]]>> \o Rest(of, t)
<1>1. Len(s) \in Nat /\ Len(s) > 0 /\ s \in Seq(LF!Node)
  BY DEF Path
<1>2. Len(t) \in Nat /\ Len(t) > 0 /\ t \in Seq(LF!Node)
  BY DEF Path
<1>3. PICK n, l : n = Len(s) /\ n \in Nat /\ n > 0 /\ l = Len(t) /\ l \in Nat /\ l > 0
  BY <1>1, <1>2
<1>0. PICK u : u = s \o t
  OBVIOUS
<1>4. Len(u) = n + l /\ \A k \in 1 .. n + l : u[k] = IF k <= n THEN s[k] ELSE t[k - n]
  BY <1>0, <1>1, <1>2, <1>3
<1>5. Rest(of, s) \in Seq(D) /\ Len(Rest(of, s)) = n - 1 /\ \A k \in 1 .. n - 1 : Rest(of, s)[k] = of[s[k + 1]]
  <2>1. Rest(of, s) \in Seq(D) /\ Len(Rest(of, s)) = Len(s) - 1
    BY RestIs
  <2>2. Rest(of, s) = [k \in 1 .. n - 1 |-> of[s[k + 1]]]
    BY <1>3 DEF Rest
  <2> QED
    BY <1>3, <2>1, <2>2
<1>6. Rest(of, t) \in Seq(D) /\ Len(Rest(of, t)) = l - 1 /\ \A k \in 1 .. l - 1 : Rest(of, t)[k] = of[t[k + 1]]
  <2>1. Rest(of, t) \in Seq(D) /\ Len(Rest(of, t)) = Len(t) - 1
    BY RestIs
  <2>2. Rest(of, t) = [k \in 1 .. l - 1 |-> of[t[k + 1]]]
    BY <1>3 DEF Rest
  <2> QED
    BY <1>3, <2>1, <2>2
<1>7. of[t[1]] \in D
  BY <1>2, <1>3
<1>8. PICK a, b, c : a = Rest(of, s) /\ b = <<of[t[1]]>> /\ c = Rest(of, t)
  OBVIOUS
<1>9. a \in Seq(D) /\ b \in Seq(D) /\ c \in Seq(D) /\ Len(a) = n - 1 /\ Len(b) = 1 /\ b[1] = of[t[1]] /\ Len(c) = l - 1
  BY <1>5, <1>6, <1>7, <1>8
<1>10. PICK v : v = a \o b \o c
  OBVIOUS
<1>11. v \in Seq(D) /\ Len(v) = n + l - 1
       /\ \A k \in 1 .. n + l - 1 : v[k] = IF k <= n - 1 THEN a[k] ELSE IF k = n THEN b[1] ELSE c[k - n]
  <2>1. PICK e : e = a \o b
    OBVIOUS
  <2>2. e \in Seq(D) /\ Len(e) = n /\ \A k \in 1 .. n : e[k] = IF k <= n - 1 THEN a[k] ELSE b[1]
    <3>1. PICK m : m = n - 1 /\ m \in Nat /\ m + 1 = n /\ \A k \in 1 .. n : k <= m \/ k - m = 1
      BY <1>3
    <3>2. a \in Seq(D) /\ b \in Seq(D) /\ Len(a) = m /\ Len(b) = 1
      BY <1>9, <3>1
    <3>3. a \o b \in Seq(D) /\ Len(a \o b) = m + 1 /\ \A k \in 1 .. m + 1 : (a \o b)[k] = IF k <= m THEN a[k] ELSE b[k - m]
      <4>1. /\ a \o b \in Seq(D) /\ Len(a \o b) = Len(a) + Len(b)
            /\ \A k \in 1 .. Len(a) + Len(b) : (a \o b)[k] = IF k <= Len(a) THEN a[k] ELSE b[k - Len(a)]
        BY <3>2, JoinIs
      <4> QED
        BY <3>2, <4>1
    <3> QED
      BY <2>1, <3>1, <3>3
  <2>3. v = e \o c
    BY <1>10, <2>1
  <2>4. v \in Seq(D) /\ Len(v) = n + (l - 1) /\ \A k \in 1 .. n + (l - 1) : v[k] = IF k <= n THEN e[k] ELSE c[k - n]
    BY <1>3, <1>9, <2>2, <2>3
  <2>5. \A k \in 1 .. n + l - 1 : k \in 1 .. n + (l - 1) /\ (k <= n - 1 => k <= n /\ k \in 1 .. n)
                                  /\ (~(k <= n - 1) /\ k <= n => k = n) /\ n \in 1 .. n /\ ~(n <= n - 1)
    BY <1>3
  <2>6. n + (l - 1) = n + l - 1
    BY <1>3
  <2> QED
    BY <2>2, <2>4, <2>5, <2>6
<1>12. ASSUME NEW k \in 1 .. n + l - 1 PROVE of[u[k + 1]] = v[k]
  <2>1. k + 1 \in 1 .. n + l
    BY <1>3
  <2>2. CASE k <= n - 1
    <3>1. k + 1 <= n /\ k \in 1 .. n - 1
      BY <1>3, <2>2
    <3> QED
      BY <1>4, <1>5, <1>8, <1>11, <2>1, <2>2, <3>1
  <2>3. CASE k = n
    <3>1. ~(k + 1 <= n) /\ k + 1 - n = 1 /\ ~(k <= n - 1)
      BY <1>3, <2>3
    <3> QED
      BY <1>4, <1>9, <1>11, <2>1, <2>3, <3>1
  <2>4. CASE k > n
    <3>1. PICK j : j = k - n /\ j \in 1 .. l - 1 /\ ~(k + 1 <= n) /\ k + 1 - n = j + 1 /\ ~(k <= n - 1) /\ k # n
      BY <1>3, <2>4
    <3>2. PICK i : i = k + 1
      OBVIOUS
    <3>21. i \in 1 .. n + l /\ ~(i <= n) /\ i - n = j + 1
      BY <1>3, <2>1, <3>1, <3>2
    <3>3. u[i] = t[j + 1]
      BY <1>4, <3>21
    <3>4. v[k] = c[j]
      BY <1>11, <3>1
    <3> QED
      BY <1>6, <1>8, <3>1, <3>2, <3>3, <3>4
  <2> QED
    BY <1>3, <2>2, <2>3, <2>4
<1>13. v = [k \in 1 .. n + l - 1 |-> v[k]]
  BY <1>11, SeqIs
<1>14. Rest(of, u) = [k \in 1 .. n + l - 1 |-> of[u[k + 1]]]
  BY <1>3, <1>4 DEF Rest
<1>15. Rest(of, u) = v
  BY <1>12, <1>13, <1>14
<1> QED
  BY <1>0, <1>8, <1>10, <1>15

LEMMA SameQueue == ASSUME UNCHANGED <<next, data, head>> PROVE LF!Queued' = LF!Queued
  BY DEF LF!Queued, LF!Values

LEMMA SameCarried ==
    ASSUME UNCHANGED <<next, data>>, NEW u \in Producer, Carrying(u)' = Carrying(u),
           Carrying(u) => enq'[u].new = enq[u].new
    PROVE  LF!Carried(u)' = LF!Carried(u)
  BY DEF LF!Carried, Carrying, LF!Values

(* A step the abstract queue does not see.                                 *)
LEMMA Quiet ==
    ASSUME LF!TypeOK, LF!Sees, NEW q, NEW w, NEW at, NEW older, Safe(q, w, at, older),
           LF!Queued' = LF!Queued, APut' = APut, ACar' = ACar, AGet' = AGet
    PROVE  UNCHANGED LF!Fifo!fifoVars
<1>1. LF!Queued = <<>> <=> Len(q) = 1
  <2>1. LF!Queued \in Seq(LF!Value \cup {NoValue}) /\ Len(LF!Queued) = Len(q) - 1 /\ Len(q) \in Nat
    BY Contents, PathLength DEF Safe, QueueOK
  <2>2. PICK z : z = LF!Queued /\ z \in Seq(LF!Value \cup {NoValue})
    BY <2>1
  <2>3. z = <<>> <=> Len(z) = 0
    BY <2>2
  <2>4. Len(z) = Len(q) - 1 /\ Len(q) \in Int
    BY <2>1, <2>2
  <2>5. Len(z) = 0 <=> Len(q) = 1
    BY <2>4
  <2> QED
    BY <2>2, <2>3, <2>5
<1>2. \A c \in Consumer : deq'[c].step # "idle" <=> deq[c].step # "idle"
  BY DEF AGet, LF!GetPhase, LF!AtDeq
<1>3. \A c \in Consumer : seen[c] \in BOOLEAN /\ (seen[c] => deq[c].step # "idle") /\ (deq[c].step # "idle" /\ Len(q) = 1 => seen[c])
  BY DEF LF!TypeOK, Safe, SeenOK, LF!AtDeq
<1>4. \A c \in Consumer : seen[c] = (/\ deq'[c].step # "idle"
                                     /\ (deq[c].step # "idle" /\ seen[c]) \/ LF!Queued' = <<>>)
  BY <1>1, <1>2, <1>3, Zenon
<1>5. seen' = seen
  BY <1>4 DEF LF!TypeOK, LF!Sees
<1> QED
  BY <1>5 DEF LF!Fifo!fifoVars, APut, ACar, AGet

(* Only the call of p, or of c, is seen to go on.                          *)
LEMMA APutIs ==
    ASSUME NEW p \in Producer, OnlyPut(p)
    PROVE  /\ APut' = [APut EXCEPT ![p] = [step |-> LF!PutPhase(p)', n |-> enq'[p].n]]
           /\ APut[p] = [step |-> LF!PutPhase(p), n |-> enq[p].n]
           /\ \A u \in Producer : APut[u].step = LF!PutPhase(u)
  BY DEF OnlyPut, LF!PutPhase, LF!At, LF!Linked, APut

LEMMA AGetIs ==
    ASSUME NEW c \in Consumer, OnlyGet(c)
    PROVE  /\ AGet' = [AGet EXCEPT ![c] = [step |-> LF!GetPhase(c)', value |-> LF!Answer(c)']]
           /\ AGet[c] = [step |-> LF!GetPhase(c), value |-> LF!Answer(c)]
  BY DEF OnlyGet, LF!GetPhase, LF!Answer, LF!AtDeq, AGet

LEMMA APutSame == ASSUME UNCHANGED enq PROVE APut' = APut
  BY DEF APut, LF!PutPhase, LF!At, LF!Linked

LEMMA AGetSame == ASSUME UNCHANGED deq PROVE AGet' = AGet
  BY DEF AGet, LF!GetPhase, LF!Answer, LF!AtDeq

LEMMA ACarSame ==
    ASSUME UNCHANGED <<next, data>>,
           \A u \in Producer : Carrying(u)' = Carrying(u) /\ (Carrying(u) => enq'[u].new = enq[u].new)
    PROVE  ACar' = ACar
  BY SameCarried DEF ACar

(* Steps that the abstract queue does not see.                             *)
LEMMA QuietPut ==
    ASSUME LF!TypeOK, LF!Sees, NEW q, NEW w, NEW at, NEW older, Safe(q, w, at, older), NEW p \in Producer, OnlyPut(p),
           UNCHANGED <<next, data, head, deq>>, enq[p].step \notin {"idle", "swing"}, enq'[p].step \notin {"idle", "swing"},
           enq'[p].n = enq[p].n, enq'[p].new = enq[p].new
    PROVE  UNCHANGED LF!Fifo!fifoVars
  BY APutIs, SameQueue, ACarSame, AGetSame, Quiet DEF OnlyPut, Carrying, LF!At, LF!Linked, LF!PutPhase, APut

LEMMA QuietGet ==
    ASSUME LF!TypeOK, LF!Sees, NEW q, NEW w, NEW at, NEW older, Safe(q, w, at, older), NEW c \in Consumer, OnlyGet(c),
           UNCHANGED <<next, data, head, enq>>, deq[c].step \notin {"idle", "free"}, deq'[c].step \notin {"idle", "free"}
    PROVE  UNCHANGED LF!Fifo!fifoVars
<1>1. LF!GetPhase(c)' = LF!GetPhase(c) /\ LF!Answer(c)' = LF!Answer(c)
  BY DEF LF!GetPhase, LF!Answer, LF!AtDeq
<1>2. AGet' = [AGet EXCEPT ![c] = [step |-> LF!GetPhase(c)', value |-> LF!Answer(c)']] /\ AGet[c] = [step |-> LF!GetPhase(c), value |-> LF!Answer(c)]
  BY AGetIs
<1>3. AGet' = AGet
  BY <1>1, <1>2 DEF AGet
<1>4. ACar' = ACar
  BY ACarSame DEF Carrying, LF!At, LF!Linked
<1>5. LF!Queued' = LF!Queued /\ APut' = APut
  BY SameQueue, APutSame
<1> QED
  BY <1>3, <1>4, <1>5, Quiet

(* Enqueue: the call begins.                                               *)
LEMMA EnqueueMaps ==
    ASSUME LF!TypeOK, LF!Sees, fresh <= 1 + LF!Calls, NEW q, NEW w, NEW at, NEW older, Safe(q, w, at, older),
           NEW p \in Producer, LF!Enqueue(p)
    PROVE  LF!Fifo!PutCall(p)
<1>1. PICK m \in LF!Node :
           /\ \E at2, older2 : Safe(q, [w EXCEPT ![p] = <<m>>], at2, older2)'
           /\ data' \in [LF!Node -> LF!Value \cup {NoValue}]
           /\ \A k \in 1 .. Len(q) : data'[q[k]] = data[q[k]]
           /\ \A u \in Producer : \A k \in 1 .. Len(w[u]) : data'[w[u][k]] = data[w[u][k]]
           /\ OnlyPut(p) /\ enq[p].step = "idle"
           /\ enq'[p] = [LF!Put0(enq[p].n + 1) EXCEPT !.step = "index", !.new = m]
           /\ UNCHANGED <<head, tail, deq>>
  BY EnqueueSafe
<1>2. enq'[p].step = "index" /\ enq'[p].n = enq[p].n + 1
  BY <1>1 DEF LF!Put0
<1>3. PICK w2 : w2 = [w EXCEPT ![p] = <<m>>]
  OBVIOUS
<1>4. PICK at2, older2 : Safe(q, w2, at2, older2)'
  BY <1>1, <1>3
<1>5. /\ LF!Queued' = Rest(data', q)
      /\ \A u \in Producer : LF!Carried(u)' = IF Carrying(u)' THEN Rest(data', w2[u]) ELSE <<>>
  BY <1>1, <1>4, ContentsAfter
<1>6. /\ LF!Queued = Rest(data, q)
      /\ \A u \in Producer : LF!Carried(u) = IF Carrying(u) THEN Rest(data, w[u]) ELSE <<>>
  BY Contents
<1>7. LF!Queued' = LF!Queued
  BY <1>1, <1>5, <1>6 DEF Safe, QueueOK, Path, Rest
<1>8. ASSUME NEW u \in Producer PROVE LF!Carried(u)' = LF!Carried(u)
  <2>0. CarryOK(w)
    BY DEF Safe
  <2>1. CASE u = p
    BY <1>1, <1>6, <2>1, <1>3, <2>0, <1>5 DEF Carrying, LF!At, CarryOK, Rest
  <2>2. CASE u # p
    <3>1. Carrying(u)' = Carrying(u) /\ w2[u] = w[u]
      BY <1>1, <1>3, <2>0, <2>2 DEF OnlyPut, Carrying, LF!At, LF!Linked, CarryOK
    <3>2. Carrying(u) => Rest(data', w[u]) = Rest(data, w[u])
      <4> SUFFICES ASSUME Carrying(u) PROVE Rest(data', w[u]) = Rest(data, w[u])
        OBVIOUS
      <4>1. PICK s : s = w[u] /\ Len(s) \in Nat
        BY <2>0 DEF CarryOK, Path
      <4>2. \A k \in 1 .. Len(s) - 1 : k + 1 \in 1 .. Len(s)
        BY <4>1
      <4>3. \A k \in 1 .. Len(s) - 1 : data'[s[k + 1]] = data[s[k + 1]]
        BY <1>1, <4>1, <4>2
      <4> QED
        BY <4>1, <4>3 DEF Rest
    <3> QED
      BY <1>5, <1>6, <3>1, <3>2
  <2> QED
    BY <2>1, <2>2
<1>9. ACar' = ACar /\ AGet' = AGet
  BY <1>1, <1>8, AGetSame DEF ACar
<1>10. LF!PutPhase(p) = "idle" /\ LF!PutPhase(p)' = "called"
  BY <1>1, <1>2 DEF LF!PutPhase, LF!At, LF!Linked
<1>11. APut[p].step = "idle" /\ APut' = [APut EXCEPT ![p] = [step |-> "called", n |-> APut[p].n + 1]]
  <2>1. /\ APut' = [APut EXCEPT ![p] = [step |-> LF!PutPhase(p)', n |-> enq'[p].n]]
        /\ APut[p] = [step |-> LF!PutPhase(p), n |-> enq[p].n]
    BY <1>1, APutIs
  <2>2. APut[p].step = LF!PutPhase(p) /\ APut[p].n = enq[p].n
    BY <2>1
  <2> QED
    BY <1>2, <1>10, <2>1, <2>2
<1> QED
  BY <1>7, <1>9, <1>11, FifoActions

(* What the value of a node on its way is.                                 *)
LEMMA LinkValue ==
    ASSUME LF!TypeOK, NEW q, NEW w, NEW at, NEW older, Safe(q, w, at, older), NEW p \in Producer, enq[p].step = "link"
    PROVE  data[enq[p].new] = <<p, enq[p].n>>
  BY DEF Safe, PutOK, Carrying, LF!At, LF!Linked

(* Enqueue_Link: the value enters the queue, with those behind it.         *)
LEMMA LinkQueueMaps ==
    ASSUME LF!TypeOK, LF!Sees, NEW q, NEW w, NEW at, NEW older, Safe(q, w, at, older),
           NEW p \in Producer, LF!Enqueue_Link(p), next[enq[p].node] = LF!null, at[enq[p].node] = InQueue
    PROVE  LF!Fifo!Put(p)
<1>1. /\ UNCHANGED <<data, head, deq>> /\ OnlyPut(p)
      /\ enq[p].step = "link" /\ enq'[p].step = "swing" /\ enq'[p].n = enq[p].n
      /\ Carrying(p) /\ ~Carrying(p)'
  BY Links
<1>2. /\ \E at2 : Safe(q \o w[p], [w EXCEPT ![p] = <<>>], at2, older)'
      /\ Path(next, w[p]) /\ w[p][1] = enq[p].new
  BY Enqueue_LinkQueueSafe
<1>3. PICK q2, w2 : q2 = q \o w[p] /\ w2 = [w EXCEPT ![p] = <<>>]
  OBVIOUS
<1>4. PICK at2 : Safe(q2, w2, at2, older)'
  BY <1>2, <1>3
<1>5. data \in [LF!Node -> LF!Value \cup {NoValue}] /\ data' \in [LF!Node -> LF!Value \cup {NoValue}]
  BY <1>1 DEF LF!TypeOK
<1>6. LF!Queued' = Rest(data, q2) /\ \A u \in Producer : LF!Carried(u)' = IF Carrying(u)' THEN Rest(data, w2[u]) ELSE <<>>
  BY <1>1, <1>4, <1>5, ContentsAfter
<1>7. LF!Queued = Rest(data, q) /\ \A u \in Producer : LF!Carried(u) = IF Carrying(u) THEN Rest(data, w[u]) ELSE <<>>
  BY Contents
<1>8. LF!Queued' = LF!Queued \o <<data[enq[p].new]>> \o LF!Carried(p)
  <2>1. PICK s : s = w[p] /\ Path(next, s) /\ s[1] = enq[p].new
    BY <1>2
  <2>2. Path(next, q)
    BY DEF Safe, QueueOK
  <2>3. Rest(data, q \o s) = Rest(data, q) \o <<data[s[1]]>> \o Rest(data, s)
    <3>1. PICK D, of, to : D = LF!Value \cup {NoValue} /\ of = data /\ to = next /\ of \in [LF!Node -> D]
                           /\ Path(to, q) /\ Path(to, s)
      BY <1>5, <2>1, <2>2
    <3>2. Rest(of, q \o s) = Rest(of, q) \o <<of[s[1]]>> \o Rest(of, s)
      BY <3>1, RestJoin
    <3> QED
      BY <3>1, <3>2
  <2> QED
    BY <1>1, <1>3, <1>6, <1>7, <2>1, <2>3
<1>9. data[enq[p].new] = <<p, enq[p].n>>
  BY <1>1, LinkValue
<1>10. CarryOK(w)
  BY DEF Safe
<1>11. \A u \in Producer : LF!Carried(u)' = IF u = p THEN <<>> ELSE LF!Carried(u)
  BY <1>1, <1>6, <1>3, <1>10, <1>7 DEF OnlyPut, Carrying, LF!At, LF!Linked, CarryOK
<1>12. ACar[p] = LF!Carried(p) /\ ACar' = [ACar EXCEPT ![p] = <<>>]
  BY <1>11 DEF ACar
<1>13. LF!PutPhase(p) = "called" /\ LF!PutPhase(p)' = "done"
  BY <1>1 DEF LF!PutPhase, LF!At, LF!Linked
<1>14. APut[p].step = "called" /\ APut[p].n = enq[p].n /\ APut' = [APut EXCEPT ![p].step = "done"]
  <2>1. /\ APut' = [APut EXCEPT ![p] = [step |-> LF!PutPhase(p)', n |-> enq'[p].n]]
        /\ APut[p] = [step |-> LF!PutPhase(p), n |-> enq[p].n]
    BY <1>1, APutIs
  <2>2. [APut[p] EXCEPT !.step = "done"] = [step |-> "done", n |-> enq[p].n]
    BY <2>1
  <2>3. APut' = [APut EXCEPT ![p] = [step |-> "done", n |-> enq[p].n]]
    BY <1>1, <1>13, <2>1
  <2>4. APut' = [APut EXCEPT ![p] = [@ EXCEPT !.step = "done"]]
    BY <2>2, <2>3
  <2>5. APut[p].step = "called" /\ APut[p].n = enq[p].n
    BY <1>13, <2>1
  <2> QED
    BY <2>4, <2>5
<1>15. AGet' = AGet
  BY <1>1, AGetSame
<1>16. LF!Queued' = LF!Queued \o <<<<p, APut[p].n>>>> \o ACar[p]
  BY <1>8, <1>9, <1>12, <1>14
<1> QED
  BY <1>12, <1>14, <1>15, <1>16, FifoActions

(* Enqueue_Link: the value goes behind that of another producer.           *)
LEMMA LinkOtherMaps ==
    ASSUME LF!TypeOK, LF!Sees, NEW q, NEW w, NEW at, NEW older, Safe(q, w, at, older),
           NEW p \in Producer, LF!Enqueue_Link(p), next[enq[p].node] = LF!null,
           NEW o \in Producer, o # p, at[enq[p].node] = Of(o)
    PROVE  LF!Fifo!CarriedBy(p, o)
<1>1. /\ UNCHANGED <<data, head, deq>> /\ OnlyPut(p)
      /\ enq[p].step = "link" /\ enq'[p].step = "swing" /\ enq'[p].n = enq[p].n
      /\ Carrying(p) /\ ~Carrying(p)'
  BY Links
<1>2. /\ \E at2 : Safe(q, [w EXCEPT ![p] = <<>>, ![o] = w[o] \o w[p]], at2, older)'
      /\ Path(next, w[p]) /\ w[p][1] = enq[p].new /\ Carrying(o) /\ Path(next, w[o]) /\ Carrying(o)'
  <2>1. /\ \E at2 : Safe(q, [w EXCEPT ![p] = <<>>, ![o] = w[o] \o w[p]], at2, older)'
        /\ Path(next, w[p]) /\ w[p][1] = enq[p].new /\ Carrying(p) /\ Carrying(o)
        /\ Path(next, w[o]) /\ Carrying(o)' /\ Path(next', w[o] \o w[p])
    BY Enqueue_LinkOtherSafe, Zenon
  <2> QED
    BY <2>1, Zenon
<1>3. PICK w2 : w2 = [w EXCEPT ![p] = <<>>, ![o] = w[o] \o w[p]]
  OBVIOUS
<1>4. PICK at2 : Safe(q, w2, at2, older)'
  BY <1>2, <1>3
<1>5. data \in [LF!Node -> LF!Value \cup {NoValue}] /\ data' \in [LF!Node -> LF!Value \cup {NoValue}]
  BY <1>1 DEF LF!TypeOK
<1>6. LF!Queued' = Rest(data, q) /\ \A u \in Producer : LF!Carried(u)' = IF Carrying(u)' THEN Rest(data, w2[u]) ELSE <<>>
  BY <1>1, <1>4, <1>5, ContentsAfter
<1>7. LF!Queued = Rest(data, q) /\ \A u \in Producer : LF!Carried(u) = IF Carrying(u) THEN Rest(data, w[u]) ELSE <<>>
  BY Contents
<1>8. Rest(data, w[o] \o w[p]) = LF!Carried(o) \o <<data[enq[p].new]>> \o LF!Carried(p)
  <2>1. PICK s, t : s = w[o] /\ Path(next, s) /\ t = w[p] /\ Path(next, t) /\ t[1] = enq[p].new
    BY <1>2
  <2>2. Rest(data, s \o t) = Rest(data, s) \o <<data[t[1]]>> \o Rest(data, t)
    <3>1. PICK D, of, to : D = LF!Value \cup {NoValue} /\ of = data /\ to = next /\ of \in [LF!Node -> D]
                           /\ Path(to, s) /\ Path(to, t)
      BY <1>5, <2>1
    <3>2. Rest(of, s \o t) = Rest(of, s) \o <<of[t[1]]>> \o Rest(of, t)
      BY <3>1, RestJoin
    <3> QED
      BY <3>1, <3>2
  <2> QED
    BY <1>1, <1>2, <1>7, <2>1, <2>2
<1>9. data[enq[p].new] = <<p, enq[p].n>>
  BY <1>1, LinkValue
<1>10. DOMAIN w = Producer
  BY DEF Safe, CarryOK
<1>11. \A u \in Producer : LF!Carried(u)' = IF u = p THEN <<>> ELSE
           IF u = o THEN LF!Carried(o) \o <<<<p, enq[p].n>>>> \o LF!Carried(p) ELSE LF!Carried(u)
  BY <1>1, <1>6, <1>3, <1>10, <1>2, <1>8, <1>9, <1>7 DEF OnlyPut, Carrying, LF!At, LF!Linked
<1>12. LF!PutPhase(p) = "called" /\ LF!PutPhase(p)' = "done" /\ LF!PutPhase(o) = "called"
  BY <1>1, <1>2 DEF LF!PutPhase, LF!At, LF!Linked, Carrying
<1>13. APut[p].step = "called" /\ APut[p].n = enq[p].n /\ APut' = [APut EXCEPT ![p].step = "done"] /\ APut[o].step = "called"
  <2>1. /\ APut' = [APut EXCEPT ![p] = [step |-> LF!PutPhase(p)', n |-> enq'[p].n]]
        /\ APut[p] = [step |-> LF!PutPhase(p), n |-> enq[p].n]
        /\ \A u \in Producer : APut[u].step = LF!PutPhase(u)
    BY <1>1, APutIs
  <2>2. [APut[p] EXCEPT !.step = "done"] = [step |-> "done", n |-> enq[p].n]
    BY <2>1
  <2> QED
    BY <1>1, <1>12, <2>1, <2>2
<1>14. ACar' = [ACar EXCEPT ![o] = @ \o <<<<p, APut[p].n>>>> \o ACar[p], ![p] = <<>>]
  BY <1>11, <1>13 DEF ACar
<1>15. AGet' = AGet /\ LF!Queued' = LF!Queued
  BY <1>1, <1>6, <1>7, AGetSame
<1> QED
  BY <1>13, <1>14, <1>15, FifoActions

(* Enqueue_Swing: the call returns.                                        *)
LEMMA SwingMaps ==
    ASSUME LF!TypeOK, NEW p \in Producer, LF!Enqueue_Swing(p)
    PROVE  LF!Fifo!PutReturn(p)
<1>1. /\ enq' = [enq EXCEPT ![p] = LF!Put0(@.n)] /\ enq[p].step = "swing"
      /\ UNCHANGED <<next, data, head, deq>>
  BY DEF LF!Enqueue_Swing, LF!At, LF!nodeVars
<1>2. OnlyPut(p) /\ enq'[p].step = "idle" /\ enq'[p].n = enq[p].n
  BY <1>1 DEF LF!TypeOK, OnlyPut, LF!Put0
<1>3. \A u \in Producer : Carrying(u)' = Carrying(u) /\ (Carrying(u) => enq'[u].new = enq[u].new)
  BY <1>1, <1>2 DEF OnlyPut, Carrying, LF!At, LF!Linked
<1>4. LF!Queued' = LF!Queued /\ ACar' = ACar /\ AGet' = AGet
  BY <1>1, <1>3, SameQueue, ACarSame, AGetSame
<1>5. LF!PutPhase(p) = "done" /\ LF!PutPhase(p)' = "idle"
  BY <1>1, <1>2 DEF LF!PutPhase, LF!At, LF!Linked
<1>6. APut[p].step = "done" /\ APut' = [APut EXCEPT ![p].step = "idle"]
  <2>1. /\ APut' = [APut EXCEPT ![p] = [step |-> LF!PutPhase(p)', n |-> enq'[p].n]]
        /\ APut[p] = [step |-> LF!PutPhase(p), n |-> enq[p].n]
    BY <1>2, APutIs
  <2>2. [APut[p] EXCEPT !.step = "idle"] = [step |-> "idle", n |-> enq[p].n]
    BY <2>1
  <2>3. APut' = [APut EXCEPT ![p] = [step |-> "idle", n |-> enq[p].n]]
    BY <1>2, <1>5, <2>1
  <2>4. APut' = [APut EXCEPT ![p] = [@ EXCEPT !.step = "idle"]]
    BY <2>2, <2>3
  <2>5. APut[p].step = "done"
    BY <1>5, <2>1
  <2> QED
    BY <2>4, <2>5
<1> QED
  BY <1>4, <1>6, FifoActions

(* The accesses of Enqueue before its node is linked.                      *)
LEMMA EnqueueQuiet ==
    ASSUME LF!TypeOK, LF!Sees, NEW q, NEW w, NEW at, NEW older, Safe(q, w, at, older), NEW p \in Producer,
           \/ LF!Enqueue_Index(p) \/ LF!Enqueue_Node(p) \/ LF!Enqueue_Next(p) \/ LF!Enqueue_Help(p)
           \/ LF!Enqueue_Link(p) /\ next[enq[p].node] # LF!null
    PROVE  UNCHANGED LF!Fifo!fifoVars
<1>1. UNCHANGED <<next, data, head, deq>>
  BY DEF LF!Enqueue_Index, LF!Enqueue_Node, LF!Enqueue_Next, LF!Enqueue_Help, LF!Enqueue_Link, LF!nodeVars
<1>2. enq \in [Producer -> PutType]
  BY DEF LF!TypeOK, PutType
<1>3. /\ OnlyPut(p) /\ enq[p].step \notin {"idle", "swing"} /\ enq'[p].step \notin {"idle", "swing"}
      /\ enq'[p].n = enq[p].n /\ enq'[p].new = enq[p].new
  BY <1>2 DEF LF!Enqueue_Index, LF!At, OnlyPut, PutType, LF!Enqueue_Node, LF!Enqueue_Next, LF!Enqueue_Help,
     LF!Enqueue_Link
<1> QED
  BY <1>1, <1>3, QuietPut

(* Dequeue: the call begins.                                               *)
LEMMA DequeueMaps ==
    ASSUME LF!TypeOK, NEW c \in Consumer, LF!Dequeue(c)
    PROVE  LF!Fifo!GetCall(c)
<1>1. /\ deq' = [deq EXCEPT ![c] = [LF!Get0(NoValue) EXCEPT !.step = "index"]] /\ deq[c].step = "idle"
      /\ UNCHANGED <<next, data, head, enq>>
  BY DEF LF!Dequeue, LF!AtDeq, LF!nodeVars
<1>2. OnlyGet(c) /\ deq'[c].step = "index"
  BY <1>1 DEF LF!TypeOK, OnlyGet, LF!Get0
<1>3. LF!GetPhase(c) = "idle" /\ LF!GetPhase(c)' = "called" /\ LF!Answer(c)' = NoValue
  BY <1>1, <1>2 DEF LF!GetPhase, LF!Answer, LF!AtDeq
<1>4. /\ AGet' = [AGet EXCEPT ![c] = [step |-> LF!GetPhase(c)', value |-> LF!Answer(c)']]
      /\ AGet[c] = [step |-> LF!GetPhase(c), value |-> LF!Answer(c)]
  BY <1>2, AGetIs
<1>5. AGet[c].step = "idle" /\ AGet' = [AGet EXCEPT ![c] = [step |-> "called", value |-> NoValue]]
  BY <1>3, <1>4
<1>6. LF!Queued' = LF!Queued /\ APut' = APut
  BY <1>1, SameQueue, APutSame
<1>7. ACar' = ACar
  BY <1>1, ACarSame DEF Carrying, LF!At, LF!Linked
<1> QED
  BY <1>5, <1>6, <1>7, FifoActions

(* The call returns: with a value, or after it saw the queue empty.        *)
LEMMA GetReturns ==
    ASSUME NEW c \in Consumer, OnlyGet(c), UNCHANGED <<next, data, head, enq>>, deq'[c].step = "idle",
           \/ deq[c].step = "free" /\ deq'[c].value = deq[c].value
           \/ deq[c].step = "check" /\ seen[c] /\ deq'[c].value = NoValue
    PROVE  LF!Fifo!GetReturn(c)
<1>1. /\ LF!GetPhase(c)' = "idle" /\ LF!Answer(c)' = LF!Answer(c)
      /\ LF!GetPhase(c) = "done" \/ (LF!GetPhase(c) = "called" /\ seen[c])
  BY DEF LF!GetPhase, LF!Answer, LF!AtDeq
<1>2. /\ AGet' = [AGet EXCEPT ![c] = [step |-> LF!GetPhase(c)', value |-> LF!Answer(c)']]
      /\ AGet[c] = [step |-> LF!GetPhase(c), value |-> LF!Answer(c)]
  BY AGetIs
<1>3. AGet' = [AGet EXCEPT ![c] = [@ EXCEPT !.step = "idle"]]
  <2>1. [AGet[c] EXCEPT !.step = "idle"] = [step |-> "idle", value |-> LF!Answer(c)]
    BY <1>2
  <2>2. AGet' = [AGet EXCEPT ![c] = [step |-> "idle", value |-> LF!Answer(c)]]
    BY <1>1, <1>2
  <2> QED
    BY <2>1, <2>2
<1>4. AGet[c].step = LF!GetPhase(c)
  BY <1>2
<1>5. AGet[c].step = "done" \/ (AGet[c].step = "called" /\ seen[c])
  BY <1>1, <1>4, Zenon
<1>6. LF!Queued' = LF!Queued /\ APut' = APut
  BY SameQueue, APutSame
<1>7. ACar' = ACar
  BY ACarSame DEF Carrying, LF!At, LF!Linked
<1> QED
  BY <1>3, <1>5, <1>6, <1>7, FifoActions

LEMMA FreeMaps ==
    ASSUME LF!TypeOK, NEW c \in Consumer, LF!Dequeue_Free(c)
    PROVE  LF!Fifo!GetReturn(c)
  BY GetReturns DEF LF!Dequeue_Free, LF!AtDeq, LF!TypeOK, OnlyGet, LF!Get0

(* Dequeue_Check: the call goes on, or returns without a value.            *)
LEMMA CheckMaps ==
    ASSUME LF!TypeOK, LF!Sees, NEW q, NEW w, NEW at, NEW older, Safe(q, w, at, older),
           NEW c \in Consumer, LF!Dequeue_Check(c)
    PROVE  UNCHANGED LF!Fifo!fifoVars \/ LF!Fifo!GetReturn(c)
<1>1. UNCHANGED <<next, data, head, enq>> /\ deq[c].step = "check"
  BY DEF LF!Dequeue_Check, LF!nodeVars, LF!AtDeq
<1>2. CASE deq' = [deq EXCEPT ![c] = LF!Get0(NoValue)] /\ deq[c].next = LF!null /\ (head.index = deq[c].index \/ Elided)
  BY <1>2, <1>1, GetReturns DEF LF!TypeOK, OnlyGet, LF!Get0, Safe, GetOK
<1>3. CASE LF!Go(c, "index") \/ LF!Go(c, "help") \/ LF!Go(c, "data")
  <2>1. OnlyGet(c) /\ deq'[c].step \in {"index", "help", "data"}
    BY <1>3 DEF LF!TypeOK, OnlyGet, LF!Go
  <2> QED
    BY <1>1, <2>1, QuietGet
<1> QED
  BY <1>2, <1>3 DEF LF!Dequeue_Check

(* The other accesses of Dequeue before head is moved.                     *)
LEMMA DequeueQuiet ==
    ASSUME LF!TypeOK, LF!Sees, NEW q, NEW w, NEW at, NEW older, Safe(q, w, at, older), NEW c \in Consumer,
           \/ LF!Dequeue_Head(c) \/ LF!Dequeue_Next(c) \/ LF!Dequeue_Tail(c) \/ LF!Dequeue_Help(c) \/ LF!Dequeue_Data(c)
           \/ LF!Dequeue_Take(c) /\ ~LF!Same(head, deq[c])
    PROVE  UNCHANGED LF!Fifo!fifoVars
<1>1. UNCHANGED <<next, data, head, enq>>
  BY DEF LF!Dequeue_Head, LF!Dequeue_Next, LF!Dequeue_Tail, LF!Dequeue_Help, LF!Dequeue_Data, LF!Dequeue_Take, LF!Swing, LF!nodeVars
<1>2. deq \in [Consumer -> GetType]
  BY DEF LF!TypeOK, GetType
<1>3. OnlyGet(c) /\ deq[c].step \notin {"idle", "free"} /\ deq'[c].step \notin {"idle", "free"}
  <2>1. CASE LF!Dequeue_Head(c)
    BY <1>2, <2>1 DEF LF!Dequeue_Head, LF!AtDeq, OnlyGet, GetType
  <2>2. CASE LF!Dequeue_Next(c)
    BY <1>2, <2>2 DEF LF!Dequeue_Next, LF!AtDeq, OnlyGet, GetType
  <2>3. CASE LF!Dequeue_Tail(c)
    BY <1>2, <2>3 DEF LF!Dequeue_Tail, LF!AtDeq, OnlyGet, GetType
  <2>4. CASE LF!Dequeue_Help(c)
    BY <1>2, <2>4 DEF LF!Dequeue_Help, LF!AtDeq, OnlyGet, GetType, LF!Go
  <2>5. CASE LF!Dequeue_Data(c)
    BY <1>2, <2>5 DEF LF!Dequeue_Data, LF!AtDeq, OnlyGet, GetType
  <2>6. CASE LF!Dequeue_Take(c) /\ ~LF!Same(head, deq[c])
    BY <1>2, <2>6 DEF LF!Dequeue_Take, LF!AtDeq, OnlyGet, GetType, LF!Go
  <2> QED
    BY <2>1, <2>2, <2>3, <2>4, <2>5, <2>6
<1> QED
  BY <1>1, <1>3, QuietGet

(* The values after the second node.                                       *)
LEMMA RestTail ==
    ASSUME NEW to, NEW s, Path(to, s), Len(s) > 1, NEW D, NEW of \in [LF!Node -> D]
    PROVE  Rest(of, s) # <<>> /\ Head(Rest(of, s)) = of[s[2]] /\ Rest(of, Tail(s)) = Tail(Rest(of, s))
<1>1. PICK a, b, n : a = Rest(of, s) /\ b = Rest(of, Tail(s)) /\ n = Len(s) /\ n \in Nat /\ n > 1
  BY PathLength
<1>2. a \in Seq(D) /\ Len(a) = n - 1 /\ \A k \in 1 .. n - 1 : a[k] = of[s[k + 1]]
  <2>1. Rest(of, s) \in Seq(D) /\ Len(Rest(of, s)) = Len(s) - 1
    BY RestIs
  <2>2. Rest(of, s) = [k \in 1 .. n - 1 |-> of[s[k + 1]]]
    BY <1>1 DEF Rest
  <2> QED
    BY <1>1, <2>1, <2>2
<1>3. PICK r : r = Tail(s) /\ Len(r) = n - 1 /\ \A k \in 1 .. n - 1 : r[k] = s[k + 1]
  BY PathTail, <1>1
<1>4. b = [k \in 1 .. n - 2 |-> of[r[k + 1]]]
  BY <1>1, <1>3 DEF Rest
<1>5. a # <<>> /\ Head(a) = a[1] /\ 1 \in 1 .. n - 1
  BY <1>1, <1>2
<1>6. Tail(a) \in Seq(D) /\ Len(Tail(a)) = n - 2 /\ \A k \in 1 .. n - 2 : Tail(a)[k] = a[k + 1]
  BY <1>1, <1>2, <1>5
<1>7. Tail(a) = [k \in 1 .. n - 2 |-> Tail(a)[k]]
  BY <1>6, SeqIs
<1>8. ASSUME NEW k \in 1 .. n - 2 PROVE Tail(a)[k] = of[r[k + 1]]
  BY <1>1, <1>2, <1>3, <1>6
<1>9. b = Tail(a)
  BY <1>4, <1>7, <1>8
<1>10. a[1] = of[s[2]]
  BY <1>2, <1>5
<1> QED
  BY <1>1, <1>5, <1>9, <1>10

(* Dequeue_Take: the first value leaves the queue.                         *)
LEMMA TakeMaps ==
    ASSUME LF!TypeOK, LF!Sees, OneConsumer, NEW q, NEW w, NEW at, NEW older, Safe(q, w, at, older),
           NEW c \in Consumer, LF!Dequeue_Take(c), LF!Same(head, deq[c])
    PROVE  LF!Fifo!Get(c)
<1>1. UNCHANGED <<next, data, enq>> /\ deq[c].step = "take" /\ deq' = [deq EXCEPT ![c].step = "free"]
  BY DEF LF!Dequeue_Take, LF!AtDeq, LF!nodeVars, LF!Go
<1>2. OnlyGet(c) /\ deq'[c].step = "free" /\ deq'[c].value = deq[c].value
  BY <1>1 DEF LF!TypeOK, OnlyGet
<1>3. PICK r, at2 : r = Tail(q) /\ Safe(r, w, at2, older)'
  BY Dequeue_TakeSafe
<1>4. Len(q) > 1 /\ deq[c].value = data[q[2]]
  BY Dequeue_TakeSafe
<1>5. data \in [LF!Node -> LF!Value \cup {NoValue}] /\ data' \in [LF!Node -> LF!Value \cup {NoValue}]
  BY <1>1 DEF LF!TypeOK
<1>6. LF!Queued' = Rest(data, r) /\ \A u \in Producer : LF!Carried(u)' = IF Carrying(u)' THEN Rest(data, w[u]) ELSE <<>>
  BY <1>1, <1>3, <1>5, ContentsAfter
<1>7. LF!Queued = Rest(data, q) /\ \A u \in Producer : LF!Carried(u) = IF Carrying(u) THEN Rest(data, w[u]) ELSE <<>>
  BY Contents
<1>8. Rest(data, q) # <<>> /\ Head(Rest(data, q)) = data[q[2]] /\ Rest(data, r) = Tail(Rest(data, q))
  BY <1>5, <1>4, RestTail, <1>3 DEF Safe, QueueOK
<1>9. LF!Queued # <<>> /\ LF!Queued' = Tail(LF!Queued) /\ Head(LF!Queued) = deq[c].value
  BY <1>4, <1>6, <1>7, <1>8
<1>10. ACar' = ACar /\ APut' = APut
  BY <1>1, <1>6, <1>7, APutSame DEF Carrying, LF!At, LF!Linked, ACar
<1>11. LF!GetPhase(c) = "called" /\ LF!GetPhase(c)' = "done" /\ LF!Answer(c)' = deq[c].value
  BY <1>1, <1>2 DEF LF!GetPhase, LF!Answer, LF!AtDeq
<1>12. /\ AGet' = [AGet EXCEPT ![c] = [step |-> LF!GetPhase(c)', value |-> LF!Answer(c)']]
       /\ AGet[c] = [step |-> LF!GetPhase(c), value |-> LF!Answer(c)]
  BY <1>2, AGetIs
<1>13. AGet[c].step = "called" /\ AGet' = [AGet EXCEPT ![c] = [step |-> "done", value |-> Head(LF!Queued)]]
  <2>1. AGet[c].step = LF!GetPhase(c)
    BY <1>12
  <2>2. [step |-> LF!GetPhase(c)', value |-> LF!Answer(c)'] = [step |-> "done", value |-> Head(LF!Queued)]
    BY <1>9, <1>11
  <2> QED
    BY <1>11, <1>12, <2>1, <2>2, Zenon
<1> QED
  BY <1>9, <1>10, <1>13, FifoActions

(* Every step is one of the abstract queue, or one it does not see.        *)
LEMMA StepMaps == OneConsumer /\ QueueInv /\ [LF!Next]_(LF!vars) => [LF!Fifo!FifoNext]_(LF!Fifo!fifoVars)
<1> SUFFICES ASSUME OneConsumer, QueueInv, [LF!Next]_(LF!vars) PROVE [LF!Fifo!FifoNext]_(LF!Fifo!fifoVars)
  OBVIOUS
<1>1. LF!TypeOK /\ fresh <= 1 + LF!Calls
  BY DEF QueueInv
<1>2. PICK q, w, at, older : Safe(q, w, at, older)
  BY DEF QueueInv
<1>3. CASE UNCHANGED LF!vars
  BY <1>3, SameQueue, APutSame, AGetSame, ACarSame DEF LF!vars, LF!nodeVars, Carrying, LF!At, LF!Linked,
     LF!Fifo!fifoVars, APut, ACar, AGet
<1>4. ASSUME NEW p \in Producer, LF!Enqueue(p) \/ LF!EnqueueStep(p), LF!Sees
      PROVE  UNCHANGED LF!Fifo!fifoVars \/ LF!Fifo!PutCall(p) \/ LF!Fifo!Put(p) \/ LF!Fifo!PutReturn(p)
             \/ \E o \in Producer : LF!Fifo!CarriedBy(p, o)
  <2>1. CASE LF!Enqueue(p)
    BY <1>1, <1>2, <1>4, <2>1, EnqueueMaps
  <2>2. CASE LF!Enqueue_Index(p) \/ LF!Enqueue_Node(p) \/ LF!Enqueue_Next(p) \/ LF!Enqueue_Help(p)
             \/ (LF!Enqueue_Link(p) /\ next[enq[p].node] # LF!null)
    BY <1>1, <1>2, <1>4, <2>2, EnqueueQuiet
  <2>3. CASE LF!Enqueue_Swing(p)
    BY <1>1, <2>3, SwingMaps
  <2>4. CASE LF!Enqueue_Link(p) /\ next[enq[p].node] = LF!null
    <3>1. CASE at[enq[p].node] = InQueue
      BY <1>1, <1>2, <1>4, <2>4, <3>1, LinkQueueMaps
    <3>2. CASE at[enq[p].node] # InQueue
      <4>1. at[enq[p].node] = InQueue \/ \E u \in Producer \ {p} : at[enq[p].node] = Of(u) /\ <<p, u>> \in older
        BY <1>1, <1>2, <2>4, Links
      <4>2. PICK o \in Producer : o # p /\ at[enq[p].node] = Of(o)
        BY <3>2, <4>1
      <4>3. LF!Fifo!CarriedBy(p, o)
        BY <1>1, <1>2, <1>4, <2>4, <4>2, LinkOtherMaps
      <4> QED
        BY <4>3
    <3> QED
      BY <3>1, <3>2
  <2> QED
    BY <1>4, <2>1, <2>2, <2>3, <2>4 DEF LF!EnqueueStep
<1>5. ASSUME NEW c \in Consumer, LF!Dequeue(c) \/ LF!DequeueStep(c), LF!Sees
      PROVE  UNCHANGED LF!Fifo!fifoVars \/ LF!Fifo!GetCall(c) \/ LF!Fifo!Get(c) \/ LF!Fifo!GetReturn(c)
  BY <1>1, DequeueMaps, <1>2, <1>5, DequeueQuiet, CheckMaps, TakeMaps, FreeMaps DEF LF!DequeueStep
<1>6. LF!Sees => LF!Fifo!Sees
  BY SeesMaps
<1> QED
  BY <1>3, <1>4, <1>5, <1>6 DEF LF!Next, LF!Fifo!FifoNext

LEMMA InitMaps == LF!Init => LF!Fifo!FifoInit
<1> SUFFICES ASSUME LF!Init PROVE LF!Fifo!FifoInit
  OBVIOUS
<1>1. QueueInv
  BY QueueInit
<1>2. PICK q, w, at, older : Safe(q, w, at, older)
  BY <1>1 DEF QueueInv
<1>3. /\ \A p \in Producer : enq[p].step = "idle" /\ enq[p].n = 0
      /\ \A c \in Consumer : deq[c].step = "idle" /\ deq[c].value = NoValue
      /\ seen = [c \in Consumer |-> FALSE]
  BY DEF LF!Init, LF!Put0, LF!Get0
<1>4. LF!Queued = <<>>
  <2>1. next[1] = LF!null /\ head.node = 1 /\ 1 \in LF!Node
    BY LockFreeQueueAssumption DEF LF!Init, LF!Node
  <2>2. PICK s : s = <<1>> /\ Path(next, s) /\ s[1] = head.node
    BY <2>1, PathOne
  <2>3. data \in [LF!Node -> LF!Value \cup {NoValue}]
    BY <1>1 DEF QueueInv, LF!TypeOK
  <2>4. Tail([k \in DOMAIN LF!Chain(next, s[1]) |-> data[LF!Chain(next, s[1])[k]]]) = Rest(data, s)
    <3>1. PICK D, of, to : D = LF!Value \cup {NoValue} /\ of = data /\ to = next /\ of \in [LF!Node -> D] /\ Path(to, s)
      BY <2>2, <2>3
    <3>2. Tail([k \in DOMAIN LF!Chain(to, s[1]) |-> of[LF!Chain(to, s[1])[k]]]) = Rest(of, s)
      BY <3>1, RestIs
    <3> QED
      BY <3>1, <3>2
  <2>5. Rest(data, s) = <<>>
    BY <2>2 DEF Rest
  <2> QED
    BY <2>2, <2>4, <2>5 DEF LF!Queued, LF!Values
<1>5. [p \in Producer |-> [step |-> LF!PutPhase(p), n |-> enq[p].n]] = [p \in Producer |-> [step |-> "idle", n |-> 0]]
  BY <1>3 DEF LF!PutPhase, LF!At
<1>6. [p \in Producer |-> LF!Carried(p)] = [p \in Producer |-> <<>>]
  BY <1>3 DEF LF!Carried, LF!At
<1>7. [c \in Consumer |-> [step |-> LF!GetPhase(c), value |-> LF!Answer(c)]]
          = [c \in Consumer |-> [step |-> "idle", value |-> NoValue]]
  BY <1>3 DEF LF!GetPhase, LF!Answer, LF!AtDeq
<1> QED
  BY <1>3, <1>4, <1>5, <1>6, <1>7 DEF LF!Fifo!FifoInit

(* cLockFreeQueue implements FifoQueue: each Enqueue and each Dequeue takes *)
(* effect at one moment of its call, values leave in the order in which    *)
(* they entered, once, none is lost, and a Dequeue answers "empty" only if *)
(* the queue was empty during the call.                                    *)
THEOREM ImplementsFifoAlways == OneConsumer => (LF!Spec => ImplementsFifo)
<1> SUFFICES ASSUME OneConsumer PROVE LF!Spec => ImplementsFifo
  OBVIOUS
<1>1. LF!Init => QueueInv /\ LF!Fifo!FifoInit
  BY QueueInit, InitMaps
<1>2. QueueInv /\ [LF!Next]_(LF!vars) => QueueInv' /\ [LF!Fifo!FifoNext]_(LF!Fifo!fifoVars)
  BY QueueStep, StepMaps
<1> QED
  BY <1>1, <1>2, PTL DEF LF!Spec, ImplementsFifo, LF!Fifo!FifoSpec

=============================================================================
