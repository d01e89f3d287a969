-------------------------- MODULE HttpLoginProofs --------------------------
(* The slots of the HTTP library come back, a request ends once, and a     *)
(* login is answered once and needs both answers: for any number of slots, *)
(* workers, clients and faults, at both servers.                           *)
EXTENDS HttpLogin, Queues, FiniteSetTheorems, TLAPS

-----------------------------------------------------------------------------
(* What a queue holds when its head is taken or others are added.          *)

(* The tail of a queue is the queue without its first element.             *)
LEMMA TailElements ==
    ASSUME NEW S, NEW s \in Seq(S), s # <<>>
    PROVE  /\ Head(s) \in S /\ Tail(s) \in Seq(S)
           /\ 1 \in DOMAIN s /\ Head(s) = s[1]
           /\ \A i \in DOMAIN Tail(s) : i + 1 \in DOMAIN s /\ Tail(s)[i] = s[i + 1]
           /\ \A i \in DOMAIN s : i # 1 => i - 1 \in DOMAIN Tail(s) /\ Tail(s)[i - 1] = s[i]
  OBVIOUS

(* Two queues joined hold the elements of the first, then of the second.   *)
LEMMA JoinElements ==
    ASSUME NEW S, NEW s \in Seq(S), NEW t \in Seq(S)
    PROVE  /\ s \o t \in Seq(S)
           /\ \A i \in DOMAIN s : i \in DOMAIN (s \o t) /\ (s \o t)[i] = s[i]
           /\ \A i \in DOMAIN t : /\ Len(s) + i \in DOMAIN (s \o t)
                                  /\ (s \o t)[Len(s) + i] = t[i]
           /\ \A i \in DOMAIN (s \o t) :
                i \notin DOMAIN s => i - Len(s) \in DOMAIN t /\ (s \o t)[i] = t[i - Len(s)]
           /\ \A i \in DOMAIN s : i \in 1 .. Len(s)
           /\ \A i \in DOMAIN t : i >= 1
           /\ Len(s) \in Nat
  OBVIOUS

(* The queue holds something of X iff its head or its tail does.           *)
LEMMA HoldsTail ==
    ASSUME NEW S, NEW s \in Seq(S), s # <<>>, NEW X
    PROVE  Holds(s, X) <=> Head(s) \in X \/ Holds(Tail(s), X)
  BY TailElements DEF Holds

(* Two queues joined hold something of X iff one of them does.             *)
LEMMA HoldsJoin ==
    ASSUME NEW S, NEW s \in Seq(S), NEW t \in Seq(S), NEW X
    PROVE  Holds(s \o t, X) <=> Holds(s, X) \/ Holds(t, X)
<1> DEFINE u == s \o t
<1>1. /\ \A i \in DOMAIN s : i \in DOMAIN u /\ u[i] = s[i]
      /\ \A i \in DOMAIN t : Len(s) + i \in DOMAIN u /\ u[Len(s) + i] = t[i]
      /\ \A i \in DOMAIN u :
           i \notin DOMAIN s => i - Len(s) \in DOMAIN t /\ u[i] = t[i - Len(s)]
  BY JoinElements
<1> HIDE DEF u
<1>2. Holds(s, X) \/ Holds(t, X) => Holds(u, X)
  BY <1>1 DEF Holds
<1>3. Holds(u, X) => Holds(s, X) \/ Holds(t, X)
  BY <1>1 DEF Holds
<1> QED
  BY <1>2, <1>3 DEF u

(* Append is a join with a queue of one.                                   *)
LEMMA AppendIsJoin ==
    ASSUME NEW S, NEW s \in Seq(S), NEW x \in S
    PROVE  /\ Append(s, x) = s \o <<x>>
           /\ Append(s, x) \in Seq(S) /\ <<x>> \in Seq(S)
  OBVIOUS

(* Once the only element of X has been taken none is left.                 *)
LEMMA HoldsOneTail ==
    ASSUME NEW S, NEW s \in Seq(S), s # <<>>, NEW X, HoldsOne(s, X)
    PROVE  /\ HoldsOne(Tail(s), X)
           /\ Head(s) \in X => ~Holds(Tail(s), X)
  BY TailElements DEF HoldsOne, Holds

(* Two queues that hold one of X at most, and not both one, still do when  *)
(* joined.                                                                 *)
LEMMA HoldsOneJoin ==
    ASSUME NEW S, NEW s \in Seq(S), NEW t \in Seq(S), NEW X,
           HoldsOne(s, X), HoldsOne(t, X), ~Holds(s, X) \/ ~Holds(t, X)
    PROVE  HoldsOne(s \o t, X)
  BY JoinElements DEF HoldsOne, Holds

-----------------------------------------------------------------------------
(* What a queue holds after a step: every step leaves the queue or its     *)
(* tail, and adds messages at the end.                                     *)

(* The same for a queue to which some messages are added.                  *)
LEMMA QueueJoin ==
    ASSUME NEW S, NEW q \in Seq(S), NEW t \in Seq(S), NEW X
    PROVE  /\ q \o t \in Seq(S)
           /\ Holds(q \o t, X) <=> Holds(q, X) \/ Holds(t, X)
           /\ HoldsOne(q, X) /\ HoldsOne(t, X) /\ ~(Holds(q, X) /\ Holds(t, X))
                => HoldsOne(q \o t, X)
  BY HoldsJoin, HoldsOneJoin, JoinElements

(* What a queue's head says of the whole queue.                            *)
LEMMA QueueTake ==
    ASSUME NEW S, NEW q \in Seq(S), q # <<>>, NEW X
    PROVE  /\ Head(q) \in S /\ Tail(q) \in Seq(S)
           /\ Holds(q, X) <=> Head(q) \in X \/ Holds(Tail(q), X)
           /\ HoldsOne(q, X) => /\ HoldsOne(Tail(q), X)
                                /\ Head(q) \in X => ~Holds(Tail(q), X)
  BY HoldsTail, HoldsOneTail, TailElements

(* The queue with nothing added, with one element, and short ones.         *)
LEMMA QueueEnd ==
    ASSUME NEW S, NEW q \in Seq(S)
    PROVE  /\ q \o <<>> = q /\ <<>> \o q = q
           /\ <<>> \in Seq(S)
           /\ \A x \in S : <<x>> \in Seq(S) /\ Append(q, x) = q \o <<x>>
           /\ \A x, y \in S : <<x, y>> \in Seq(S)
  BY AppendIsJoin

(* What queues of no, one and two elements hold.                           *)
LEMMA HoldsFew ==
    ASSUME NEW x, NEW y, NEW X
    PROVE  /\ ~Holds(<<>>, X) /\ HoldsOne(<<>>, X)
           /\ (Holds(<<x>>, X) <=> x \in X) /\ HoldsOne(<<x>>, X)
           /\ Holds(<<x, y>>, X) <=> x \in X \/ y \in X
           /\ ~(x \in X /\ y \in X) => HoldsOne(<<x, y>>, X)
  BY DEF Holds, HoldsOne

-----------------------------------------------------------------------------
(* Types.                                                                  *)

(* The types of all variables; that of the queue is needed as a sequence.  *)
TypeInv == TypeOK /\ msgQueue \in Seq(Message)

WorkerRec == [pc : {"idle", "send", "release"}, slot : Slot \cup {NoSlot}]
ThreadRec == [pc : {"check", "drowsy", "asleep"}]
             \cup [pc : {"found"}, clientID : Named, req : ReqType, ok : BOOLEAN]
             \cup [pc : {"failing"}, clientID : Named, req : ReqType]
InfoRec   == [requestID : Nat, slot : Slot, clientID : Named, type : ReqType,
              bRecv : BOOLEAN, late : BOOLEAN]

(* What the handlers put into the queue are messages, and a message of     *)
(* each type has its fields.                                               *)
LEMMA MessageTypes ==
    /\ \A c \in Named, req \in ReqType : Send_Message(c, req) \in Message
    /\ \A id \in Nat : /\ [type |-> "LEAVE", requestID |-> id] \in Message
                       /\ \A code \in {"ok", "refused", "error"} : Recv_Message(id, code) \in Message
    /\ [type |-> "HEARTBEAT"] \in Message
    /\ \A m \in Message :
         /\ m.type = "SEND" => /\ m.clientID \in Named /\ m.req \in ReqType /\ m.young \in BOOLEAN
                               /\ [m EXCEPT !.young = FALSE] \in Message
         /\ m.type = "RECV" => m.requestID \in Nat /\ m.code \in {"ok", "refused", "error"}
         /\ m.type = "LEAVE" => m.requestID \in Nat
  BY DEF Message, Send_Message, Recv_Message

(* Clients, seats, and the seat a client has.                              *)
LEMMA SeatTypes ==
    ASSUME TypeOK, HttpLoginAssumption
    PROVE  /\ \A c \in Client : SeatOf(c) \in Seat
           /\ Seat \subseteq Client /\ 1 \in Client
           /\ side \in {"Match", "Battle"}
           /\ 1 \in Seat
           /\ \A p \in Seat : seat[p] \in SeatRec
           /\ EmptySeat \in SeatRec
           /\ arrived \in Nat /\ MaxClient \in Nat /\ 0 \notin Client
           /\ Client \subseteq Named /\ Named = Client \cup {0}
  BY SMT DEF TypeOK, HttpLoginAssumption, SeatOf, Seat, Client, Named, EmptySeat, SeatRec

(* The types of the variables one by one.                                  *)
LEMMA HttpTypes ==
    ASSUME TypeInv
    PROVE  /\ slot \in [Slot -> SlotRec] /\ indexQueue \in Seq(Slot) /\ curID \in Nat
           /\ worker \in [Worker -> WorkerRec] /\ msgQueue \in Seq(Message)
           /\ thread \in ThreadRec /\ infoList \subseteq InfoRec
           /\ seat \in [Seat -> SeatRec] /\ arrived \in 0 .. MaxClient
  BY DEF TypeInv, TypeOK, WorkerRec, ThreadRec, InfoRec

(* A step that leaves the server's part alone but for the queue.           *)
LEMMA QueueTyped ==
    ASSUME NEW q \in Seq(Message)
    PROVE  \A m \in DOMAIN q : q[m] \in Message
  OBVIOUS

(* Waking the message thread keeps its type.                               *)
LEMMA WakeTyped ==
    ASSUME thread \in ThreadRec, Wake
    PROVE  thread' \in ThreadRec
  BY DEF Wake, ThreadRec

(* Messages added to the queue keep its type.                              *)
LEMMA PostTyped ==
    ASSUME TypeInv, NEW t \in Seq(Message), Enqueue(t)
    PROVE  msgQueue' \in Seq(Message)
  BY QueueJoin DEF TypeInv, Enqueue

(* What a step of the library may change.                                  *)
HttpTyped ==
    /\ slot' \in [Slot -> SlotRec]
    /\ indexQueue' \in Seq(Slot)
    /\ curID' \in Nat
    /\ worker' \in [Worker -> WorkerRec]

(* A worker that goes on has a place.                                      *)
LEMMA GotoTyped ==
    ASSUME TypeInv, NEW w \in Worker, NEW pc \in {"idle", "send", "release"},
           NEW i \in Slot \cup {NoSlot}, Goto(w, pc, i)
    PROVE  worker' \in [Worker -> WorkerRec]
  BY DEF TypeInv, TypeOK, Goto, WorkerRec

(* One slot changed keeps the type of all.                                 *)
LEMMA SlotTyped ==
    ASSUME TypeInv, NEW i \in Slot, NEW r \in SlotRec, slot' = [slot EXCEPT ![i] = r]
    PROVE  slot' \in [Slot -> SlotRec]
  BY DEF TypeInv, TypeOK

(* The end of a connect, failed or not, and of a receive of nothing.       *)
LEMMA ConnTyped ==
    ASSUME TypeInv, NEW w \in Worker, NEW i \in Slot,
           Conn_Complete(w, i) \/ Conn_Complete_Fail(w, i) \/ Recv_Zero(w, i)
    PROVE  HttpTyped /\ UNCHANGED <<indexQueue, curID, msgQueue, thread>>
<1>0. slot[i] \in SlotRec
  BY DEF TypeInv, TypeOK
<1>1. CASE Conn_Complete(w, i)
  BY <1>0, <1>1, SlotTyped, GotoTyped DEF SlotRec, Conn_Complete, TypeInv, TypeOK, HttpTyped
<1>2. CASE Conn_Complete_Fail(w, i) \/ Recv_Zero(w, i)
  <2>1. [slot[i] EXCEPT !.pending = "none"] \in SlotRec
    BY <1>0 DEF SlotRec
  <2>2. slot' = [slot EXCEPT ![i] = [slot[i] EXCEPT !.pending = "none"]]
    BY <1>2 DEF Conn_Complete_Fail, Recv_Zero
  <2>3. Goto(w, "release", i) /\ UNCHANGED <<indexQueue, curID, msgQueue, thread>>
    BY <1>2 DEF Conn_Complete_Fail, Recv_Zero
  <2> QED
    BY <2>1, <2>2, <2>3, SlotTyped, GotoTyped DEF HttpTyped, TypeInv, TypeOK
<1> QED
  BY <1>1, <1>2

(* The request is sent, and the answer awaited.                            *)
LEMMA SendTyped ==
    ASSUME TypeInv, NEW w \in Worker, worker[w].slot \in Slot, Conn_Complete_Send(w)
    PROVE  HttpTyped /\ UNCHANGED <<indexQueue, curID, msgQueue, thread>>
<1> DEFINE i == worker[w].slot
<1>1. i \in Slot /\ slot[i] \in SlotRec
  BY DEF TypeInv, TypeOK
<1>2. PICK r \in {[slot[i] EXCEPT !.sock = "asked"],
                  [slot[i] EXCEPT !.sock = "asked", !.silent = TRUE], Cut(slot[i])} :
        slot' = [slot EXCEPT ![i] = r]
  BY <1>1 DEF Conn_Complete_Send, TypeInv, TypeOK
<1>3. r \in SlotRec
  BY <1>1 DEF Cut, SlotRec
<1>4. slot' \in [Slot -> SlotRec]
  BY <1>1, <1>2, <1>3, SlotTyped
<1>5. Goto(w, "idle", NoSlot) /\ UNCHANGED <<indexQueue, curID, msgQueue, thread>>
  BY DEF Conn_Complete_Send
<1> QED
  BY <1>4, <1>5, GotoTyped DEF TypeInv, TypeOK, HttpTyped

(* What may arrive after a piece of a response is a piece of a response.   *)
LEMMA GotTypes ==
    \A got \in Got : MoreOf(got) \subseteq Got
  BY DEF Got, MoreOf

(* What a receive does when got is what has arrived and todo what is made  *)
(* of it.                                                                  *)
RecvStep(w, i, got, todo) ==
    /\ TakeCompletion(w, i, "recv")
    /\ slot[i].sock = "asked"
    /\ slot' = [slot EXCEPT ![i].got = got,
                            ![i].pending = IF todo = "post" THEN "recv" ELSE "none"]
    /\ IF todo \in {"answer", "fail"}
       THEN /\ \E code \in IF todo = "fail" THEN {"error"} ELSE {"ok", "refused"} :
                   Post(Recv_Message(slot[i].requestID, code))
            /\ Goto(w, "release", i)
       ELSE UNCHANGED <<worker, msgQueue, thread>>
    /\ UNCHANGED <<indexQueue, curID>>

(* A piece of a response arrives.                                          *)
LEMMA RecvTyped ==
    ASSUME TypeInv, NEW w \in Worker, NEW i \in Slot, Recv_Complete(w, i)
    PROVE  HttpTyped /\ msgQueue' \in Seq(Message) /\ thread' \in ThreadRec
<1>0. slot[i] \in SlotRec /\ thread \in ThreadRec
  BY DEF TypeInv, TypeOK, ThreadRec
<1>1. PICK got \in MoreOf(slot[i].got) :
        \E todo \in Reading(got, slot[i].text) : RecvStep(w, i, got, todo)
  BY DEF Recv_Complete, RecvStep
<1>6. PICK todo \in Reading(got, slot[i].text) : RecvStep(w, i, got, todo)
  BY <1>1
<1>2. got \in Got
  BY <1>0, <1>1, GotTypes DEF SlotRec
<1>3. slot' \in [Slot -> SlotRec]
  BY <1>0, <1>6, <1>2 DEF RecvStep, TypeInv, TypeOK, SlotRec
<1>4. CASE todo \in {"answer", "fail"}
  <2>1. PICK code \in {"error", "ok", "refused"} : Post(Recv_Message(slot[i].requestID, code))
    BY <1>6, <1>4 DEF RecvStep
  <2>2. Recv_Message(slot[i].requestID, code) \in Message
    BY <1>0, <2>1, MessageTypes DEF SlotRec
  <2>3. msgQueue' \in Seq(Message) /\ thread' \in ThreadRec
    BY <1>0, <2>1, <2>2, PostTyped, WakeTyped, QueueEnd DEF Post, TypeInv
  <2> QED
    BY <1>6, <1>3, <1>4, <2>3, GotoTyped DEF RecvStep, HttpTyped, TypeInv, TypeOK
<1>5. CASE todo \notin {"answer", "fail"}
  BY <1>0, <1>6, <1>3, <1>5 DEF RecvStep, HttpTyped, TypeInv, TypeOK, WorkerRec
<1> QED
  BY <1>4, <1>5

(* The slot is released.                                                   *)
LEMMA ReleaseTyped ==
    ASSUME TypeInv, NEW w \in Worker, worker[w].slot \in Slot, ReleaseSession(w)
    PROVE  HttpTyped /\ msgQueue' \in Seq(Message) /\ thread' \in ThreadRec
<1> DEFINE i == worker[w].slot
           t == IF ~slot[i].bDisconnect
                THEN <<[type |-> "LEAVE", requestID |-> slot[i].requestID]>> ELSE <<>>
<1>0. slot[i] \in SlotRec /\ thread \in ThreadRec
  BY DEF TypeInv, TypeOK, ThreadRec
<1>1. InitializeSession(Closed(slot[i])) \in SlotRec
  BY <1>0 DEF InitializeSession, Closed, SlotRec, Text, Got
<1>2. slot' \in [Slot -> SlotRec]
  BY <1>0, <1>1 DEF ReleaseSession, TypeInv, TypeOK
<1>3. t \in Seq(Message)
  BY <1>0, MessageTypes, QueueEnd DEF SlotRec, TypeInv
<1>4. Enqueue(t) /\ Wake
  BY DEF ReleaseSession
<1>5. msgQueue' \in Seq(Message) /\ thread' \in ThreadRec
  BY <1>0, <1>3, <1>4, PostTyped, WakeTyped
<1>6. indexQueue' \in Seq(Slot)
  BY DEF ReleaseSession, TypeInv, TypeOK
<1> QED
  BY <1>2, <1>5, <1>6 DEF HttpTyped, ReleaseSession, Goto, TypeInv, TypeOK, WorkerRec

(* DirectRequestbyHttp: the head of indexQueue is connecting, is kept      *)
(* although it has no socket, or comes back at once.                       *)
Taken      == [slot[Head(indexQueue)] EXCEPT !.requestID = curID + 1]
Connecting == [Taken EXCEPT !.bDisconnect = FALSE, !.sock = "connecting", !.pending = "conn"]
Kept(how)  == \/ how = "connecting"
              \/ how = "no_socket" /\ slot[Head(indexQueue)].bDisconnect

(* What becomes of the head of indexQueue, and of the slots in hand.       *)
LEMMA DirectIs ==
    ASSUME TypeInv, NEW how \in {"connecting", "no_socket", "no_connect"}, DirectRequestbyHttp(how)
    PROVE  /\ Head(indexQueue) \in Slot /\ indexQueue # <<>>
           /\ curID' = curID + 1 /\ UNCHANGED worker
           /\ LeftAtOnce(how) <=> ~Kept(how)
           /\ indexQueue' = IF Kept(how) THEN Tail(indexQueue)
                            ELSE Append(Tail(indexQueue), Head(indexQueue))
           /\ \E r \in SlotRec :
                 /\ slot' = [slot EXCEPT ![Head(indexQueue)] = r]
                 /\ how = "connecting" => r = Connecting
                 /\ how = "no_socket" /\ Kept(how) => r = Taken
                 /\ ~Kept(how) => /\ r.requestID = 0 /\ r.sock = "closed"
                                  /\ r.pending = slot[Head(indexQueue)].pending
<1> DEFINE i     == Head(indexQueue)
           taken == [slot[i] EXCEPT !.requestID = curID + 1]
           tried == IF how = "no_socket" THEN taken ELSE Conn_Post(taken)
           kept  == how = "connecting" \/ tried.bDisconnect
           r     == IF how = "connecting"
                    THEN [tried EXCEPT !.sock = "connecting", !.pending = "conn"]
                    ELSE IF kept THEN tried
                    ELSE InitializeSession(Closed(tried))
<1>1. indexQueue # <<>> /\ indexQueue \in Seq(Slot) /\ i \in Slot
  BY QueueTake DEF DirectRequestbyHttp, TypeInv, TypeOK
<1>2. slot[i] \in SlotRec /\ taken \in SlotRec /\ curID + 1 \in Nat
  <2>1. slot[i] \in SlotRec /\ curID + 1 \in Nat
    BY <1>1, HttpTypes
  <2> QED
    BY <2>1 DEF SlotRec
<1>3. tried \in SlotRec /\ (how # "no_socket" => tried.bDisconnect = FALSE)
  BY <1>2 DEF Conn_Post, SlotRec
<1>15. slot[i].bDisconnect \in BOOLEAN /\ (how = "no_socket" => tried.bDisconnect = slot[i].bDisconnect)
  BY <1>2 DEF SlotRec
<1>4. (kept <=> Kept(how)) /\ (LeftAtOnce(how) <=> ~Kept(how))
  <2> HIDE DEF tried
  <2>1. CASE how = "connecting"
    BY <2>1 DEF Kept, LeftAtOnce
  <2>2. CASE how = "no_connect"
    BY <1>3, <2>2 DEF Kept, LeftAtOnce
  <2>3. CASE how = "no_socket"
    BY <1>15, <2>3, Zenon DEF Kept, LeftAtOnce
  <2> QED
    BY <2>1, <2>2, <2>3
<1>6. how = "connecting" => r = Connecting
  <2>1. how = "connecting" => tried = [taken EXCEPT !.bDisconnect = FALSE]
    BY DEF Conn_Post
  <2>2. taken = Taken
    BY DEF Taken
  <2> HIDE DEF taken, tried, kept
  <2>3. how = "connecting" => r = [tried EXCEPT !.sock = "connecting", !.pending = "conn"]
    OBVIOUS
  <2> HIDE DEF r
  <2> QED
    BY <1>2, <2>1, <2>2, <2>3 DEF Connecting, SlotRec
<1>7. how = "no_socket" /\ Kept(how) => r = Taken
  BY <1>4 DEF Taken
<1>8. ~Kept(how) => r = InitializeSession(Closed(tried))
  BY <1>4 DEF Kept
<1>9. InitializeSession(Closed(tried)) \in SlotRec
  <2>1. Closed(tried) \in SlotRec
    BY <1>3 DEF Closed, SlotRec
  <2> HIDE DEF tried
  <2> QED
    BY <2>1 DEF InitializeSession, SlotRec, Text, Got
<1>10. /\ InitializeSession(Closed(tried)).requestID = 0
       /\ InitializeSession(Closed(tried)).sock = "closed"
       /\ InitializeSession(Closed(tried)).pending = tried.pending
       /\ tried.pending = slot[i].pending
  <2>1. tried.pending = slot[i].pending
    BY <1>2 DEF Conn_Post, SlotRec
  <2> HIDE DEF tried
  <2> QED
    BY <1>3, <2>1 DEF InitializeSession, Closed, SlotRec
<1>11. Connecting \in SlotRec /\ Taken \in SlotRec
  BY <1>2 DEF Connecting, Taken, SlotRec
<1>12. r \in SlotRec
  <2> HIDE DEF r
  <2> QED
    BY <1>6, <1>7, <1>8, <1>9, <1>11 DEF Kept
<1>13. /\ curID' = curID + 1 /\ UNCHANGED worker
       /\ slot' = [slot EXCEPT ![i] = r]
       /\ indexQueue' = IF kept THEN Tail(indexQueue) ELSE Append(Tail(indexQueue), i)
  BY DEF DirectRequestbyHttp
<1> HIDE DEF r, kept, tried
<1>14. /\ how = "connecting" => r = Connecting
       /\ how = "no_socket" /\ Kept(how) => r = Taken
       /\ ~Kept(how) => r.requestID = 0 /\ r.sock = "closed" /\ r.pending = slot[i].pending
  BY <1>6, <1>7, <1>8, <1>10
<1> QED
  BY <1>1, <1>4, <1>12, <1>13, <1>14

(* What is put back into the queue when a request of c fails, and what the *)
(* thread goes on with at the Battle server.                               *)
Resent(c, req) ==
    IF side = "Match" /\ Own(c) /\ Resends(seat[SeatOf(c)])
    THEN <<Send_Message(c, req)>> ELSE <<>>
Failing(c, req) ==
    IF side = "Battle" /\ Present(c)
    THEN [pc |-> "failing", clientID |-> c, req |-> req] ELSE thread
Failed(s, twice) == IF side = "Match" THEN Again(Twice(s, twice), TRUE) ELSE Twice(s, twice)

(* A failure counted in a seat.                                            *)
LEMMA AgainTyped ==
    ASSUME NEW s \in SeatRec, NEW own \in BOOLEAN
    PROVE  Again(s, own) \in SeatRec
<1> DEFINE d == s.disconnect \/ (s.clientID # 0 /\ s.failCount + 1 > FailLimit)
           e == s.excused \cup Stray(own)
           n == s.failCount + 1
<1>1. d \in BOOLEAN /\ e \in SUBSET Exception
  BY DEF Stray, Exception, SeatRec
<1>2. n \in Nat
  BY DEF SeatRec
<1>3. Again(s, own) = [s EXCEPT !.failCount = n, !.disconnect = d, !.excused = e]
  BY DEF Again
<1> HIDE DEF d, e, n
<1> QED
  BY <1>1, <1>2, <1>3 DEF SeatRec

LEMMA FailedTyped ==
    ASSUME NEW s \in SeatRec, NEW twice \in BOOLEAN
    PROVE  Failed(s, twice) \in SeatRec
<1>1. Twice(s, twice) \in SeatRec
  <2> DEFINE e == s.excused \cup IF twice THEN {"twice"} ELSE {}
  <2>1. e \in SUBSET Exception /\ Twice(s, twice) = [s EXCEPT !.excused = e]
    BY DEF Twice, SeatRec, Exception
  <2> HIDE DEF e
  <2> QED
    BY <2>1 DEF SeatRec
<1> QED
  BY <1>1, AgainTyped DEF Failed

(* What a failure does to the queue, the thread and the seat.              *)
LEMMA FailIs ==
    ASSUME TypeInv, HttpLoginAssumption, NEW c \in Named, NEW req \in ReqType,
           NEW twice \in BOOLEAN, NEW left \in Seq(Message), msgQueue # <<>>,
           Fail_HttpRequest(c, req, twice, left)
    PROVE  /\ Resent(c, req) \in Seq(Message)
           /\ msgQueue' = (Tail(msgQueue) \o left) \o Resent(c, req)
           /\ msgQueue' \in Seq(Message)
           /\ seat' \in [Seat -> SeatRec]
           /\ thread' = Failing(c, req) /\ thread' \in ThreadRec
           /\ Own(c) => seat' = [seat EXCEPT ![SeatOf(c)] = Failed(@, twice)]
           /\ ~Own(c) => seat' = seat
<1> DEFINE rest == Tail(msgQueue) \o left
<1>1. msgQueue \in Seq(Message) /\ Tail(msgQueue) \in Seq(Message)
  BY HttpTypes, QueueTake
<1>2. rest \in Seq(Message)
  BY <1>1, QueueJoin
<1>3. Resent(c, req) \in Seq(Message)
  BY <1>1, MessageTypes, QueueEnd DEF Resent
<1>4. rest \o Resent(c, req) \in Seq(Message) /\ rest \o <<>> = rest
  BY <1>2, <1>3, QueueJoin, QueueEnd
<1>5. msgQueue' = rest \o Resent(c, req)
  BY <1>4 DEF Fail_HttpRequest, Resent
<1>6. Own(c) => seat' = [seat EXCEPT ![SeatOf(c)] = Failed(@, twice)]
  BY DEF Fail_HttpRequest, Failed
<1>7. ~Own(c) => seat' = seat
  BY DEF Fail_HttpRequest
<1>8. seat \in [Seat -> SeatRec] /\ (SeatOf(c) \in Seat => seat[SeatOf(c)] \in SeatRec)
  BY HttpTypes
<1>9. SeatOf(c) \in Seat => Failed(seat[SeatOf(c)], twice) \in SeatRec
  BY <1>8, FailedTyped
<1>10. seat' \in [Seat -> SeatRec]
  BY <1>6, <1>7, <1>8, <1>9
<1>11. thread' = Failing(c, req)
  BY DEF Fail_HttpRequest, Failing
<1>12. Failing(c, req) \in ThreadRec
  BY HttpTypes DEF Failing, ThreadRec
<1> QED
  BY <1>3, <1>4, <1>5, <1>6, <1>7, <1>10, <1>11, <1>12

(* The parts of the server's state.                                        *)
ServerTyped ==
    /\ msgQueue' \in Seq(Message) /\ thread' \in ThreadRec
    /\ infoList' \subseteq InfoRec /\ seat' \in [Seat -> SeatRec]
    /\ arrived' \in 0 .. MaxClient /\ side' = side

(* The parts of the library and of the server together are TypeInv.        *)
LEMMA TypedNext ==
    ASSUME TypeInv, HttpTyped, ServerTyped
    PROVE  TypeInv' /\ Seat' = Seat
  BY QueueTyped DEF ServerTyped, Seat, TypeInv, TypeOK, HttpTyped, WorkerRec, ThreadRec, InfoRec

(* A step outside of the library.                                          *)
LEMMA HttpUnchanged ==
    ASSUME TypeInv, UNCHANGED httpVars
    PROVE  HttpTyped
  BY HttpTypes DEF HttpTyped, httpVars

-----------------------------------------------------------------------------
(* Clients.                                                                *)

ClientAction ==
    \/ OnClientJoin
    \/ \E c \in Client : Login(c) \/ OnClientLeave(c) \/ Response_Player_Record(c)

(* An answer changes a seat into a seat.                                   *)
LEMMA AnswerTyped ==
    ASSUME NEW s \in SeatRec
    PROVE  /\ Receive_HttpRequest_SessionKey(s) \in SeatRec
           /\ \A ok \in BOOLEAN : Response_Player_Login(s, ok) \in SeatRec
           /\ \A ok, own \in BOOLEAN, req \in ReqType :
                Receive_HttpRequest_Search(s, req, ok, own) \in SeatRec
<1>1. \A r \in SeatRec, ok \in BOOLEAN : Response_Player_Login(r, ok) \in SeatRec
  <2> SUFFICES ASSUME NEW r \in SeatRec, NEW ok \in BOOLEAN
               PROVE  Response_Player_Login(r, ok) \in SeatRec
    OBVIOUS
  <2>1. r.answers + 1 \in Nat
    BY DEF SeatRec
  <2>2. [r EXCEPT !.bSendLoginResult = TRUE, !.bLogin = ok, !.answers = @ + 1] \in SeatRec
    BY <2>1 DEF SeatRec
  <2> QED
    BY <2>2 DEF Response_Player_Login
<1>2. ASSUME NEW ok \in BOOLEAN, NEW own \in BOOLEAN, NEW req \in ReqType
      PROVE  Receive_HttpRequest_Search(s, req, ok, own) \in SeatRec
  <2> DEFINE e == s.excused \cup Stray(own)
             h == IF own THEN s.had \cup {req} ELSE s.had
             n == s.selectCount + 1
             marked  == [s EXCEPT !.excused = e]
             counted == [marked EXCEPT !.selectCount = n, !.had = h]
  <2>1. e \in SUBSET Exception /\ h \in SUBSET ReqType
    BY DEF SeatRec, Stray, Exception
  <2>2. n \in Nat
    BY DEF SeatRec
  <2> HIDE DEF e, h, n
  <2>3. marked \in SeatRec /\ counted \in SeatRec
    BY <2>1, <2>2 DEF SeatRec
  <2>5. marked.selectCount = s.selectCount /\ marked.had = s.had
    BY DEF SeatRec
  <2>4. \/ Receive_HttpRequest_Search(s, req, ok, own) = Response_Player_Login(marked, FALSE)
        \/ Receive_HttpRequest_Search(s, req, ok, own) = Response_Player_Login(counted, TRUE)
        \/ Receive_HttpRequest_Search(s, req, ok, own) = counted
    BY <2>5 DEF Receive_HttpRequest_Search, e, h, n
  <2> HIDE DEF marked, counted
  <2> QED
    BY <1>1, <2>3, <2>4
<1>3. Receive_HttpRequest_SessionKey(s) \in SeatRec
  BY DEF Receive_HttpRequest_SessionKey, SeatRec
<1> QED
  BY <1>1, <1>2, <1>3

(* A login packet changes the seat of its client, into one with this done. *)
AfterLogin(s, right, itself) ==
    IF right THEN Asks(s, itself)
    ELSE IF side = "Match" THEN Receive_HttpRequest_SessionKey(Asks(s, FALSE))
    ELSE Response_Player_Login(Asks(s, itself), FALSE)

Asking(c) ==
    IF side = "Match" THEN Post(Send_Message(c, "account"))
    ELSE Enqueue(<<Send_Message(c, "account"), Send_Message(c, "contents")>>) /\ Wake

LEMMA AsksTyped ==
    ASSUME NEW s \in SeatRec, NEW itself \in BOOLEAN
    PROVE  Asks(s, itself) \in SeatRec
<1> DEFINE n == s.asked + 1
           d == s.disconnect \/ itself
           e == s.excused \cup IF s.asked > 0 THEN {"again"} ELSE {}
<1>1. n \in Nat /\ d \in BOOLEAN /\ e \in SUBSET Exception
  BY DEF SeatRec, Exception
<1>2. Asks(s, itself) = [s EXCEPT !.asked = n, !.disconnect = d, !.excused = e]
  BY DEF Asks
<1> HIDE DEF n, d, e
<1> QED
  BY <1>1, <1>2 DEF SeatRec

LEMMA LoginIs ==
    ASSUME TypeInv, HttpLoginAssumption, NEW c \in Client, Login(c)
    PROVE  /\ SeatOf(c) \in Seat /\ Present(c)
           /\ \E right, itself \in BOOLEAN :
                /\ seat' = [seat EXCEPT ![SeatOf(c)] = AfterLogin(@, right, itself)]
                /\ IF right THEN Asking(c) ELSE UNCHANGED <<msgQueue, thread>>
           /\ seat' \in [Seat -> SeatRec]
<1>1. SeatOf(c) \in Seat /\ seat \in [Seat -> SeatRec] /\ seat[SeatOf(c)] \in SeatRec
  BY SeatTypes, HttpTypes DEF TypeInv
<1>2. \A right, itself \in BOOLEAN : AfterLogin(seat[SeatOf(c)], right, itself) \in SeatRec
  BY <1>1, AsksTyped, AnswerTyped DEF AfterLogin
<1>3. \E right, itself \in BOOLEAN :
         /\ seat' = [seat EXCEPT ![SeatOf(c)] = AfterLogin(@, right, itself)]
         /\ IF right THEN Asking(c) ELSE UNCHANGED <<msgQueue, thread>>
  <2>1. PICK right \in BOOLEAN : Request_Session_Login(c, right) \/ Request_Player_Login(c, right)
    BY DEF Login
  <2>2. CASE Request_Session_Login(c, right)
    BY <2>2 DEF Request_Session_Login, AfterLogin, Asking, SeatOf
  <2>3. CASE Request_Player_Login(c, right)
    <3>1. PICK itself \in BOOLEAN :
             seat' = [seat EXCEPT ![1] = IF right THEN Asks(@, itself)
                                         ELSE Response_Player_Login(Asks(@, itself), FALSE)]
      BY <2>3 DEF Request_Player_Login
    <3>2. side = "Battle" /\ SeatOf(c) = 1
      BY <2>3 DEF Request_Player_Login, SeatOf
    <3> QED
      BY <2>3, <3>1, <3>2 DEF Request_Player_Login, AfterLogin, Asking
  <2> QED
    BY <2>1, <2>2, <2>3
<1> QED
  BY <1>1, <1>2, <1>3 DEF Login

(* A client's step adds messages to be sent for it, and changes its seat.  *)
LEMMA ClientTyped ==
    ASSUME TypeInv, HttpLoginAssumption, ClientAction
    PROVE  TypeInv' /\ Seat' = Seat
<1>1. /\ UNCHANGED <<httpVars, infoList, side>>
      /\ arrived' = arrived \/ (arrived < MaxClient /\ arrived' = arrived + 1)
  BY DEF ClientAction, OnClientJoin, Login, OnClientLeave, Response_Player_Record
<1>2. arrived' \in 0 .. MaxClient /\ infoList' \subseteq InfoRec
  BY <1>1, HttpTypes, SeatTypes, SMT DEF TypeInv
<1>3. \A c \in Client : SeatOf(c) \in Seat /\ seat[SeatOf(c)] \in SeatRec
  BY SeatTypes DEF TypeInv
<1>0. thread \in ThreadRec /\ msgQueue \in Seq(Message) /\ seat \in [Seat -> SeatRec]
  BY HttpTypes
<1>4. CASE OnClientJoin
  <2>1. arrived + 1 \in Client
    BY <1>4, HttpTypes, SeatTypes, SMT DEF OnClientJoin, Client, TypeInv
  <2>2. seat' \in [Seat -> SeatRec]
    <3> DEFINE p == SeatOf(arrived + 1)
               r == [seat[p] EXCEPT !.clientID = arrived + 1, !.answers = 0]
    <3>1. p \in Seat /\ seat[p] \in SeatRec
      BY <1>3, <2>1
    <3>2. r \in SeatRec
      BY <2>1, <3>1 DEF SeatRec
    <3>3. seat' = [seat EXCEPT ![p] = r]
      BY <1>0, <1>4, <3>1 DEF OnClientJoin
    <3> QED
      BY <1>0, <3>1, <3>2, <3>3
  <2> QED
    BY <1>0, <1>1, <1>2, <1>4, <2>2, HttpUnchanged, TypedNext DEF OnClientJoin, ServerTyped
<1>5. ASSUME NEW c \in Client, Login(c) PROVE TypeInv' /\ Seat' = Seat
  <2>1. seat' \in [Seat -> SeatRec]
    BY <1>0, <1>5, LoginIs
  <2>2. Send_Message(c, "account") \in Message /\ Send_Message(c, "contents") \in Message
    BY SeatTypes, MessageTypes DEF ReqType, TypeInv
  <2>3. CASE UNCHANGED <<msgQueue, thread>>
    BY <1>0, <1>1, <1>2, <2>1, <2>3, HttpUnchanged, TypedNext DEF ServerTyped
  <2>4. CASE ~UNCHANGED <<msgQueue, thread>>
    <3>1. PICK t \in Seq(Message) : Enqueue(t) /\ Wake
      BY <1>0, <2>2, <2>4, QueueEnd, <1>5 DEF Login, Request_Session_Login, Request_Player_Login, Post
    <3> QED
      BY <1>0, <1>1, <1>2, <2>1, <3>1, PostTyped, WakeTyped, HttpUnchanged, TypedNext
         DEF ServerTyped
  <2> QED
    BY <2>3, <2>4
<1>6. ASSUME NEW c \in Client, OnClientLeave(c) PROVE TypeInv' /\ Seat' = Seat
  BY <1>0, <1>3, <1>6, SeatTypes, <1>1, <1>2, HttpUnchanged, TypedNext DEF OnClientLeave,
     InitPlayer, TypeInv, ServerTyped
<1>7. ASSUME NEW c \in Client, Response_Player_Record(c) PROVE TypeInv' /\ Seat' = Seat
  <2>1. seat' \in [Seat -> SeatRec]
    <3>1. 1 \in Seat /\ seat[1] \in SeatRec
      BY <1>7, SeatTypes DEF Response_Player_Record, TypeInv
    <3> QED
      BY <1>0, <1>7, <3>1 DEF Response_Player_Record, SeatRec
  <2>2. Send_Message(c, "update") \in Message
    BY SeatTypes, MessageTypes DEF ReqType, TypeInv
  <2>3. msgQueue' \in Seq(Message) /\ thread' \in ThreadRec
    BY <1>0, <1>7, <2>2, QueueEnd, PostTyped, WakeTyped DEF Response_Player_Record, Post
  <2> QED
    BY <1>0, <1>1, <1>2, <2>1, <2>3, HttpUnchanged, TypedNext DEF ServerTyped
<1> QED
  BY <1>4, <1>5, <1>6, <1>7 DEF ClientAction

-----------------------------------------------------------------------------
(* The message thread.                                                     *)

(* The message the thread takes.                                           *)
LEMMA HeadTyped ==
    ASSUME TypeInv, NEW type, Receives(type)
    PROVE  /\ msgQueue # <<>> /\ Head(msgQueue) \in Message /\ Head(msgQueue).type = type
           /\ Tail(msgQueue) \in Seq(Message)
           /\ thread.pc = "check"
  BY HttpTypes, QueueTake DEF Receives

(* The thread finds nothing, sleeps, puts a message back or drops it.      *)
LEMMA IdleTyped ==
    ASSUME TypeInv,
           MessageThread_Empty \/ MessageThread_Sleep \/ MessageThread_PutBack \/ MessageThread_Drop
    PROVE  TypeInv' /\ Seat' = Seat
<1>0. /\ thread \in ThreadRec /\ msgQueue \in Seq(Message) /\ seat \in [Seat -> SeatRec]
      /\ infoList \subseteq InfoRec /\ arrived \in 0 .. MaxClient
  BY HttpTypes
<1>1. CASE MessageThread_Empty \/ MessageThread_Sleep
  BY <1>0, <1>1, HttpUnchanged, TypedNext
     DEF MessageThread_Empty, MessageThread_Sleep, ServerTyped, ThreadRec
<1>2. CASE MessageThread_PutBack
  <2> DEFINE x == [Head(msgQueue) EXCEPT !.young = FALSE]
  <2>1. x \in Message /\ Tail(msgQueue) \in Seq(Message)
    BY <1>2, HeadTyped, MessageTypes DEF MessageThread_PutBack
  <2>2. msgQueue' = Append(Tail(msgQueue), x)
    BY <1>2 DEF MessageThread_PutBack
  <2>3. msgQueue' \in Seq(Message)
    BY <2>1, <2>2, AppendIsJoin
  <2> QED
    BY <1>0, <1>2, <2>3, HttpUnchanged, TypedNext DEF MessageThread_PutBack, ServerTyped
<1>3. CASE MessageThread_Drop
  BY <1>0, <1>3, HeadTyped, HttpUnchanged, TypedNext DEF MessageThread_Drop, Done, ServerTyped
<1> QED
  BY <1>1, <1>2, <1>3

(* The record of a request that is sent.                                   *)
NewInfo(c, req) ==
    [requestID |-> curID + 1, slot |-> Head(indexQueue), clientID |-> c, type |-> req,
     bRecv |-> FALSE, late |-> FALSE]
NowLeft(how) ==
    IF LeftAtOnce(how) THEN <<[type |-> "LEAVE", requestID |-> curID + 1]>> ELSE <<>>

How == {"connecting", "no_socket", "no_connect"}

(* The thread sends a request.                                             *)
LEMMA NewSendTyped ==
    ASSUME TypeInv, HttpLoginAssumption, NEW how \in How, MessageThread_Send(how)
    PROVE  /\ TypeInv' /\ Seat' = Seat
           /\ NewInfo(Head(msgQueue).clientID, Head(msgQueue).req) \in InfoRec
           /\ NowLeft(how) \in Seq(Message)
<1> DEFINE msg == Head(msgQueue)
<1>0. /\ thread \in ThreadRec /\ msgQueue \in Seq(Message) /\ seat \in [Seat -> SeatRec]
      /\ infoList \subseteq InfoRec /\ arrived \in 0 .. MaxClient
      /\ indexQueue \in Seq(Slot) /\ curID \in Nat /\ slot \in [Slot -> SlotRec]
      /\ worker \in [Worker -> WorkerRec] /\ curID + 1 \in Nat
  BY HttpTypes
<1>1. /\ msgQueue # <<>> /\ msg \in Message /\ msg.type = "SEND"
      /\ Tail(msgQueue) \in Seq(Message)
  BY HeadTyped DEF MessageThread_Send
<1>2. msg.clientID \in Named /\ msg.req \in ReqType
  BY <1>1, MessageTypes
<1>3. DirectRequestbyHttp(how)
  BY DEF MessageThread_Send
<1>4. /\ Head(indexQueue) \in Slot /\ indexQueue # <<>> /\ curID' = curID + 1
      /\ UNCHANGED worker
      /\ indexQueue' = IF Kept(how) THEN Tail(indexQueue)
                       ELSE Append(Tail(indexQueue), Head(indexQueue))
      /\ \E r \in SlotRec : slot' = [slot EXCEPT ![Head(indexQueue)] = r]
  BY <1>3, DirectIs DEF How
<1>5. indexQueue' \in Seq(Slot)
  BY <1>0, <1>4, QueueTake, AppendIsJoin
<1>6. HttpTyped
  BY <1>0, <1>4, <1>5, SlotTyped DEF HttpTyped
<1>7. NewInfo(msg.clientID, msg.req) \in InfoRec
  BY <1>0, <1>2, <1>4 DEF NewInfo, InfoRec
<1>8. infoList' \subseteq InfoRec
  BY <1>0, <1>7 DEF MessageThread_Send, NewInfo
<1>9. NowLeft(how) \in Seq(Message)
  BY <1>0, MessageTypes, QueueEnd DEF NowLeft
<1>10. msgQueue' \in Seq(Message) /\ seat' \in [Seat -> SeatRec] /\ thread' \in ThreadRec
  BY <1>0, <1>1, <1>3, DirectIs, <1>2, <1>9, FailIs DEF MessageThread_Send, Done, NowLeft, How,
     LeftAtOnce
<1> QED
  BY <1>0, <1>6, <1>7, <1>8, <1>9, <1>10, TypedNext DEF MessageThread_Send, ServerTyped

(* Marking a request as answered keeps the list's type.                    *)
LEMMA MarkTyped ==
    ASSUME TypeInv, NEW id, MarkReceived(id)
    PROVE  infoList' \subseteq InfoRec
  BY HttpTypes DEF InfoRec, MarkReceived

(* The Match server takes an answer.                                       *)
LEMMA MatchRecvTyped ==
    ASSUME TypeInv, HttpLoginAssumption, MessageThread_Recv_Match
    PROVE  TypeInv' /\ Seat' = Seat
<1> DEFINE msg == Head(msgQueue)
<1>0. /\ thread \in ThreadRec /\ msgQueue \in Seq(Message) /\ seat \in [Seat -> SeatRec]
      /\ infoList \subseteq InfoRec /\ arrived \in 0 .. MaxClient
  BY HttpTypes
<1>1. msgQueue # <<>> /\ Tail(msgQueue) \in Seq(Message) /\ <<>> \in Seq(Message)
  BY <1>0, HeadTyped, QueueEnd DEF MessageThread_Recv_Match
<1>2. PICK info \in InfoOf(msg.requestID) :
           IF msg.code = "error"
           THEN Fail_HttpRequest(info.clientID, info.type, FALSE, <<>>)
           ELSE /\ msgQueue' = Tail(msgQueue)
                /\ IF Present(info.clientID)
                   THEN seat' = [seat EXCEPT ![SeatOf(info.clientID)] =
                                    Receive_HttpRequest_SessionKey(@)]
                   ELSE UNCHANGED seat
                /\ UNCHANGED thread
  BY DEF MessageThread_Recv_Match
<1>3. info.clientID \in Named /\ info.type \in ReqType
  BY <1>0 DEF InfoOf, InfoRec
<1>4. infoList' \subseteq InfoRec
  BY MarkTyped DEF MessageThread_Recv_Match
<1>5. msgQueue' \in Seq(Message) /\ seat' \in [Seat -> SeatRec] /\ thread' \in ThreadRec
  <2>1. CASE msg.code = "error"
    BY <1>1, <1>2, <1>3, <2>1, FailIs
  <2>2. CASE msg.code # "error"
    BY <1>0, <1>1, <1>2, <2>2, AnswerTyped
  <2> QED
    BY <2>1, <2>2
<1> QED
  BY <1>0, <1>4, <1>5, HttpUnchanged, TypedNext DEF MessageThread_Recv_Match, ServerTyped

(* The Battle server takes an answer.                                      *)
LEMMA BattleRecvTyped ==
    ASSUME TypeInv, HttpLoginAssumption, MessageThread_Recv_Battle
    PROVE  TypeInv' /\ Seat' = Seat
<1> DEFINE msg == Head(msgQueue)
<1>0. /\ thread \in ThreadRec /\ msgQueue \in Seq(Message) /\ seat \in [Seat -> SeatRec]
      /\ infoList \subseteq InfoRec /\ arrived \in 0 .. MaxClient
  BY HttpTypes
<1>1. msgQueue # <<>> /\ Tail(msgQueue) \in Seq(Message) /\ <<>> \in Seq(Message)
  BY <1>0, HeadTyped, QueueEnd DEF MessageThread_Recv_Battle
<1>2. PICK info \in InfoOf(msg.requestID) :
           IF msg.code = "error"
           THEN Fail_HttpRequest(info.clientID, info.type, FALSE, <<>>)
           ELSE /\ msgQueue' = Tail(msgQueue) /\ UNCHANGED seat
                /\ thread' = IF Present(info.clientID)
                             THEN [pc |-> "found", clientID |-> info.clientID,
                                   req |-> info.type, ok |-> msg.code = "ok"]
                             ELSE thread
  BY DEF MessageThread_Recv_Battle
<1>3. info.clientID \in Named /\ info.type \in ReqType
  BY <1>0 DEF InfoOf, InfoRec
<1>4. infoList' \subseteq InfoRec
  BY MarkTyped DEF MessageThread_Recv_Battle
<1>5. /\ msgQueue' \in Seq(Message) /\ seat' \in [Seat -> SeatRec]
      /\ thread' \in ThreadRec
  <2>1. CASE msg.code = "error"
    BY <1>0, <1>1, <1>2, <1>3, <2>1, FailIs
  <2>2. CASE msg.code # "error"
    <3>1. [pc |-> "found", clientID |-> info.clientID, req |-> info.type, ok |-> msg.code = "ok"]
          \in ThreadRec
      BY <1>3 DEF ThreadRec
    <3> QED
      BY <1>0, <1>1, <1>2, <2>2, <3>1
  <2> QED
    BY <2>1, <2>2
<1> QED
  BY <1>0, <1>4, <1>5, HttpUnchanged, TypedNext DEF MessageThread_Recv_Battle, ServerTyped

(* What the thread knows once it has found the player.                     *)
LEMMA FoundTyped ==
    ASSUME TypeInv, thread.pc \in {"found", "failing"}
    PROVE  /\ thread.clientID \in Named /\ thread.req \in ReqType
           /\ thread.pc = "found" => thread.ok \in BOOLEAN
  BY HttpTypes DEF ThreadRec

(* The failure is counted for whoever has the player: what is put into the *)
(* queue, and what becomes of the seat.                                    *)
Repeated == IF Resends(seat[1]) THEN <<Send_Message(seat[1].clientID, thread.req)>> ELSE <<>>

LEMMA FailedIs ==
    ASSUME TypeInv, HttpLoginAssumption, MessageThread_Fail
    PROVE  /\ Repeated \in Seq(Message)
           /\ msgQueue' = msgQueue \o Repeated /\ msgQueue' \in Seq(Message)
           /\ 1 \in Seat /\ seat[1] \in SeatRec /\ seat' \in [Seat -> SeatRec]
<1>1. 1 \in Seat /\ seat \in [Seat -> SeatRec] /\ seat[1] \in SeatRec
  BY SeatTypes, HttpTypes DEF TypeInv
<1>2. thread.req \in ReqType
  BY FoundTyped DEF MessageThread_Fail
<1>3. Repeated \in Seq(Message)
  <2>1. seat[1].clientID \in Named
    BY <1>1 DEF SeatRec, Named
  <2>2. Send_Message(seat[1].clientID, thread.req) \in Message
    BY <1>2, <2>1, MessageTypes
  <2> QED
    BY <2>2, QueueEnd, HttpTypes DEF Repeated
<1>4. Again(seat[1], Own(thread.clientID)) \in SeatRec
  BY <1>1, <1>2, AgainTyped DEF Own
<1> QED
  BY <1>1, <1>3, <1>4, QueueJoin, HttpTypes DEF MessageThread_Fail, Repeated

(* The player is told, a request ends, the heartbeat comes.                *)
LEMMA RestTyped ==
    ASSUME TypeInv, HttpLoginAssumption,
           MessageThread_Answer \/ MessageThread_Fail \/ MessageThread_Leave
           \/ MessageThread_HeartBeat \/ Send_Http_Heartbeat
    PROVE  TypeInv' /\ Seat' = Seat
<1>0. /\ thread \in ThreadRec /\ msgQueue \in Seq(Message) /\ seat \in [Seat -> SeatRec]
      /\ infoList \subseteq InfoRec /\ arrived \in 0 .. MaxClient
      /\ indexQueue \in Seq(Slot) /\ curID \in Nat /\ slot \in [Slot -> SlotRec]
      /\ worker \in [Worker -> WorkerRec]
  BY HttpTypes
<1>1. CASE MessageThread_Answer
  BY <1>1, FoundTyped, SeatTypes, <1>0, AnswerTyped, HttpUnchanged, TypedNext DEF
     MessageThread_Answer, TypeInv, Own, Present, ThreadRec, ServerTyped
<1>5. CASE MessageThread_Fail
  BY <1>0, <1>5, FailedIs, HttpUnchanged, TypedNext DEF MessageThread_Fail, ThreadRec, ServerTyped
<1>2. CASE MessageThread_Leave
  BY <1>0, <1>2, HeadTyped, QueueEnd, FailIs, HttpUnchanged, TypedNext DEF MessageThread_Leave,
     InfoOf, InfoRec, Done, Forget, ServerTyped
<1>3. CASE MessageThread_HeartBeat
  <2>1. Tail(msgQueue) \in Seq(Message)
    BY <1>3, HeadTyped DEF MessageThread_HeartBeat
  <2>2. \A a \in InfoRec : [a EXCEPT !.late = TRUE] \in InfoRec
    BY DEF InfoRec
  <2>3. infoList' \subseteq InfoRec
    BY <1>0, <1>3, <2>2 DEF MessageThread_HeartBeat
  <2>4. \A r \in SlotRec : Cut(r) \in SlotRec
    BY DEF Cut, SlotRec
  <2>5. slot' \in [Slot -> SlotRec]
    BY <1>0, <1>3, <2>4 DEF MessageThread_HeartBeat, Free_Session
  <2>6. HttpTyped
    BY <1>0, <1>3, <2>5 DEF MessageThread_HeartBeat, HttpTyped
  <2> QED
    BY <1>0, <1>3, <2>1, <2>3, <2>6, TypedNext DEF MessageThread_HeartBeat, ServerTyped, Done
<1>4. CASE Send_Http_Heartbeat
  BY <1>0, MessageTypes, QueueEnd, <1>4, PostTyped, WakeTyped, HttpUnchanged, TypedNext DEF
     Send_Http_Heartbeat, Post, ServerTyped
<1> QED
  BY <1>1, <1>2, <1>3, <1>4, <1>5

-----------------------------------------------------------------------------
(* Slots and workers.                                                      *)

(* An operation is posted for the slot.                                    *)
Pending(i) == slot[i].pending # "none"

(* A slot is free, has an operation under way, is in the hands of a        *)
(* worker, or is lost.                                                     *)
SlotOK(i) ==
    /\ Free(i) <=> slot[i].requestID = 0
    /\ Free(i) => ~Pending(i) /\ slot[i].sock = "closed" /\ ~Handled(i)
    /\ Pending(i) => ~slot[i].bDisconnect /\ ~Handled(i) /\ slot[i].sock # "closed"
    /\ Handled(i) => ~slot[i].bDisconnect /\ slot[i].sock # "closed"
    /\ Lost(i) => slot[i].got = "bit" \/ slot[i].sock = "closed"

(* A worker that is not idle is at a slot, and no two release the same.    *)
WorkersOK ==
    /\ \A w \in Worker : worker[w].pc # "idle" => worker[w].slot \in Slot
    /\ \A v, w \in Worker :
          worker[v].pc = "release" /\ worker[w].pc = "release" /\ worker[v].slot = worker[w].slot
            => v = w

(* What SlotsComeBack needs to be inductive.                               *)
SlotInv ==
    /\ TypeInv
    /\ IsInjective(indexQueue)
    /\ WorkersOK
    /\ \A i \in Slot : SlotOK(i)

(* Taking the head off the index queue.                                    *)
LEMMA FreeTail ==
    ASSUME NEW S, NEW q \in Seq(S), q # <<>>, IsInjective(q)
    PROVE  /\ IsInjective(Tail(q)) /\ ToSet(Tail(q)) = ToSet(q) \ {Head(q)}
           /\ Head(q) \in ToSet(q)
<1>1. \A i \in DOMAIN Tail(q) : i \in Int /\ i >= 1
  OBVIOUS
<1>3. IsInjective(Tail(q))
  BY <1>1, TailElements DEF IsInjective
<1>4. ToSet(Tail(q)) = ToSet(q) \ {Head(q)}
  <2>1. \A x \in ToSet(Tail(q)) : x \in ToSet(q) /\ x # Head(q)
    BY <1>1, TailElements DEF ToSet, IsInjective
  <2>2. \A x \in ToSet(q) : x # Head(q) => x \in ToSet(Tail(q))
    BY TailElements DEF ToSet
  <2> QED
    BY <2>1, <2>2
<1> QED
  BY <1>3, <1>4, TailElements DEF ToSet

(* Putting a slot back into the index queue.                               *)
LEMMA FreeAppend ==
    ASSUME NEW S, NEW q \in Seq(S), NEW x \in S, IsInjective(q), x \notin ToSet(q)
    PROVE  IsInjective(Append(q, x)) /\ ToSet(Append(q, x)) = ToSet(q) \cup {x}
<1> DEFINE t == Append(q, x)
<1>1. /\ \A i \in DOMAIN t : i \in DOMAIN q \/ i = Len(q) + 1
      /\ \A i \in DOMAIN q : i \in DOMAIN t /\ t[i] = q[i] /\ i # Len(q) + 1
      /\ Len(q) + 1 \in DOMAIN t /\ t[Len(q) + 1] = x
  OBVIOUS
<1> HIDE DEF t
<1>2. IsInjective(t)
  BY <1>1 DEF IsInjective, ToSet
<1>3. ToSet(t) = ToSet(q) \cup {x}
  BY <1>1 DEF ToSet
<1> QED
  BY <1>2, <1>3 DEF t

(* A slot of which nothing that matters changes.                           *)
LEMMA SlotStays ==
    ASSUME NEW i \in Slot, SlotOK(i),
           slot'[i].requestID = slot[i].requestID, slot'[i].pending = slot[i].pending,
           slot'[i].bDisconnect = slot[i].bDisconnect, slot'[i].got = slot[i].got,
           slot'[i].sock = "closed" <=> slot[i].sock = "closed",
           Free(i)' <=> Free(i), Handled(i)' <=> Handled(i)
    PROVE  SlotOK(i)'
  BY DEF SlotOK, Pending, Lost

(* A step outside of the library.                                          *)
LEMMA QuietSlots ==
    ASSUME SlotInv, UNCHANGED httpVars, TypeInv'
    PROVE  SlotInv'
  BY DEF SlotInv, httpVars, WorkersOK, SlotOK, Pending, Free, Handled, Lost

(* What becomes of the slots in hand when worker w goes on.                *)
LEMMA GotoIs ==
    ASSUME TypeInv, WorkersOK, NEW w \in Worker, NEW pc \in {"idle", "send", "release"}, NEW i,
           Goto(w, pc, i), pc # "idle" => i \in Slot,
           pc = "release" => \A v \in Worker : worker[v].pc = "release" => worker[v].slot # i
    PROVE  /\ WorkersOK'
           /\ \A j \in Slot :
                /\ worker[w].pc # "release" \/ worker[w].slot # j
                     => (Handled(j)' <=> Handled(j) \/ (pc = "release" /\ j = i))
                /\ worker[w].pc = "release" /\ worker[w].slot = j /\ pc # "release" => ~Handled(j)'
  BY HttpTypes DEF Goto, WorkersOK, Handled

(* A step that changes one slot and one worker's place.                    *)
LEMMA OneSlot ==
    ASSUME SlotInv, TypeInv', WorkersOK', NEW i \in Slot,
           UNCHANGED indexQueue, \A j \in Slot : j # i => slot'[j] = slot[j],
           \A j \in Slot : j # i => (Handled(j)' <=> Handled(j)),
           SlotOK(i)'
    PROVE  SlotInv'
  BY SlotStays DEF Free, SlotInv

(* The end of a connect passes the slot to the worker, or gives it up.     *)
LEMMA ConnSlots ==
    ASSUME SlotInv, TypeInv', NEW w \in Worker, NEW i \in Slot,
           Conn_Complete(w, i) \/ Conn_Complete_Fail(w, i) \/ Recv_Zero(w, i)
    PROVE  SlotInv'
<1>0. slot \in [Slot -> SlotRec] /\ TypeInv /\ WorkersOK /\ SlotOK(i)
  BY HttpTypes DEF SlotInv
<1>1. Pending(i) /\ worker[w].pc = "idle"
  BY DEF Conn_Complete, Conn_Complete_Fail, Recv_Zero, TakeCompletion, Pending
<1>2. ~Free(i) /\ ~Handled(i) /\ ~slot[i].bDisconnect /\ slot[i].sock # "closed"
  BY <1>0, <1>1 DEF SlotOK
<1>3. \A v \in Worker : worker[v].pc = "release" => worker[v].slot # i
  BY <1>2 DEF Handled
<1>4. PICK pc \in {"send", "release"} :
        /\ Goto(w, pc, i)
        /\ pc = "send" => slot' = [slot EXCEPT ![i].pending = "recv", ![i].sock = "open"]
        /\ pc = "release" => slot' = [slot EXCEPT ![i].pending = "none"]
  BY DEF Conn_Complete, Conn_Complete_Fail, Recv_Zero
<1>5. /\ WorkersOK'
      /\ \A j \in Slot : Handled(j)' <=> Handled(j) \/ (pc = "release" /\ j = i)
  BY <1>0, <1>1, <1>3, <1>4, GotoIs
<1>6. UNCHANGED indexQueue /\ \A j \in Slot : j # i => slot'[j] = slot[j]
  BY <1>0, <1>4 DEF Conn_Complete, Conn_Complete_Fail, Recv_Zero
<1>7. ~Free(i)'
  BY <1>2, <1>6 DEF Free
<1>8. /\ slot'[i].requestID = slot[i].requestID /\ slot'[i].bDisconnect = slot[i].bDisconnect
      /\ pc = "send" => slot'[i].pending = "recv" /\ slot'[i].sock = "open"
      /\ pc = "release" => slot'[i].pending = "none" /\ slot'[i].sock = slot[i].sock
  BY <1>0, <1>4 DEF SlotRec
<1>9. SlotOK(i)'
  BY <1>0, <1>2, <1>5, <1>7, <1>8 DEF SlotOK, Pending, Lost
<1> QED
  BY <1>5, <1>6, <1>9, OneSlot

(* The worker passes the slot on to a receive.                             *)
LEMMA SendSlots ==
    ASSUME SlotInv, TypeInv', NEW w \in Worker, Conn_Complete_Send(w)
    PROVE  SlotInv'
<1>0. slot \in [Slot -> SlotRec] /\ TypeInv /\ WorkersOK /\ worker[w].pc = "send"
  BY HttpTypes DEF SlotInv, Conn_Complete_Send
<1>1. PICK i \in Slot : i = worker[w].slot
  BY <1>0 DEF WorkersOK
<1>2. /\ WorkersOK'
      /\ \A j \in Slot : Handled(j)' <=> Handled(j)
  BY <1>0, GotoIs DEF Conn_Complete_Send
<1>3. PICK r \in {[slot[i] EXCEPT !.sock = "asked"],
                  [slot[i] EXCEPT !.sock = "asked", !.silent = TRUE], Cut(slot[i])} :
        /\ slot' = [slot EXCEPT ![i] = r]
        /\ r # Cut(slot[i]) => slot[i].sock # "closed"
  BY <1>0, <1>1 DEF Conn_Complete_Send
<1>4. /\ r.requestID = slot[i].requestID /\ r.pending = slot[i].pending
      /\ r.bDisconnect = slot[i].bDisconnect /\ r.got = slot[i].got
      /\ r.sock = "closed" <=> slot[i].sock = "closed"
  BY <1>0, <1>1, <1>3 DEF Cut, SlotRec
<1>5. slot'[i] = r /\ \A j \in Slot : j # i => slot'[j] = slot[j]
  BY <1>0, <1>1, <1>3
<1>6. UNCHANGED indexQueue
  BY DEF Conn_Complete_Send
<1>7. SlotOK(i)'
  BY <1>1, <1>2, <1>4, <1>5, <1>6, SlotStays DEF SlotInv, Free
<1> QED
  BY <1>1, <1>2, <1>5, <1>6, <1>7, OneSlot

(* A piece of a response: the next receive is posted, or the slot is       *)
(* released.                                                               *)
LEMMA RecvSlots ==
    ASSUME SlotInv, TypeInv', NEW w \in Worker, NEW i \in Slot, Recv_Complete(w, i)
    PROVE  SlotInv'
<1>0. slot \in [Slot -> SlotRec] /\ slot[i] \in SlotRec /\ TypeInv /\ WorkersOK /\ SlotOK(i)
  BY HttpTypes DEF SlotInv
<1>1. PICK got \in MoreOf(slot[i].got) :
        \E todo \in Reading(got, slot[i].text) : RecvStep(w, i, got, todo)
  BY DEF Recv_Complete, RecvStep
<1>2. PICK todo \in Reading(got, slot[i].text) : RecvStep(w, i, got, todo)
  BY <1>1
<1>3. Pending(i) /\ worker[w].pc = "idle"
  BY <1>2 DEF RecvStep, TakeCompletion, Pending
<1>4. ~Free(i) /\ ~Handled(i) /\ ~slot[i].bDisconnect
  BY <1>0, <1>3 DEF SlotOK
<1>5. \A v \in Worker : worker[v].pc = "release" => worker[v].slot # i
  BY <1>4 DEF Handled
<1>6. /\ slot'[i].requestID = slot[i].requestID /\ slot'[i].bDisconnect = slot[i].bDisconnect
      /\ slot'[i].sock = slot[i].sock /\ slot'[i].got = got
      /\ slot'[i].pending = IF todo = "post" THEN "recv" ELSE "none"
      /\ \A j \in Slot : j # i => slot'[j] = slot[j]
      /\ UNCHANGED indexQueue
  BY <1>0, <1>2 DEF RecvStep, SlotRec
<1>7. /\ WorkersOK'
      /\ \A j \in Slot : Handled(j)' <=> Handled(j) \/ (todo \in {"answer", "fail"} /\ j = i)
  BY <1>2, <1>0, <1>3, <1>5, GotoIs DEF RecvStep, WorkersOK, Handled
<1>8. ~Free(i)'
  BY <1>4, <1>6 DEF Free
<1>9. todo \notin {"answer", "fail", "post"} => got = "bit"
  BY <1>0, <1>2 DEF SlotRec, Got, MoreOf, Reading
<1>10. slot[i].sock = "asked"
  BY <1>2 DEF RecvStep
<1>11. SlotOK(i)'
  BY <1>0, <1>4, <1>6, <1>7, <1>8, <1>9, <1>10 DEF SlotOK, Pending, Lost
<1> QED
  BY <1>6, <1>7, <1>11, OneSlot

(* A released slot goes back to the index queue.                           *)
LEMMA ReleaseSlots ==
    ASSUME SlotInv, TypeInv', NEW w \in Worker, ReleaseSession(w)
    PROVE  SlotInv'
<1>0. /\ slot \in [Slot -> SlotRec] /\ TypeInv /\ WorkersOK /\ worker[w].pc = "release"
      /\ indexQueue \in Seq(Slot) /\ IsInjective(indexQueue)
  BY HttpTypes DEF SlotInv, ReleaseSession
<1>1. PICK i \in Slot : i = worker[w].slot /\ slot[i] \in SlotRec
  BY <1>0 DEF WorkersOK
<1>2. SlotOK(i) /\ Handled(i)
  BY <1>0, <1>1 DEF SlotInv, Handled
<1>3. ~slot[i].bDisconnect /\ ~Free(i) /\ ~Pending(i)
  BY <1>2 DEF SlotOK
<1>4. /\ slot' = [slot EXCEPT ![i] = InitializeSession(Closed(slot[i]))]
      /\ indexQueue' = Append(indexQueue, i) /\ Goto(w, "idle", NoSlot)
  BY <1>0, <1>1, <1>3 DEF ReleaseSession
<1>5. /\ WorkersOK' /\ ~Handled(i)'
      /\ \A j \in Slot : j # i => (Handled(j)' <=> Handled(j))
  BY <1>0, <1>1, <1>4, GotoIs
<1>6. /\ IsInjective(indexQueue') /\ ToSet(indexQueue') = ToSet(indexQueue) \cup {i}
  BY <1>0, <1>1, <1>3, <1>4, FreeAppend DEF Free
<1>7. Free(i)' /\ \A j \in Slot : j # i => (Free(j)' <=> Free(j)) /\ slot'[j] = slot[j]
  BY <1>0, <1>1, <1>4, <1>6 DEF Free
<1>8. /\ slot'[i].requestID = 0 /\ slot'[i].sock = "closed"
      /\ slot'[i].pending = slot[i].pending
  BY <1>0, <1>1, <1>4 DEF InitializeSession, Closed, SlotRec
<1>9. SlotOK(i)'
  BY <1>3, <1>5, <1>7, <1>8 DEF SlotOK, Pending, Lost
<1>10. \A j \in Slot : SlotOK(j)'
  BY <1>5, <1>7, <1>9, SlotStays DEF SlotInv
<1> QED
  BY <1>5, <1>6, <1>10 DEF SlotInv

(* A request takes the head of the index queue, for good if there is no    *)
(* socket.                                                                 *)
LEMMA NewSendSlots ==
    ASSUME SlotInv, TypeInv', NEW how \in How, DirectRequestbyHttp(how)
    PROVE  SlotInv'
<1>0. /\ slot \in [Slot -> SlotRec] /\ TypeInv /\ WorkersOK /\ curID \in Nat
      /\ indexQueue \in Seq(Slot) /\ IsInjective(indexQueue)
  BY HttpTypes DEF SlotInv
<1>1. PICK i \in Slot :
      /\ i = Head(indexQueue) /\ indexQueue # <<>> /\ UNCHANGED worker
      /\ indexQueue' = IF Kept(how) THEN Tail(indexQueue) ELSE Append(Tail(indexQueue), i)
      /\ \E r \in SlotRec :
            /\ slot' = [slot EXCEPT ![i] = r]
            /\ how = "connecting" => r = Connecting
            /\ how = "no_socket" /\ Kept(how) => r = Taken
            /\ ~Kept(how) => r.requestID = 0 /\ r.sock = "closed" /\ r.pending = slot[i].pending
  BY <1>0, DirectIs DEF How
<1>2. PICK r \in SlotRec :
            /\ slot' = [slot EXCEPT ![i] = r]
            /\ how = "connecting" => r = Connecting
            /\ how = "no_socket" /\ Kept(how) => r = Taken
            /\ ~Kept(how) => r.requestID = 0 /\ r.sock = "closed" /\ r.pending = slot[i].pending
  BY <1>1
<1>3. slot'[i] = r /\ \A j \in Slot : j # i => slot'[j] = slot[j]
  BY <1>0, <1>1, <1>2
<1>4. ToSet(Tail(indexQueue)) = ToSet(indexQueue) \ {i} /\ IsInjective(Tail(indexQueue))
      /\ i \in ToSet(indexQueue) /\ Tail(indexQueue) \in Seq(Slot)
  BY <1>0, <1>1, FreeTail, TailElements
<1>5. /\ IsInjective(indexQueue')
      /\ ToSet(indexQueue') = IF Kept(how) THEN ToSet(indexQueue) \ {i} ELSE ToSet(indexQueue)
  <2>1. i \notin ToSet(Tail(indexQueue))
    BY <1>4
  <2>2. /\ IsInjective(Append(Tail(indexQueue), i))
        /\ ToSet(Append(Tail(indexQueue), i)) = ToSet(Tail(indexQueue)) \cup {i}
    <3>1. PICK t \in Seq(Slot) : t = Tail(indexQueue)
      BY <1>4
    <3>2. IsInjective(t) /\ i \notin ToSet(t)
      BY <1>4, <2>1, <3>1
    <3> QED
      BY <3>1, <3>2, FreeAppend
  <2> QED
    BY <1>1, <1>4, <2>2
<1>6. Free(i) /\ \A j \in Slot : j # i => (Free(j)' <=> Free(j))
  BY <1>4, <1>5 DEF Free
<1>7. Free(i)' <=> ~Kept(how)
  BY <1>4, <1>5 DEF Free
<1>8. SlotOK(i) /\ ~Pending(i) /\ slot[i].sock = "closed" /\ ~Handled(i) /\ slot[i] \in SlotRec
  BY <1>0, <1>1, <1>6 DEF SlotInv, SlotOK
<1>9. \A j \in Slot : Handled(j)' <=> Handled(j)
  BY <1>1 DEF Handled
<1>10. curID + 1 \in Nat /\ curID + 1 # 0
  BY <1>0
<1>11. SlotOK(i)'
  <2>1. CASE how = "connecting"
    <3>1. /\ slot'[i].requestID = curID + 1 /\ slot'[i].pending = "conn"
          /\ slot'[i].sock = "connecting" /\ slot'[i].bDisconnect = FALSE
      BY <1>2, <1>3, <1>8, <1>10, <2>1 DEF Connecting, Taken, SlotRec
    <3>2. Kept(how)
      BY <2>1 DEF Kept
    <3> QED
      BY <1>7, <1>8, <1>9, <1>10, <3>1, <3>2 DEF SlotOK, Pending, Lost
  <2>2. CASE how # "connecting" /\ Kept(how)
    BY <2>2, <1>1, <1>2, <1>3, <1>8, <1>10, <1>7, <1>9 DEF Kept, Taken, SlotRec, SlotOK, Pending,
       Lost
  <2>3. CASE ~Kept(how)
    BY <1>2, <1>3, <1>7, <1>8, <1>9, <2>3 DEF SlotOK, Pending, Lost
  <2> QED
    BY <2>1, <2>2, <2>3
<1>12. \A j \in Slot : SlotOK(j)'
  BY <1>3, <1>6, <1>9, <1>11, SlotStays DEF SlotInv
<1>13. WorkersOK'
  BY <1>0, <1>1 DEF WorkersOK
<1> QED
  BY <1>5, <1>12, <1>13 DEF SlotInv

(* The heartbeat shuts sockets down, and takes no slot from anyone.        *)
LEMMA HeartBeatSlots ==
    ASSUME SlotInv, TypeInv', MessageThread_HeartBeat
    PROVE  SlotInv'
  BY HttpTypes, SlotStays DEF SlotInv, MessageThread_HeartBeat, Free_Session, Free, Handled, Cut,
     SlotRec, WorkersOK

(* At the start each slot is in the index queue once.                      *)
LEMMA AllFreeAtFirst ==
    ASSUME HttpAsyncAssumption, NEW f \in SetToSeqs(Slot)
    PROVE  f \in Seq(Slot) /\ IsInjective(f) /\ ToSet(f) = Slot
<1> DEFINE n == Cardinality(Slot)
<1>1. IsFiniteSet(Slot) /\ n \in Nat
  BY FS_CardinalityType DEF HttpAsyncAssumption
<1>2. f \in [1 .. n -> Slot] /\ \A i, j \in 1 .. n : i # j => f[i] # f[j]
  BY DEF SetToSeqs
<1>3. f \in Seq(Slot) /\ IsInjective(f)
  BY <1>1, <1>2 DEF IsInjective
<1>4. f \in Injection(1 .. n, Slot)
  BY <1>2 DEF Injection, IsInjective
<1>5. Cardinality(1 .. n) = n
  BY <1>1, FS_Interval
<1>6. f \in Surjection(1 .. n, Slot)
  BY <1>1, <1>4, <1>5, FS_Injection
<1>7. ToSet(f) = Slot
  BY <1>2, <1>6 DEF ToSet, Surjection
<1> QED
  BY <1>3, <1>7

(* SlotInv holds at the start.                                             *)
LEMMA SlotInvInit ==
    ASSUME HttpAsyncAssumption, HttpLoginAssumption, Init
    PROVE  SlotInv
<1>1. indexQueue \in Seq(Slot) /\ IsInjective(indexQueue) /\ ToSet(indexQueue) = Slot
  BY AllFreeAtFirst DEF Init, HttpInit
<1>2. /\ \A i \in Slot : /\ slot[i] \in SlotRec /\ slot[i].requestID = 0
                         /\ slot[i].pending = "none" /\ slot[i].sock = "closed"
      /\ slot \in [Slot -> SlotRec]
  <2> DEFINE new(b) == [requestID |-> 0, bDisconnect |-> b, sock |-> "closed",
                        pending |-> "none", cut |-> FALSE, silent |-> FALSE,
                        got |-> "nothing", text |-> "garbage"]
             A == {new(b) : b \in BOOLEAN}
  <2>1. \A r \in A : /\ r \in SlotRec /\ r.requestID = 0
                     /\ r.pending = "none" /\ r.sock = "closed"
    <3>1. \A b \in BOOLEAN : /\ new(b) \in SlotRec /\ new(b).requestID = 0
                             /\ new(b).pending = "none" /\ new(b).sock = "closed"
      BY DEF SlotRec, Got, Text
    <3> HIDE DEF new
    <3> QED
      BY <3>1
  <2>2. slot \in [Slot -> A]
    BY DEF Init, HttpInit
  <2> HIDE DEF A
  <2> QED
    BY <2>1, <2>2
<1>3. \A w \in Worker : worker[w] = [pc |-> "idle", slot |-> NoSlot]
  BY DEF Init, HttpInit
<1>4. EmptySeat \in SeatRec /\ arrived \in 0 .. MaxClient
  BY DEF Init, EmptySeat, SeatRec, HttpLoginAssumption
<1>5. TypeInv
  BY <1>4, <1>1, <1>2 DEF Init, HttpInit, ThreadRec, WorkerRec, TypeInv, TypeOK
<1>6. WorkersOK
  BY <1>3 DEF WorkersOK
<1>7. \A i \in Slot : SlotOK(i)
  BY <1>1, <1>2, <1>3 DEF SlotOK, Free, Handled, Pending, Lost
<1> QED
  BY <1>1, <1>5, <1>6, <1>7 DEF SlotInv

(* The library's step, and the worker that takes it.                       *)
HttpStep(w) ==
    \/ \E i \in Slot : Conn_Complete(w, i) \/ Conn_Complete_Fail(w, i) \/ Recv_Zero(w, i)
    \/ \E i \in Slot : Recv_Complete(w, i)
    \/ Conn_Complete_Send(w)
    \/ ReleaseSession(w)

(* A step of the library is one of a worker, and leaves the server's part. *)
LEMMA HttpSteps ==
    ASSUME Http
    PROVE  /\ UNCHANGED <<side, infoList, seat, arrived>>
           /\ \E w \in Worker : HttpStep(w)
  BY DEF Http, HttpNext, HttpStep, Proceed, Complete

(* SlotInv in the steps of the library.                                    *)
LEMMA SlotInvHttp ==
    ASSUME SlotInv, Http
    PROVE  SlotInv' /\ Seat' = Seat
<1>0. /\ thread \in ThreadRec /\ msgQueue \in Seq(Message) /\ seat \in [Seat -> SeatRec]
      /\ infoList \subseteq InfoRec /\ arrived \in 0 .. MaxClient /\ TypeInv /\ WorkersOK
  BY HttpTypes DEF SlotInv
<1>1. UNCHANGED <<side, infoList, seat, arrived>>
  BY HttpSteps
<1>2. PICK w \in Worker : HttpStep(w)
  BY HttpSteps
<1>3. ASSUME NEW i \in Slot, Conn_Complete(w, i) \/ Conn_Complete_Fail(w, i) \/ Recv_Zero(w, i)
      PROVE  SlotInv' /\ Seat' = Seat
  BY <1>0, <1>1, <1>3, ConnTyped, ConnSlots, TypedNext DEF ServerTyped
<1>4. ASSUME NEW i \in Slot, Recv_Complete(w, i)
      PROVE  SlotInv' /\ Seat' = Seat
  BY <1>0, <1>1, <1>4, RecvTyped, RecvSlots, TypedNext DEF ServerTyped
<1>5. CASE Conn_Complete_Send(w)
  BY <1>0, <1>5, <1>1, SendTyped, SendSlots, TypedNext DEF WorkersOK, Conn_Complete_Send,
     ServerTyped
<1>6. CASE ReleaseSession(w)
  BY <1>0, <1>6, <1>1, ReleaseTyped, ReleaseSlots, TypedNext DEF WorkersOK, ReleaseSession,
     ServerTyped
<1> QED
  BY <1>2, <1>3, <1>4, <1>5, <1>6 DEF HttpStep

(* The steps of the message thread and the heartbeat that leave the slots. *)
OtherAction ==
    \/ MessageThread_Empty \/ MessageThread_Sleep \/ MessageThread_PutBack \/ MessageThread_Drop
    \/ MessageThread_Recv_Match \/ MessageThread_Recv_Battle \/ MessageThread_Answer
    \/ MessageThread_Fail \/ MessageThread_Leave \/ Send_Http_Heartbeat

(* The steps, grouped as the proofs need them.                             *)
LEMMA NextIs ==
    ASSUME Next
    PROVE  \/ ClientAction
           \/ OtherAction
           \/ \E how \in How : MessageThread_Send(how)
           \/ MessageThread_HeartBeat
           \/ Http
  BY DEF Next, ClientAction, OtherAction, MessageThread, How

(* SlotInv is inductive.                                                   *)
LEMMA SlotInvNext ==
    ASSUME SlotInv, HttpLoginAssumption, [Next]_vars
    PROVE  SlotInv' /\ Seat' = Seat
<1>0. TypeInv
  BY DEF SlotInv
<1>1. CASE ClientAction
  BY <1>1, <1>0, ClientTyped, QuietSlots DEF ClientAction, OnClientJoin, Login, OnClientLeave,
     Response_Player_Record
<1>2. CASE OtherAction
  <2>1. UNCHANGED httpVars
    BY <1>2 DEF OtherAction, MessageThread_Empty, MessageThread_Sleep, MessageThread_PutBack,
       MessageThread_Drop, MessageThread_Recv_Match, MessageThread_Recv_Battle,
       MessageThread_Answer, MessageThread_Fail, MessageThread_Leave, Send_Http_Heartbeat
  <2>2. TypeInv' /\ Seat' = Seat
    BY <1>0, <1>2, IdleTyped, MatchRecvTyped, BattleRecvTyped, RestTyped DEF OtherAction
  <2> QED
    BY <2>1, <2>2, QuietSlots
<1>3. ASSUME NEW how \in How, MessageThread_Send(how) PROVE SlotInv' /\ Seat' = Seat
  BY <1>0, <1>3, NewSendTyped, NewSendSlots DEF MessageThread_Send
<1>4. CASE MessageThread_HeartBeat
  BY <1>0, <1>4, RestTyped, HeartBeatSlots
<1>5. CASE Http
  BY <1>5, SlotInvHttp
<1>6. CASE UNCHANGED vars
  BY <1>0, <1>6, QuietSlots DEF TypeInv, TypeOK, vars, httpVars, Seat
<1> QED
  BY <1>1, <1>2, <1>3, <1>4, <1>5, <1>6, NextIs

(* A slot is in the index queue once or serves one request, and only one   *)
(* without a socket, or with part of a status line, is lost.               *)
(* (ReleaseSession, Alloc_Session)                                         *)
THEOREM SlotsAlwaysComeBack == Spec => []SlotsComeBack
<1>1. Init => SlotInv
  BY SlotInvInit, HttpAsyncAssumption, HttpLoginAssumption
<1>2. SlotInv /\ [Next]_vars => SlotInv'
  BY SlotInvNext, HttpLoginAssumption
<1>3. SlotInv => SlotsComeBack
  BY DEF SlotInv, SlotsComeBack, TypeInv, SlotOK, Pending
<1> QED
  BY <1>1, <1>2, <1>3, PTL DEF Spec

-----------------------------------------------------------------------------
(* The message queue: which types of messages a step takes and adds.       *)

(* Messages of these types only.                                           *)
Adds(t, types) == t \in Seq(Message) /\ \A k \in DOMAIN t : t[k].type \in types

(* A step that takes at most a message of the types heads, and adds some   *)
(* of types.                                                               *)
QueueStep(heads, types) ==
    \/ \E t \in Seq(Message) : Adds(t, types) /\ msgQueue' = msgQueue \o t
    \/ /\ msgQueue # <<>> /\ Head(msgQueue).type \in heads
       /\ \E t \in Seq(Message) : Adds(t, types) /\ msgQueue' = Tail(msgQueue) \o t

(* X is in the queue after a step as it was before.                        *)
Neutral(X) ==
    /\ Holds(msgQueue', X) <=> Holds(msgQueue, X)
    /\ HoldsOne(msgQueue, X) => HoldsOne(msgQueue', X)

(* What the queue holds when t was added.                                  *)
LEMMA AddStep ==
    ASSUME TypeInv, NEW t \in Seq(Message), msgQueue' = msgQueue \o t, NEW X
    PROVE  /\ Holds(msgQueue', X) <=> Holds(msgQueue, X) \/ Holds(t, X)
           /\ HoldsOne(msgQueue, X) /\ HoldsOne(t, X) /\ ~(Holds(msgQueue, X) /\ Holds(t, X))
                => HoldsOne(msgQueue', X)
  BY HttpTypes, QueueJoin

(* What the queue holds when its head was taken and t was added.           *)
LEMMA TakeStep ==
    ASSUME TypeInv, NEW t \in Seq(Message), msgQueue # <<>>, msgQueue' = Tail(msgQueue) \o t, NEW X
    PROVE  /\ Holds(msgQueue, X) <=> Head(msgQueue) \in X \/ Holds(Tail(msgQueue), X)
           /\ Holds(msgQueue', X) <=> Holds(Tail(msgQueue), X) \/ Holds(t, X)
           /\ HoldsOne(msgQueue, X) =>
                /\ Head(msgQueue) \in X => ~Holds(Tail(msgQueue), X)
                /\ HoldsOne(t, X) /\ ~(Holds(Tail(msgQueue), X) /\ Holds(t, X))
                     => HoldsOne(msgQueue', X)
  BY HttpTypes, QueueTake, QueueJoin

(* A message of another type is not among those added.                     *)
LEMMA AddsNone ==
    ASSUME NEW t, NEW types, Adds(t, types), NEW X, \A x \in X : x.type \notin types
    PROVE  ~Holds(t, X) /\ HoldsOne(t, X)
  BY DEF Adds, Holds, HoldsOne

(* Queues of no, one and two messages.                                     *)
LEMMA AddsFew ==
    ASSUME NEW x \in Message, NEW y \in Message, NEW types, x.type \in types, y.type \in types
    PROVE  Adds(<<>>, types) /\ Adds(<<x>>, types) /\ Adds(<<x, y>>, types)
  BY DEF Adds

(* Messages of other types are in the queue as before.                     *)
LEMMA QueueNeutral ==
    ASSUME TypeInv, NEW heads, NEW types, QueueStep(heads, types),
           NEW X, \A x \in X : x.type \notin heads /\ x.type \notin types
    PROVE  Neutral(X)
  BY AddStep, AddsNone, TakeStep DEF Neutral, QueueStep

(* The two forms a step of the queue has.                                  *)
LEMMA QueueMoves ==
    ASSUME NEW heads, NEW types, NEW t \in Seq(Message), Adds(t, types),
           \/ msgQueue' = msgQueue \o t
           \/ /\ msgQueue # <<>> /\ Head(msgQueue).type \in heads
              /\ msgQueue' = Tail(msgQueue) \o t
    PROVE  QueueStep(heads, types)
  BY DEF QueueStep

(* A step that leaves the queue.                                           *)
LEMMA QueueSame ==
    ASSUME TypeInv, UNCHANGED msgQueue, NEW heads, NEW types
    PROVE  QueueStep(heads, types)
<1>1. <<>> \in Seq(Message) /\ Adds(<<>>, types)
  BY DEF Adds
<1>2. msgQueue' = msgQueue \o <<>>
  BY HttpTypes, QueueEnd
<1> QED
  BY <1>1, <1>2 DEF QueueStep

(* Taking the head off adds nothing.                                       *)
LEMMA QueueTaken ==
    ASSUME TypeInv, msgQueue # <<>>, msgQueue' = Tail(msgQueue), NEW heads, NEW types,
           Head(msgQueue).type \in heads
    PROVE  QueueStep(heads, types)
<1>1. <<>> \in Seq(Message) /\ Adds(<<>>, types)
  BY DEF Adds
<1>2. Tail(msgQueue) \in Seq(Message)
  BY HttpTypes, QueueTake
<1>3. msgQueue' = Tail(msgQueue) \o <<>>
  BY <1>2, QueueEnd
<1> QED
  BY <1>1, <1>3 DEF QueueStep

(* A failure adds what was left and the request once more.                 *)
LEMMA FailQueue ==
    ASSUME TypeInv, HttpLoginAssumption, NEW c \in Named, NEW req \in ReqType,
           NEW twice \in BOOLEAN, NEW left \in Seq(Message), msgQueue # <<>>,
           Fail_HttpRequest(c, req, twice, left)
    PROVE  /\ Tail(msgQueue) \in Seq(Message)
           /\ left \o Resent(c, req) \in Seq(Message)
           /\ msgQueue' = Tail(msgQueue) \o (left \o Resent(c, req))
           /\ \A X : /\ Holds(left \o Resent(c, req), X)
                          <=> Holds(left, X) \/ Holds(Resent(c, req), X)
                     /\ HoldsOne(left, X) /\ ~(Holds(left, X) /\ Holds(Resent(c, req), X))
                          => HoldsOne(left \o Resent(c, req), X)
           /\ \A types : Adds(left, types) /\ "SEND" \in types
                           => Adds(left \o Resent(c, req), types)
<1>1. PICK r \in Seq(Message) : r = Resent(c, req)
  BY FailIs
<1>2. PICK q \in Seq(Message) : q = Tail(msgQueue)
  BY HttpTypes, QueueTake
<1>3. msgQueue' = (q \o left) \o r
  BY <1>1, <1>2, FailIs
<1>4. (q \o left) \o r = q \o (left \o r)
  OBVIOUS
<1>5. left \o r \in Seq(Message)
  BY QueueJoin
<1>6. r = <<>> \/ r = <<Send_Message(c, req)>>
  BY <1>1 DEF Resent
<1>7. \A X : HoldsOne(r, X)
  BY <1>6 DEF HoldsOne
<1>8. \A X : /\ Holds(left \o r, X) <=> Holds(left, X) \/ Holds(r, X)
             /\ HoldsOne(left, X) /\ ~(Holds(left, X) /\ Holds(r, X)) => HoldsOne(left \o r, X)
  BY <1>7, QueueJoin
<1>9. ASSUME NEW types, Adds(left, types), "SEND" \in types
      PROVE  Adds(left \o r, types)
  BY <1>6, <1>9, JoinElements, <1>5 DEF Send_Message, Adds
<1> QED
  BY <1>1, <1>2, <1>3, <1>4, <1>5, <1>8, <1>9

(* The queue in each step.                                                 *)
LEMMA ClientQueue ==
    ASSUME TypeInv, ClientAction
    PROVE  QueueStep({}, {"SEND"})
<1>0. msgQueue \in Seq(Message)
  BY HttpTypes
<1>1. CASE OnClientJoin
  BY <1>1, QueueSame DEF OnClientJoin
<1>2. ASSUME NEW c \in Client, Login(c) PROVE QueueStep({}, {"SEND"})
  <2>1. /\ Send_Message(c, "account") \in Message /\ Send_Message(c, "account").type \in {"SEND"}
        /\ Send_Message(c, "contents") \in Message /\ Send_Message(c, "contents").type \in {"SEND"}
    BY MessageTypes DEF Named, ReqType, Send_Message
  <2>2. /\ Adds(<<Send_Message(c, "account")>>, {"SEND"})
        /\ Adds(<<Send_Message(c, "account"), Send_Message(c, "contents")>>, {"SEND"})
    BY <2>1, AddsFew
  <2>3. \/ Enqueue(<<Send_Message(c, "account")>>)
        \/ Enqueue(<<Send_Message(c, "account"), Send_Message(c, "contents")>>)
        \/ UNCHANGED msgQueue
    BY <1>2 DEF Login, Request_Session_Login, Request_Player_Login, Post
  <2>4. CASE UNCHANGED msgQueue
    BY <2>4, QueueSame
  <2>5. CASE ~UNCHANGED msgQueue
    BY <2>2, <2>3, <2>5 DEF QueueStep, Enqueue, Adds
  <2> QED
    BY <2>4, <2>5
<1>3. ASSUME NEW c \in Client, OnClientLeave(c) PROVE QueueStep({}, {"SEND"})
  BY <1>3, QueueSame DEF OnClientLeave
<1>4. ASSUME NEW c \in Client, Response_Player_Record(c) PROVE QueueStep({}, {"SEND"})
  <2>1. Send_Message(c, "update") \in Message /\ Send_Message(c, "update").type \in {"SEND"}
    BY MessageTypes DEF Named, ReqType, Send_Message
  <2>2. Adds(<<Send_Message(c, "update")>>, {"SEND"})
    BY <2>1, AddsFew
  <2> QED
    BY <1>4, <2>2 DEF Response_Player_Record, Post, Enqueue, QueueStep, Adds
<1> QED
  BY <1>1, <1>2, <1>3, <1>4 DEF ClientAction

(* The thread puts back a request, or drops it.                            *)
LEMMA IdleQueue ==
    ASSUME TypeInv,
           MessageThread_Empty \/ MessageThread_Sleep \/ MessageThread_PutBack \/ MessageThread_Drop
    PROVE  QueueStep({"SEND"}, {"SEND"})
<1>1. CASE MessageThread_Empty \/ MessageThread_Sleep
  BY <1>1, QueueSame DEF MessageThread_Empty, MessageThread_Sleep
<1>2. CASE MessageThread_PutBack
  <2>1. PICK x \in Message : x = [Head(msgQueue) EXCEPT !.young = FALSE] /\ x.type = "SEND"
    BY <1>2, HeadTyped, MessageTypes DEF MessageThread_PutBack, Message
  <2>2. msgQueue # <<>> /\ Tail(msgQueue) \in Seq(Message) /\ Head(msgQueue).type = "SEND"
    BY <1>2, HeadTyped DEF MessageThread_PutBack
  <2>3. msgQueue' = Tail(msgQueue) \o <<x>> /\ Adds(<<x>>, {"SEND"})
    BY <1>2, <2>1, <2>2, AppendIsJoin, AddsFew DEF MessageThread_PutBack
  <2> QED
    BY <2>2, <2>3 DEF QueueStep, Adds
<1>3. CASE MessageThread_Drop
  BY <1>3, HeadTyped, QueueTaken DEF MessageThread_Drop, Done
<1> QED
  BY <1>1, <1>2, <1>3

(* An answer is taken; if it says no, the request may be sent again.       *)
LEMMA RecvQueue ==
    ASSUME TypeInv, HttpLoginAssumption, MessageThread_Recv_Match \/ MessageThread_Recv_Battle
    PROVE  QueueStep({"RECV"}, {"SEND"})
<1>1. msgQueue # <<>> /\ Head(msgQueue).type = "RECV" /\ Tail(msgQueue) \in Seq(Message)
  BY HeadTyped DEF MessageThread_Recv_Match, MessageThread_Recv_Battle
<1>2. PICK info \in infoList : \/ Fail_HttpRequest(info.clientID, info.type, FALSE, <<>>)
                               \/ msgQueue' = Tail(msgQueue)
  BY DEF MessageThread_Recv_Match, MessageThread_Recv_Battle, InfoOf, Done
<1>3. info.clientID \in Named /\ info.type \in ReqType
  BY HttpTypes DEF InfoRec
<1>4. CASE Fail_HttpRequest(info.clientID, info.type, FALSE, <<>>)
  <2>1. <<>> \in Seq(Message) /\ Adds(<<>>, {"SEND"})
    BY DEF Adds
  <2>2. PICK t \in Seq(Message) : msgQueue' = Tail(msgQueue) \o t /\ Adds(t, {"SEND"})
    BY <1>1, <1>3, <1>4, <2>1, FailQueue
  <2> QED
    BY <1>1, <2>2 DEF QueueStep
<1>5. CASE msgQueue' = Tail(msgQueue)
  BY <1>1, <1>5, QueueTaken
<1> QED
  BY <1>2, <1>4, <1>5

(* The end of a request is taken; the request may be sent again.           *)
LEMMA LeaveQueue ==
    ASSUME TypeInv, HttpLoginAssumption, MessageThread_Leave
    PROVE  /\ msgQueue # <<>> /\ Head(msgQueue).type = "LEAVE"
           /\ Head(msgQueue) = [type |-> "LEAVE", requestID |-> Head(msgQueue).requestID]
           /\ Head(msgQueue).requestID \in Nat
           /\ \E t \in Seq(Message) : Adds(t, {"SEND"}) /\ msgQueue' = Tail(msgQueue) \o t
<1>1. /\ msgQueue # <<>> /\ Head(msgQueue).type = "LEAVE" /\ Tail(msgQueue) \in Seq(Message)
      /\ Head(msgQueue) \in Message
  BY HeadTyped DEF MessageThread_Leave
<1>2. Head(msgQueue) \in [type : {"LEAVE"}, requestID : Nat]
  BY <1>1 DEF Message
<1>3. PICK info \in infoList : \/ Fail_HttpRequest(info.clientID, info.type, FALSE, <<>>)
                               \/ msgQueue' = Tail(msgQueue)
  BY DEF MessageThread_Leave, InfoOf, Done
<1>4. info.clientID \in Named /\ info.type \in ReqType
  BY HttpTypes DEF InfoRec
<1>5. <<>> \in Seq(Message) /\ Adds(<<>>, {"SEND"})
  BY DEF Adds
<1>6. CASE Fail_HttpRequest(info.clientID, info.type, FALSE, <<>>)
  BY <1>1, <1>2, <1>4, <1>5, <1>6, FailQueue
<1>7. CASE msgQueue' = Tail(msgQueue)
  BY <1>1, <1>2, <1>5, <1>7, QueueEnd
<1> QED
  BY <1>3, <1>6, <1>7

(* Heartbeats.                                                             *)
LEMMA BeatQueue ==
    ASSUME TypeInv, HttpLoginAssumption
    PROVE  /\ MessageThread_HeartBeat => QueueStep({"HEARTBEAT"}, {})
           /\ MessageThread_Answer => QueueStep({}, {})
           /\ MessageThread_Fail => QueueStep({}, {"SEND"})
           /\ Send_Http_Heartbeat => QueueStep({}, {"HEARTBEAT"})
<1>1. ASSUME MessageThread_HeartBeat PROVE QueueStep({"HEARTBEAT"}, {})
  BY <1>1, HeadTyped, QueueTaken DEF MessageThread_HeartBeat, Done
<1>2. ASSUME MessageThread_Answer PROVE QueueStep({}, {})
  BY <1>2, QueueSame DEF MessageThread_Answer
<1>3. ASSUME Send_Http_Heartbeat PROVE QueueStep({}, {"HEARTBEAT"})
  <2>1. Adds(<<[type |-> "HEARTBEAT"]>>, {"HEARTBEAT"})
    BY MessageTypes, AddsFew
  <2>2. CASE msgQueue' = msgQueue \o <<[type |-> "HEARTBEAT"]>>
    BY <2>1, <2>2, QueueMoves DEF Adds
  <2>3. CASE UNCHANGED msgQueue
    BY <2>3, QueueSame
  <2> QED
    BY <1>3, <2>2, <2>3 DEF Send_Http_Heartbeat, Post, Enqueue
<1>4. ASSUME MessageThread_Fail PROVE QueueStep({}, {"SEND"})
  <2>1. Repeated \in Seq(Message) /\ msgQueue' = msgQueue \o Repeated
    BY <1>4, FailedIs
  <2>2. Adds(Repeated, {"SEND"})
    BY <2>1 DEF Repeated, Adds, Send_Message
  <2> QED
    BY <2>1, <2>2, QueueMoves
<1> QED
  BY <1>1, <1>2, <1>3, <1>4

(* The library's steps: a connection adds nothing, a response may add an   *)
(* answer, and the release of a slot adds the end of its request.          *)
LEMMA HttpQueue ==
    ASSUME SlotInv, NEW w \in Worker, HttpStep(w)
    PROVE  \/ QueueStep({}, {"RECV"})
           \/ ReleaseSession(w)
<1>0. TypeInv
  BY DEF SlotInv
<1>1. ASSUME NEW i \in Slot, Conn_Complete(w, i) \/ Conn_Complete_Fail(w, i) \/ Recv_Zero(w, i)
      PROVE  QueueStep({}, {"RECV"})
  BY <1>0, <1>1, QueueSame DEF Conn_Complete, Conn_Complete_Fail, Recv_Zero
<1>2. CASE Conn_Complete_Send(w)
  BY <1>0, <1>2, QueueSame DEF Conn_Complete_Send
<1>3. ASSUME NEW i \in Slot, Recv_Complete(w, i)
      PROVE  QueueStep({}, {"RECV"})
  <2>1. PICK got \in MoreOf(slot[i].got) :
          \E todo \in Reading(got, slot[i].text) : RecvStep(w, i, got, todo)
    BY <1>3 DEF Recv_Complete, RecvStep
  <2>2. PICK todo \in Reading(got, slot[i].text) : RecvStep(w, i, got, todo)
    BY <2>1
  <2>3. CASE todo \in {"answer", "fail"}
    <3>1. PICK code \in {"error", "ok", "refused"} : Enqueue(<<Recv_Message(slot[i].requestID, code)>>)
      BY <2>2, <2>3 DEF RecvStep, Post
    <3>2. PICK x \in Message : x = Recv_Message(slot[i].requestID, code) /\ x.type \in {"RECV"}
      <4>1. slot[i].requestID \in Nat
        BY <1>0, HttpTypes DEF SlotRec
      <4>2. Recv_Message(slot[i].requestID, code) \in Message
        BY <4>1, MessageTypes
      <4> QED
        BY <4>2 DEF Recv_Message
    <3>3. Adds(<<x>>, {"RECV"})
      BY <3>2, AddsFew
    <3>4. <<x>> \in Seq(Message) /\ msgQueue' = msgQueue \o <<x>>
      BY <3>1, <3>2, <3>3 DEF Adds, Enqueue
    <3> QED
      BY <3>3, <3>4, QueueMoves
  <2>4. CASE todo \notin {"answer", "fail"}
    BY <2>2, <2>4, <1>0, QueueSame DEF RecvStep
  <2> QED
    BY <2>3, <2>4
<1> QED
  BY <1>1, <1>2, <1>3 DEF HttpStep

(* A slot served a request; when it is released the end of that is queued. *)
LEMMA ReleaseQueue ==
    ASSUME SlotInv, NEW w \in Worker, ReleaseSession(w)
    PROVE  \E i \in Slot :
               /\ i = worker[w].slot /\ slot[i].requestID \in Nat \ {0}
               /\ slot' = [slot EXCEPT ![i] = InitializeSession(Closed(slot[i]))]
               /\ msgQueue' = msgQueue \o <<[type |-> "LEAVE", requestID |-> slot[i].requestID]>>
               /\ [type |-> "LEAVE", requestID |-> slot[i].requestID] \in Message
  BY HttpTypes, MessageTypes DEF SlotInv, ReleaseSession, WorkersOK, Handled, SlotOK, SlotRec,
     Enqueue

(* A request that is sent leaves the queue; one that fails at once adds    *)
(* its end, if its slot was released, and the request once more.           *)
Added(how, c, req) == IF how = "connecting" THEN <<>> ELSE NowLeft(how) \o Resent(c, req)

(* The request at the head is sent, or has failed at once.                 *)
LEMMA SendQueue ==
    ASSUME TypeInv, HttpLoginAssumption, NEW how \in How, MessageThread_Send(how)
    PROVE  \E msg \in Message, t \in Seq(Message) :
               /\ msg = Head(msgQueue) /\ msgQueue # <<>> /\ msg.type = "SEND"
               /\ msg.clientID \in Named /\ msg.req \in ReqType
               /\ t = Added(how, msg.clientID, msg.req) /\ Adds(t, {"SEND", "LEAVE"})
               /\ msgQueue' = Tail(msgQueue) \o t
               /\ \A X : /\ Holds(t, X) <=> /\ how # "connecting"
                                            /\ \/ Holds(NowLeft(how), X)
                                               \/ Holds(Resent(msg.clientID, msg.req), X)
                         /\ ~(Holds(NowLeft(how), X) /\ Holds(Resent(msg.clientID, msg.req), X))
                              => HoldsOne(t, X)
<1>1. PICK msg \in Message : msg = Head(msgQueue) /\ msg.type = "SEND"
  BY HeadTyped DEF MessageThread_Send
<1>2. /\ msgQueue # <<>> /\ Tail(msgQueue) \in Seq(Message)
      /\ msg.clientID \in Named /\ msg.req \in ReqType
  BY <1>1, HeadTyped, MessageTypes DEF MessageThread_Send
<1>3. NowLeft(how) \in Seq(Message)
  BY NewSendTyped
<1>4. Adds(NowLeft(how), {"SEND", "LEAVE"}) /\ \A X : HoldsOne(NowLeft(how), X)
  BY <1>3 DEF NowLeft, Adds, HoldsOne
<1>5. CASE how = "connecting"
  <2>1. Added(how, msg.clientID, msg.req) = <<>> /\ <<>> \in Seq(Message)
    BY <1>2, <1>5, QueueEnd DEF Added
  <2>2. msgQueue' = Tail(msgQueue)
    BY <1>5 DEF MessageThread_Send, Done
  <2>3. msgQueue' = Tail(msgQueue) \o <<>>
    BY <1>2, <2>2, QueueEnd
  <2>4. /\ Adds(<<>>, {"SEND", "LEAVE"})
        /\ \A X : ~Holds(<<>>, X) /\ HoldsOne(<<>>, X)
    BY <2>1 DEF Adds, Holds, HoldsOne
  <2> QED
    BY <1>1, <1>2, <1>5, <2>1, <2>3, <2>4
<1>6. CASE how # "connecting"
  <2>1. Fail_HttpRequest(msg.clientID, msg.req, LeftAtOnce(how), NowLeft(how))
    BY <1>1, <1>6 DEF MessageThread_Send, NowLeft
  <2>2. LeftAtOnce(how) \in BOOLEAN
    BY DirectIs DEF How, LeftAtOnce, MessageThread_Send
  <2>3. PICK t \in Seq(Message) : t = NowLeft(how) \o Resent(msg.clientID, msg.req)
    BY <1>2, <1>3, <2>1, <2>2, FailQueue
  <2>4. /\ msgQueue' = Tail(msgQueue) \o t
        /\ \A X : /\ Holds(t, X) <=> \/ Holds(NowLeft(how), X)
                                     \/ Holds(Resent(msg.clientID, msg.req), X)
                  /\ HoldsOne(NowLeft(how), X) /\ ~(Holds(NowLeft(how), X)
                                                    /\ Holds(Resent(msg.clientID, msg.req), X))
                       => HoldsOne(t, X)
        /\ \A types : Adds(NowLeft(how), types) /\ "SEND" \in types => Adds(t, types)
    <3>1. PICK c \in Named, left \in Seq(Message), twice \in BOOLEAN :
             c = msg.clientID /\ left = NowLeft(how) /\ twice = LeftAtOnce(how)
      BY <1>2, <1>3, <2>2
    <3>2. Fail_HttpRequest(c, msg.req, twice, left) /\ t = left \o Resent(c, msg.req)
      BY <2>1, <2>3, <3>1
    <3>3. /\ msgQueue' = Tail(msgQueue) \o t
          /\ \A X : /\ Holds(t, X) <=> Holds(left, X) \/ Holds(Resent(c, msg.req), X)
                    /\ HoldsOne(left, X) /\ ~(Holds(left, X) /\ Holds(Resent(c, msg.req), X))
                         => HoldsOne(t, X)
          /\ \A types : Adds(left, types) /\ "SEND" \in types => Adds(t, types)
      BY <1>2, <3>2, FailQueue
    <3> QED
      BY <3>1, <3>3
  <2>5. t = Added(how, msg.clientID, msg.req)
    BY <1>6, <2>3 DEF Added
  <2>6. Adds(t, {"SEND", "LEAVE"})
    BY <1>4, <2>4
  <2> QED
    BY <1>1, <1>2, <1>4, <1>6, <2>4, <2>5, <2>6
<1> QED
  BY <1>5, <1>6

-----------------------------------------------------------------------------
(* The end of each request: of a request in the list, either the slot      *)
(* still serves it or its end is in the queue.                             *)

(* The message that request id has ended.                                  *)
LeaveOf(id) == {[type |-> "LEAVE", requestID |-> id]}

(* Requests in the list have ids of their own, and a slot that serves one  *)
(* has it in the list.                                                     *)
InfosOK ==
    /\ \A a \in infoList : a.requestID \in 1 .. curID
    /\ \A a, b \in infoList : a.requestID = b.requestID => a = b
    /\ \A i \in Slot : slot[i].requestID # 0 =>
          \E a \in infoList : a.requestID = slot[i].requestID /\ a.slot = i

(* A request ends once, and not before it was made.                        *)
LeavesOK(id) ==
    /\ HoldsOne(msgQueue, LeaveOf(id))
    /\ id > curID => ~Holds(msgQueue, LeaveOf(id))

(* The end of a request is in the queue iff its slot serves it no more.    *)
EndsOK(a) == Holds(msgQueue, LeaveOf(a.requestID)) <=> slot[a.slot].requestID # a.requestID

(* What RequestsEndOnce needs to be inductive.                             *)
InfoInv ==
    /\ InfosOK
    /\ \A id \in Nat : LeavesOK(id)
    /\ \A a \in infoList : EndsOK(a)

(* A step that neither begins nor ends a request.                          *)
SameInfos ==
    /\ \A a \in infoList' : \E b \in infoList : b.requestID = a.requestID /\ b.slot = a.slot
    /\ \A b \in infoList : \E a \in infoList' : a.requestID = b.requestID /\ a.slot = b.slot
    /\ \A a, b \in infoList' : a.requestID = b.requestID => a = b

(* No slot begins or ends serving.                                         *)
SameServed == curID' = curID /\ \A i \in Slot : slot'[i].requestID = slot[i].requestID

(* The messages LeaveOf is about.                                          *)
LEMMA LeaveTypes ==
    /\ \A id : \A x \in LeaveOf(id) : x.type = "LEAVE"
    /\ \A a, b : [type |-> "LEAVE", requestID |-> a] \in LeaveOf(b) <=> a = b
    /\ \A m \in Message : \A id : m \in LeaveOf(id) <=> m.type = "LEAVE" /\ m.requestID = id
  BY DEF LeaveOf, Message

(* A step that takes and adds no LEAVE.                                    *)
LEMMA LeavesNeutral ==
    ASSUME TypeInv, NEW heads, NEW types, QueueStep(heads, types),
           "LEAVE" \notin heads, "LEAVE" \notin types
    PROVE  \A id : Neutral(LeaveOf(id))
  BY QueueNeutral, LeaveTypes

(* InfoInv in a step that neither begins nor ends a request.               *)
LEMMA EndsSame ==
    ASSUME InfoInv, TypeInv, SameInfos, SameServed, \A id \in Nat : Neutral(LeaveOf(id))
    PROVE  InfoInv'
<1>1. infoList \subseteq InfoRec /\ curID \in Nat
  BY HttpTypes
<1>2. InfosOK'
  BY DEF InfoInv, InfosOK, SameInfos, SameServed
<1>3. \A id \in Nat : LeavesOK(id)'
  BY DEF InfoInv, LeavesOK, SameServed, Neutral
<1>4. ASSUME NEW a \in infoList' PROVE EndsOK(a)'
  BY <1>1 DEF SameInfos, InfoRec, InfoInv, EndsOK, SameServed, Neutral
<1> QED
  BY <1>2, <1>3, <1>4 DEF InfoInv

(* A step that leaves the list.                                            *)
LEMMA ListSame ==
    ASSUME InfoInv, UNCHANGED infoList
    PROVE  SameInfos
  BY DEF InfoInv, InfosOK, SameInfos

(* Marking a request as answered is no end.                                *)
LEMMA ListMarked ==
    ASSUME InfoInv, TypeInv, NEW id, MarkReceived(id)
    PROVE  SameInfos
<1> DEFINE F(a) == IF a.requestID = id THEN [a EXCEPT !.bRecv = TRUE] ELSE a
<1>1. \A a \in infoList : F(a).requestID = a.requestID /\ F(a).slot = a.slot
  BY HttpTypes DEF InfoRec
<1>2. infoList' = {F(a) : a \in infoList}
  BY DEF MarkReceived
<1> HIDE DEF F
<1> QED
  BY <1>1, <1>2 DEF InfoInv, InfosOK, SameInfos

(* Neither is the heartbeat's mark.                                        *)
LEMMA ListLate ==
    ASSUME InfoInv, TypeInv, infoList' = {[info EXCEPT !.late = TRUE] : info \in infoList}
    PROVE  SameInfos
<1> DEFINE F(a) == [a EXCEPT !.late = TRUE]
<1>1. \A a \in infoList : F(a).requestID = a.requestID /\ F(a).slot = a.slot
  BY HttpTypes DEF InfoRec
<1>2. infoList' = {F(a) : a \in infoList}
  OBVIOUS
<1> HIDE DEF F
<1> QED
  BY <1>1, <1>2 DEF InfoInv, InfosOK, SameInfos

(* ReleaseSession puts the end of the request into the queue when the slot *)
(* stops serving it.                                                       *)
LEMMA ReleaseEnds ==
    ASSUME SlotInv, InfoInv, NEW w \in Worker, ReleaseSession(w), UNCHANGED infoList
    PROVE  InfoInv'
<1>0. /\ slot \in [Slot -> SlotRec] /\ TypeInv /\ infoList \subseteq InfoRec /\ curID \in Nat
      /\ curID' = curID /\ InfosOK
  BY HttpTypes DEF SlotInv, ReleaseSession, InfoInv
<1>1. PICK i \in Slot :
          /\ slot[i].requestID \in Nat \ {0}
          /\ slot' = [slot EXCEPT ![i] = InitializeSession(Closed(slot[i]))]
          /\ msgQueue' = msgQueue \o <<[type |-> "LEAVE", requestID |-> slot[i].requestID]>>
          /\ [type |-> "LEAVE", requestID |-> slot[i].requestID] \in Message
  BY ReleaseQueue
<1>2. PICK id \in Nat \ {0} : id = slot[i].requestID
  BY <1>1
<1>3. PICK leave \in Message : leave = [type |-> "LEAVE", requestID |-> id]
  BY <1>1, <1>2
<1>4. slot'[i].requestID = 0 /\ \A j \in Slot : j # i => slot'[j] = slot[j]
  BY <1>0, <1>1 DEF InitializeSession, Closed, SlotRec
<1>5. PICK n \in infoList : n.requestID = id /\ n.slot = i
  BY <1>0, <1>2 DEF InfosOK
<1>6. id \in 1 .. curID /\ ~Holds(msgQueue, LeaveOf(id))
  BY <1>0, <1>2, <1>5 DEF InfoInv, EndsOK, InfosOK
<1>7. \A x : (Holds(<<leave>>, LeaveOf(x)) <=> x = id) /\ HoldsOne(<<leave>>, LeaveOf(x))
  <2>1. \A x : leave \in LeaveOf(x) <=> x = id
    BY <1>3, LeaveTypes
  <2>2. \A X : (Holds(<<leave>>, X) <=> leave \in X) /\ HoldsOne(<<leave>>, X)
    BY HoldsFew
  <2> QED
    BY <2>1, <2>2
<1>8. \A x : /\ Holds(msgQueue', LeaveOf(x)) <=> Holds(msgQueue, LeaveOf(x)) \/ x = id
             /\ HoldsOne(msgQueue, LeaveOf(x)) => HoldsOne(msgQueue', LeaveOf(x))
  <2>1. <<leave>> \in Seq(Message) /\ msgQueue' = msgQueue \o <<leave>>
    BY <1>1, <1>2, <1>3, <1>0, HttpTypes, QueueEnd
  <2> QED
    BY <1>0, <1>6, <1>7, <2>1, AddStep
<1>9. InfosOK'
  BY <1>0, <1>2, <1>4 DEF InfosOK
<1>10. \A x \in Nat : LeavesOK(x)'
  BY <1>0, <1>6, <1>8 DEF LeavesOK, InfoInv
<1>11. ASSUME NEW a \in infoList PROVE EndsOK(a)'
  BY <1>0, <1>5, <1>2, <1>4, <1>8 DEF InfoRec, InfoInv, InfosOK, EndsOK
<1> QED
  BY <1>0, <1>9, <1>10, <1>11 DEF InfoInv

(* A request that is sent takes the next id; its slot serves it, or its    *)
(* end is in the queue at once.                                            *)
LEMMA SendServes ==
    ASSUME SlotInv, NEW how \in How, DirectRequestbyHttp(how)
    PROVE  \E i \in Slot :
               /\ i = Head(indexQueue) /\ slot[i].requestID = 0
               /\ curID' = curID + 1
               /\ slot'[i].requestID = IF Kept(how) THEN curID + 1 ELSE 0
               /\ \A j \in Slot : j # i => slot'[j] = slot[j]
               /\ LeftAtOnce(how) <=> ~Kept(how)
               /\ how = "connecting" => slot'[i].sock = "connecting"
               /\ how # "connecting" => slot'[i].sock = "closed" /\ ~Pending(i)'
<1>0. slot \in [Slot -> SlotRec] /\ TypeInv /\ curID \in Nat /\ indexQueue \in Seq(Slot)
  BY HttpTypes DEF SlotInv
<1>1. PICK i \in Slot :
      /\ i = Head(indexQueue) /\ indexQueue # <<>> /\ curID' = curID + 1
      /\ LeftAtOnce(how) <=> ~Kept(how)
      /\ \E r \in SlotRec :
            /\ slot' = [slot EXCEPT ![i] = r]
            /\ how = "connecting" => r = Connecting
            /\ how = "no_socket" /\ Kept(how) => r = Taken
            /\ ~Kept(how) => r.requestID = 0 /\ r.sock = "closed" /\ r.pending = slot[i].pending
  BY <1>0, DirectIs DEF How
<1>2. PICK r \in SlotRec :
            /\ slot' = [slot EXCEPT ![i] = r]
            /\ how = "connecting" => r = Connecting
            /\ how = "no_socket" /\ Kept(how) => r = Taken
            /\ ~Kept(how) => r.requestID = 0 /\ r.sock = "closed" /\ r.pending = slot[i].pending
  BY <1>1
<1>3. slot'[i] = r /\ slot[i] \in SlotRec /\ \A j \in Slot : j # i => slot'[j] = slot[j]
  BY <1>0, <1>2
<1>4. /\ Connecting.requestID = curID + 1 /\ Taken.requestID = curID + 1
      /\ Connecting.sock = "connecting" /\ Taken.sock = slot[i].sock
      /\ Taken.pending = slot[i].pending
  BY <1>0, <1>1, <1>3 DEF Connecting, Taken, SlotRec
<1>5. r.requestID = IF Kept(how) THEN curID + 1 ELSE 0
  BY <1>2, <1>4 DEF Kept
<1>6. slot[i].requestID = 0 /\ slot[i].sock = "closed" /\ slot[i].pending = "none"
  BY <1>0, <1>1, FreeTail DEF SlotInv, SlotOK, Free, Pending
<1>7. how # "connecting" => r.sock = "closed" /\ r.pending = "none"
  BY <1>2, <1>4, <1>6 DEF Kept
<1> QED
  BY <1>1, <1>2, <1>3, <1>4, <1>5, <1>6, <1>7 DEF Pending

(* InfoInv when a request is sent.                                         *)
LEMMA SendEnds ==
    ASSUME SlotInv, HttpLoginAssumption, InfoInv, NEW how \in How, MessageThread_Send(how)
    PROVE  InfoInv'
<1>0. /\ slot \in [Slot -> SlotRec] /\ TypeInv /\ infoList \subseteq InfoRec /\ curID \in Nat
      /\ InfosOK
  BY HttpTypes DEF SlotInv, InfoInv
<1>1. PICK i \in Slot :
          /\ i = Head(indexQueue) /\ slot[i].requestID = 0
          /\ curID' = curID + 1
          /\ slot'[i].requestID = IF Kept(how) THEN curID + 1 ELSE 0
          /\ \A j \in Slot : j # i => slot'[j] = slot[j]
          /\ LeftAtOnce(how) <=> ~Kept(how)
  BY SendServes DEF MessageThread_Send
<1>2. PICK msg \in Message, t \in Seq(Message) :
          /\ msg = Head(msgQueue) /\ msgQueue # <<>> /\ msg.type = "SEND"
          /\ msgQueue' = Tail(msgQueue) \o t
          /\ \A X : /\ Holds(t, X) <=> /\ how # "connecting"
                                       /\ \/ Holds(NowLeft(how), X)
                                          \/ Holds(Resent(msg.clientID, msg.req), X)
                    /\ ~(Holds(NowLeft(how), X) /\ Holds(Resent(msg.clientID, msg.req), X))
                              => HoldsOne(t, X)
  BY <1>0, SendQueue
<1>3. PICK n \in InfoRec :
          /\ n.requestID = curID + 1 /\ n.slot = i
          /\ infoList' = infoList \cup {n}
  BY <1>0, <1>2, NewSendTyped, <1>1 DEF MessageThread_Send, NewInfo
<1>4. \A x : /\ ~Holds(Resent(msg.clientID, msg.req), LeaveOf(x))
             /\ Holds(NowLeft(how), LeaveOf(x)) <=> ~Kept(how) /\ x = curID + 1
  <2>1. \A x : ~Holds(Resent(msg.clientID, msg.req), LeaveOf(x))
    <3>1. \A x : Send_Message(msg.clientID, msg.req) \notin LeaveOf(x)
      BY LeaveTypes DEF Send_Message
    <3> QED
      BY <3>1, HoldsFew DEF Resent
  <2>2. \A x : [type |-> "LEAVE", requestID |-> curID + 1] \in LeaveOf(x) <=> x = curID + 1
    BY LeaveTypes
  <2>3. \A x : Holds(NowLeft(how), LeaveOf(x)) <=> ~Kept(how) /\ x = curID + 1
    BY <1>1, <2>2, HoldsFew DEF NowLeft
  <2> QED
    BY <2>1, <2>3
<1>5. \A x : (Holds(t, LeaveOf(x)) <=> ~Kept(how) /\ x = curID + 1) /\ HoldsOne(t, LeaveOf(x))
  BY <1>2, <1>4 DEF Kept
<1>6. \A x : Head(msgQueue) \notin LeaveOf(x)
  BY <1>2, LeaveTypes
<1>7. \A x : /\ Holds(msgQueue', LeaveOf(x))
                  <=> Holds(msgQueue, LeaveOf(x)) \/ (~Kept(how) /\ x = curID + 1)
             /\ HoldsOne(msgQueue, LeaveOf(x)) /\ ~Holds(msgQueue, LeaveOf(curID + 1))
                  => HoldsOne(msgQueue', LeaveOf(x))
  BY <1>0, <1>2, <1>5, <1>6, TakeStep
<1>8. ~Holds(msgQueue, LeaveOf(curID + 1)) /\ \A a \in infoList : a.requestID # curID + 1
  BY <1>0 DEF InfoInv, LeavesOK, InfosOK
<1>9. InfosOK'
  BY <1>0, <1>1, <1>3, <1>8 DEF InfosOK
<1>10. ASSUME NEW x \in Nat PROVE LeavesOK(x)'
  BY <1>0, <1>1, <1>7, <1>8 DEF InfoInv, LeavesOK
<1>11. ASSUME NEW a \in infoList PROVE EndsOK(a)'
  BY <1>0, <1>8, <1>7, <1>1 DEF InfoRec, InfoInv, InfosOK, EndsOK
<1>12. EndsOK(n)'
  BY <1>7, <1>8, <1>0, <1>1, <1>3 DEF EndsOK
<1> QED
  BY <1>3, <1>9, <1>10, <1>11, <1>12 DEF InfoInv

(* The end of a request takes it off the list.                             *)
LEMMA LeaveEnds ==
    ASSUME SlotInv, HttpLoginAssumption, InfoInv, MessageThread_Leave
    PROVE  InfoInv'
<1>0. /\ slot \in [Slot -> SlotRec] /\ TypeInv /\ infoList \subseteq InfoRec /\ curID \in Nat
      /\ InfosOK /\ UNCHANGED <<slot, curID>>
  BY HttpTypes DEF SlotInv, InfoInv, MessageThread_Leave, httpVars
<1>1. PICK id \in Nat : id = Head(msgQueue).requestID
  BY <1>0, LeaveQueue
<1>2. PICK t \in Seq(Message) :
          /\ msgQueue # <<>> /\ Head(msgQueue) = [type |-> "LEAVE", requestID |-> id]
          /\ Adds(t, {"SEND"}) /\ msgQueue' = Tail(msgQueue) \o t
  BY <1>0, <1>1, LeaveQueue
<1>3. infoList' = infoList \ InfoOf(id)
  BY <1>1 DEF MessageThread_Leave, Forget
<1>4. \A x : ~Holds(t, LeaveOf(x)) /\ HoldsOne(t, LeaveOf(x)) /\ (Head(msgQueue) \in LeaveOf(x) <=> x = id)
  BY LeaveTypes, <1>2, AddsNone, <1>0, HttpTypes, QueueTake
<1>5. ASSUME NEW x
      PROVE  /\ x # id => (Holds(msgQueue', LeaveOf(x)) <=> Holds(msgQueue, LeaveOf(x)))
             /\ Holds(msgQueue', LeaveOf(x)) => Holds(msgQueue, LeaveOf(x))
             /\ HoldsOne(msgQueue, LeaveOf(x)) => HoldsOne(msgQueue', LeaveOf(x))
             /\ Holds(msgQueue, LeaveOf(id))
  BY <1>0, <1>2, <1>4, TakeStep
<1>6. \A a \in infoList : a \in infoList' <=> a.requestID # id
  BY <1>3 DEF InfoOf
<1>7. InfosOK'
  BY <1>0, <1>5, <1>6, <1>3 DEF InfosOK, InfoInv, EndsOK
<1>8. \A x \in Nat : LeavesOK(x)'
  BY <1>0, <1>5 DEF InfoInv, LeavesOK
<1>9. ASSUME NEW a \in infoList' PROVE EndsOK(a)'
  BY <1>3, <1>6, <1>0, <1>5 DEF InfoInv, EndsOK
<1> QED
  BY <1>7, <1>8, <1>9 DEF InfoInv

(* InfoInv in the steps of the library.                                    *)
LEMMA HttpEnds ==
    ASSUME SlotInv, InfoInv, Http
    PROVE  InfoInv'
<1>0. TypeInv /\ UNCHANGED infoList /\ SameInfos /\ slot \in [Slot -> SlotRec] /\ WorkersOK
  BY HttpSteps, ListSame, HttpTypes DEF SlotInv
<1>1. PICK w \in Worker : HttpStep(w)
  BY HttpSteps
<1>2. CASE ReleaseSession(w)
  BY <1>0, <1>2, ReleaseEnds
<1>3. CASE ~ReleaseSession(w)
  <2>1. QueueStep({}, {"RECV"})
    BY <1>1, <1>3, HttpQueue
  <2>2. \A id \in Nat : Neutral(LeaveOf(id))
    BY <1>0, <2>1, LeavesNeutral
  <2>3. SameServed
    <3>1. ASSUME NEW i \in Slot, Conn_Complete(w, i) \/ Conn_Complete_Fail(w, i) \/ Recv_Zero(w, i)
          PROVE  SameServed
      BY <1>0, <3>1 DEF Conn_Complete, Conn_Complete_Fail, Recv_Zero, SameServed, SlotRec
    <3>2. ASSUME NEW i \in Slot, Recv_Complete(w, i)
          PROVE  SameServed
      BY <3>2, <1>0 DEF Recv_Complete, RecvStep, SameServed, SlotRec
    <3>3. CASE Conn_Complete_Send(w)
      BY <1>0, <3>3 DEF WorkersOK, Conn_Complete_Send, Cut, SlotRec, SameServed
    <3> QED
      BY <1>1, <1>3, <3>1, <3>2, <3>3 DEF HttpStep
  <2> QED
    BY <1>0, <2>2, <2>3, EndsSame
<1> QED
  BY <1>2, <1>3

(* InfoInv is inductive, given SlotInv.                                    *)
LEMMA InfoInvNext ==
    ASSUME SlotInv, HttpLoginAssumption, InfoInv, [Next]_vars
    PROVE  InfoInv'
<1>0. TypeInv /\ slot \in [Slot -> SlotRec]
  BY HttpTypes DEF SlotInv
<1>1. ASSUME NEW heads \in {{}, {"SEND"}, {"RECV"}, {"HEARTBEAT"}},
             NEW types \in {{}, {"SEND"}, {"HEARTBEAT"}},
             QueueStep(heads, types), UNCHANGED httpVars, SameInfos
      PROVE  InfoInv'
  BY <1>0, <1>1, LeavesNeutral, EndsSame DEF httpVars, SameServed
<1>2. CASE ClientAction
  BY <1>2, <1>0, ClientQueue, ListSame, <1>1 DEF ClientAction, OnClientJoin, Login, OnClientLeave,
     Response_Player_Record
<1>3. CASE MessageThread_Empty \/ MessageThread_Sleep \/ MessageThread_PutBack \/ MessageThread_Drop
  BY <1>3, <1>0, IdleQueue, ListSame, <1>1 DEF MessageThread_Empty, MessageThread_Sleep,
     MessageThread_PutBack, MessageThread_Drop
<1>4. CASE MessageThread_Recv_Match \/ MessageThread_Recv_Battle
  BY <1>4, <1>0, RecvQueue, ListMarked, <1>1 DEF MessageThread_Recv_Match,
     MessageThread_Recv_Battle
<1>5. CASE MessageThread_Answer \/ MessageThread_Fail
  BY <1>5, <1>0, BeatQueue, ListSame, <1>1 DEF MessageThread_Answer, MessageThread_Fail
<1>6. CASE Send_Http_Heartbeat
  BY <1>6, <1>0, BeatQueue, ListSame, <1>1 DEF Send_Http_Heartbeat
<1>7. CASE MessageThread_HeartBeat
  BY <1>0, <1>7, ListLate, BeatQueue, LeavesNeutral, EndsSame DEF MessageThread_HeartBeat,
     Free_Session, Cut, SlotRec, SameServed
<1>8. CASE MessageThread_Leave
  BY <1>8, LeaveEnds
<1>9. ASSUME NEW how \in How, MessageThread_Send(how) PROVE InfoInv'
  BY <1>9, SendEnds
<1>10. CASE Http
  BY <1>10, HttpEnds
<1>11. CASE UNCHANGED vars
  BY <1>11 DEF vars, httpVars, InfoInv, InfosOK, LeavesOK, EndsOK
<1> QED
  BY <1>2, <1>3, <1>4, <1>5, <1>6, <1>7, <1>8, <1>9, <1>10, <1>11, NextIs DEF OtherAction

(* InfoInv holds at the start.                                             *)
LEMMA InfoInvInit ==
    ASSUME SlotInv, Init
    PROVE  InfoInv
<1>1. msgQueue = <<>> /\ curID = 0 /\ infoList = {}
  BY DEF Init, HttpInit
<1>2. \A i \in Slot : slot[i].requestID = 0
  BY DEF Init, HttpInit
<1>3. \A id \in Nat : LeavesOK(id)
  BY <1>1, HoldsFew DEF LeavesOK
<1> QED
  BY <1>1, <1>2, <1>3 DEF InfoInv, InfosOK

(* Counting the ends of a request gives one or none.                       *)
LEMMA LeavingIs ==
    ASSUME TypeInv, NEW id \in Nat, LeavesOK(id)
    PROVE  Cardinality(Leaving(id)) = IF Holds(msgQueue, LeaveOf(id)) THEN 1 ELSE 0
<1>1. \A m \in DOMAIN msgQueue : m \in Leaving(id) <=> msgQueue[m] \in LeaveOf(id)
  BY HttpTypes, LeaveTypes DEF Leaving
<1>2. CASE Holds(msgQueue, LeaveOf(id))
  <2>1. PICK m \in DOMAIN msgQueue : msgQueue[m] \in LeaveOf(id)
    BY <1>2 DEF Holds
  <2>2. Leaving(id) = {m}
    BY <1>1, <2>1 DEF Leaving, LeavesOK, HoldsOne
  <2> QED
    BY <1>2, <2>2, FS_Singleton
<1>3. CASE ~Holds(msgQueue, LeaveOf(id))
  BY <1>1, <1>3, FS_EmptySet DEF Leaving, Holds
<1> QED
  BY <1>2, <1>3

(* Each request in the list is served by its slot, or its end is in the    *)
(* queue once; each slot that is not free serves a request in the list.    *)
(* (Alloc_RequestInfo, OnLeaveServer)                                      *)
THEOREM RequestsEnd == Spec => []RequestsEndOnce
<1>1. Init => SlotInv /\ InfoInv
  BY SlotInvInit, InfoInvInit, HttpAsyncAssumption, HttpLoginAssumption
<1>2. SlotInv /\ InfoInv /\ [Next]_vars => (SlotInv /\ InfoInv)'
  BY SlotInvNext, InfoInvNext, HttpLoginAssumption
<1>3. ASSUME SlotInv, InfoInv PROVE RequestsEndOnce
  BY <1>3, HttpTypes, LeavingIs DEF SlotInv, InfoInv, InfoRec, EndsOK, SlotOK, InfosOK, InfoOf,
     RequestsEndOnce
<1> QED
  BY <1>1, <1>2, <1>3, PTL DEF Spec

-----------------------------------------------------------------------------
(* The answer to a request: it is in the queue once, and neither while the *)
(* slot still receives nor once it has been taken.                         *)

(* The messages with the answer to request id.                             *)
RecvOf(id) == {m \in Message : m.type = "RECV" /\ m.requestID = id}

(* The slot of the request has no socket, and is lost with it.             *)
Dead(a) == slot[a.slot].requestID = a.requestID /\ slot[a.slot].sock = "closed"

(* There is one answer to a request, which is neither answered nor lost.   *)
RecvOK(id) ==
    /\ HoldsOne(msgQueue, RecvOf(id))
    /\ id > curID => ~Holds(msgQueue, RecvOf(id))
    /\ Holds(msgQueue, RecvOf(id)) =>
          \A a \in infoList : a.requestID = id => ~a.bRecv /\ ~Dead(a)

(* While the slot waits for a response, its request has not been answered. *)
PendingOK(i) ==
    Pending(i) => /\ ~Holds(msgQueue, RecvOf(slot[i].requestID))
                  /\ \A a \in infoList : a.requestID = slot[i].requestID => ~a.bRecv

(* An answer comes once.                                                   *)
AnswerInv ==
    /\ \A id \in Nat : RecvOK(id)
    /\ \A i \in Slot : PendingOK(i)

(* The messages RecvOf is about.                                           *)
LEMMA RecvTypes ==
    /\ \A id : \A x \in RecvOf(id) : x.type = "RECV"
    /\ \A m \in Message : \A id : m \in RecvOf(id) <=> m.type = "RECV" /\ m.requestID = id
  BY DEF RecvOf

(* No request in the list changes its slot's state.                        *)
DeadSame == \A a \in infoList : Dead(a)' <=> Dead(a)

(* Slots that serve the same and keep or have no socket.                   *)
LEMMA DeadQuiet ==
    ASSUME TypeInv, \A i \in Slot : /\ slot'[i].requestID = slot[i].requestID
                                    /\ slot'[i].sock = "closed" <=> slot[i].sock = "closed"
    PROVE  DeadSame
  BY HttpTypes DEF DeadSame, Dead, InfoRec

(* A slot that is released has a socket until then, and serves no request  *)
(* after.                                                                  *)
LEMMA DeadRelease ==
    ASSUME SlotInv, InfoInv, NEW w \in Worker, ReleaseSession(w)
    PROVE  DeadSame
<1>1. PICK i \in Slot :
          /\ i = worker[w].slot /\ slot[i].requestID \in Nat \ {0}
          /\ slot' = [slot EXCEPT ![i] = InitializeSession(Closed(slot[i]))]
  BY ReleaseQueue
<1>2. slot[i].sock # "closed"
  BY <1>1 DEF SlotInv, SlotOK, Handled, ReleaseSession
<1>3. slot'[i].requestID = 0 /\ \A j \in Slot : j # i => slot'[j] = slot[j]
  BY HttpTypes, <1>1 DEF SlotInv, InitializeSession, Closed, SlotRec
<1>4. ASSUME NEW a \in infoList PROVE Dead(a)' <=> Dead(a)
  BY HttpTypes, <1>2, <1>3 DEF SlotInv, InfoInv, InfosOK, InfoRec, Dead
<1> QED
  BY <1>4 DEF DeadSame

(* A request that is sent takes a slot no request in the list had.         *)
LEMMA DeadSend ==
    ASSUME SlotInv, InfoInv, NEW how \in How, DirectRequestbyHttp(how)
    PROVE  DeadSame
  BY SendServes, HttpTypes DEF SlotInv, InfoInv, InfosOK, InfoRec, Dead, DeadSame

(* The slots in the steps of the library but for the release.              *)
LEMMA HttpServes ==
    ASSUME SlotInv, NEW w \in Worker, HttpStep(w), ~ReleaseSession(w)
    PROVE  /\ curID' = curID
           /\ \A i \in Slot : /\ slot'[i].requestID = slot[i].requestID
                              /\ slot'[i].sock = "closed" <=> slot[i].sock = "closed"
                              /\ Pending(i)' => Pending(i)
<1>0. slot \in [Slot -> SlotRec] /\ WorkersOK /\ \A i \in Slot : SlotOK(i)
  BY HttpTypes DEF SlotInv
<1>1. ASSUME NEW i \in Slot, Conn_Complete(w, i) \/ Conn_Complete_Fail(w, i) \/ Recv_Zero(w, i)
      PROVE  /\ curID' = curID
             /\ \A j \in Slot : /\ slot'[j].requestID = slot[j].requestID
                                /\ slot'[j].sock = "closed" <=> slot[j].sock = "closed"
                                /\ Pending(j)' => Pending(j)
  BY <1>0, <1>1 DEF Conn_Complete, Conn_Complete_Fail, Recv_Zero, TakeCompletion, Pending, SlotOK,
     SlotRec
<1>2. ASSUME NEW i \in Slot, Recv_Complete(w, i)
      PROVE  /\ curID' = curID
             /\ \A j \in Slot : /\ slot'[j].requestID = slot[j].requestID
                                /\ slot'[j].sock = slot[j].sock
                                /\ Pending(j)' => Pending(j)
  BY <1>2, <1>0 DEF Recv_Complete, RecvStep, TakeCompletion, Pending, SlotRec
<1>3. CASE Conn_Complete_Send(w)
  BY <1>0, <1>3 DEF WorkersOK, Conn_Complete_Send, Cut, SlotRec, Pending
<1> QED
  BY <1>1, <1>2, <1>3 DEF HttpStep

(* The list in a step that adds nothing to it and marks nothing received.  *)
ListKept ==
    \A a \in infoList' : \E b \in infoList :
        /\ b.requestID = a.requestID /\ b.slot = a.slot /\ b.bRecv = a.bRecv
        /\ b.clientID = a.clientID /\ b.type = a.type

(* Requests taken off the list.                                            *)
LEMMA KeptSame ==
    ASSUME infoList' \subseteq infoList
    PROVE  ListKept
  BY DEF ListKept

(* The heartbeat's mark.                                                   *)
LEMMA KeptLate ==
    ASSUME TypeInv, infoList' = {[info EXCEPT !.late = TRUE] : info \in infoList}
    PROVE  ListKept
<1> DEFINE F(a) == [a EXCEPT !.late = TRUE]
<1>1. \A a \in infoList : /\ F(a).requestID = a.requestID /\ F(a).slot = a.slot
                          /\ F(a).bRecv = a.bRecv /\ F(a).clientID = a.clientID
                          /\ F(a).type = a.type
  BY HttpTypes DEF InfoRec
<1>2. infoList' = {F(a) : a \in infoList}
  OBVIOUS
<1> HIDE DEF F
<1> QED
  BY <1>1, <1>2 DEF ListKept

(* AnswerInv in a step that makes no request and no answer.                *)
LEMMA AnswersSame ==
    ASSUME AnswerInv, TypeInv, curID' = curID, DeadSame, ListKept,
           \A id : Neutral(RecvOf(id)),
           \A i \in Slot : slot'[i].requestID = slot[i].requestID /\ (Pending(i)' => Pending(i))
    PROVE  AnswerInv'
<1>1. ASSUME NEW id \in Nat PROVE RecvOK(id)'
  BY DEF AnswerInv, ListKept, RecvOK, DeadSame, Dead, Neutral
<1>2. ASSUME NEW i \in Slot PROVE PendingOK(i)'
  BY DEF AnswerInv, ListKept, PendingOK, Neutral
<1> QED
  BY <1>1, <1>2 DEF AnswerInv

(* A step that takes and adds no RECV.                                     *)
LEMMA RecvNeutral ==
    ASSUME TypeInv, NEW heads, NEW types, QueueStep(heads, types),
           "RECV" \notin heads, "RECV" \notin types
    PROVE  \A id : Neutral(RecvOf(id))
  BY QueueNeutral, RecvTypes

(* A response is answered by the slot that was receiving it.               *)
LEMMA RecvAnswers ==
    ASSUME SlotInv, InfoInv, AnswerInv, UNCHANGED infoList,
           NEW w \in Worker, NEW i \in Slot, Recv_Complete(w, i)
    PROVE  AnswerInv'
<1>0. /\ slot \in [Slot -> SlotRec] /\ TypeInv /\ infoList \subseteq InfoRec /\ curID \in Nat
      /\ InfosOK /\ SlotOK(i) /\ slot[i] \in SlotRec
  BY HttpTypes DEF SlotInv, InfoInv
<1>1. PICK got \in MoreOf(slot[i].got) :
        \E todo \in Reading(got, slot[i].text) : RecvStep(w, i, got, todo)
  BY DEF Recv_Complete, RecvStep
<1>2. PICK todo \in Reading(got, slot[i].text) : RecvStep(w, i, got, todo)
  BY <1>1
<1>3. /\ Pending(i) /\ curID' = curID /\ slot[i].sock = "asked"
      /\ slot'[i].requestID = slot[i].requestID /\ slot'[i].sock = slot[i].sock
      /\ slot'[i].pending = IF todo = "post" THEN "recv" ELSE "none"
      /\ \A j \in Slot : j # i => slot'[j] = slot[j]
  BY <1>0, <1>2 DEF RecvStep, TakeCompletion, Pending, SlotRec
<1>4. DeadSame /\ ListKept
  BY <1>0, <1>3, DeadQuiet, KeptSame
<1>5. \A j \in Slot : slot'[j].requestID = slot[j].requestID /\ (Pending(j)' => Pending(j))
  BY <1>3 DEF Pending
<1>6. CASE todo \notin {"answer", "fail"}
  BY <1>2, <1>6, <1>0, <1>3, <1>4, <1>5, AnswersSame DEF RecvStep, Neutral
<1>7. CASE todo \in {"answer", "fail"}
  <2>1. PICK id \in Nat : id = slot[i].requestID
    BY <1>0 DEF SlotRec
  <2>2. PICK x \in Message : /\ x.type = "RECV" /\ x.requestID = id
                             /\ msgQueue' = msgQueue \o <<x>> /\ <<x>> \in Seq(Message)
    <3>1. PICK code \in {"error", "ok", "refused"} : Enqueue(<<Recv_Message(id, code)>>)
      BY <1>2, <1>7, <2>1 DEF RecvStep, Post
    <3>2. Recv_Message(id, code) \in Message /\ msgQueue \in Seq(Message)
      BY <1>0, MessageTypes, HttpTypes
    <3> QED
      BY <3>1, <3>2, QueueEnd DEF Enqueue, Recv_Message
  <2>3. \A y : x \in RecvOf(y) <=> y = id
    BY <2>2, RecvTypes
  <2>4. \A X : (Holds(<<x>>, X) <=> x \in X) /\ HoldsOne(<<x>>, X)
    BY HoldsFew
  <2>5. ~Holds(msgQueue, RecvOf(id)) /\ \A a \in infoList : a.requestID = id => ~a.bRecv
    BY <1>3, <2>1 DEF AnswerInv, PendingOK
  <2>6. \A y : /\ Holds(msgQueue', RecvOf(y)) <=> Holds(msgQueue, RecvOf(y)) \/ y = id
               /\ HoldsOne(msgQueue, RecvOf(y)) => HoldsOne(msgQueue', RecvOf(y))
    BY <1>0, <2>2, <2>3, <2>4, <2>5, AddStep
  <2>7. id # 0 /\ id <= curID
    BY <1>0, <1>3, <2>1 DEF SlotOK, InfosOK
  <2>8. \A a \in infoList : a.requestID = id => ~Dead(a)'
    BY <1>0, <2>1, <2>7, <1>3 DEF InfosOK, Dead
  <2>9. ASSUME NEW y \in Nat PROVE RecvOK(y)'
    BY <1>0, <1>3, <2>6, <2>7, <2>5, <2>8, <1>4 DEF AnswerInv, RecvOK, DeadSame
  <2>10. ASSUME NEW j \in Slot PROVE PendingOK(j)'
    <3>1. CASE j = i
      BY <1>3, <1>7, <3>1 DEF PendingOK, Pending
    <3>2. CASE j # i
      BY <1>3, <3>2, <1>0, <2>1, <2>7, <2>6 DEF AnswerInv, SlotInv, SlotOK, InfosOK, PendingOK,
         Pending
    <3> QED
      BY <3>1, <3>2
  <2> QED
    BY <2>9, <2>10 DEF AnswerInv
<1> QED
  BY <1>6, <1>7

(* AnswerInv in the steps of the library.                                  *)
LEMMA HttpAnswers ==
    ASSUME SlotInv, InfoInv, AnswerInv, Http
    PROVE  AnswerInv' /\ DeadSame
<1>0. TypeInv /\ UNCHANGED infoList /\ ListKept
  BY HttpSteps, KeptSame DEF SlotInv
<1>1. PICK w \in Worker : HttpStep(w)
  BY HttpSteps
<1>2. CASE ReleaseSession(w)
  <2>1. DeadSame
    BY <1>2, DeadRelease
  <2>2. PICK i \in Slot :
            /\ i = worker[w].slot
            /\ slot' = [slot EXCEPT ![i] = InitializeSession(Closed(slot[i]))]
            /\ msgQueue' = msgQueue \o <<[type |-> "LEAVE", requestID |-> slot[i].requestID]>>
            /\ [type |-> "LEAVE", requestID |-> slot[i].requestID] \in Message
    BY <1>2, ReleaseQueue
  <2>3. \A id : Neutral(RecvOf(id))
    <3>1. PICK x \in Message : x = [type |-> "LEAVE", requestID |-> slot[i].requestID]
      BY <2>2
    <3>2. x.type = "LEAVE" /\ Adds(<<x>>, {"LEAVE"}) /\ <<x>> \in Seq(Message)
      BY <3>1, AddsFew DEF Adds
    <3>3. QueueStep({}, {"LEAVE"})
      BY <2>2, <3>1, <3>2, QueueMoves
    <3>4. "RECV" \notin {} /\ "RECV" \notin {"LEAVE"}
      OBVIOUS
    <3> QED
      BY <1>0, <3>3, <3>4, RecvNeutral
  <2>4. ~Pending(i) /\ slot'[i].pending = slot[i].pending /\ slot'[i].requestID = 0
        /\ \A j \in Slot : j # i => slot'[j] = slot[j]
    BY <1>0, HttpTypes, <1>2, <2>2 DEF InitializeSession, Closed, SlotRec, SlotInv, SlotOK,
       Handled, ReleaseSession
  <2>5. \A id \in Nat : RecvOK(id)'
    BY <1>2, <2>1, <2>3, <1>0 DEF AnswerInv, RecvOK, Neutral, DeadSame, ReleaseSession
  <2>6. \A j \in Slot : PendingOK(j)'
    BY <2>3, <2>4, <1>0 DEF AnswerInv, PendingOK, Pending, Neutral
  <2> QED
    BY <2>1, <2>5, <2>6 DEF AnswerInv
<1>3. CASE ~ReleaseSession(w)
  BY <1>1, <1>3, HttpServes, <1>0, DeadQuiet, RecvAnswers, AnswersSame DEF Conn_Complete,
     Conn_Complete_Fail, Recv_Zero, Conn_Complete_Send, Neutral, HttpStep
<1> QED
  BY <1>2, <1>3

(* What an answer and the end of a request do to the queue and the seats.  *)
FailedSeat(c, twice) ==
    /\ Own(c) => seat' = [seat EXCEPT ![SeatOf(c)] = Failed(@, twice)]
    /\ ~Own(c) => seat' = seat

(* What a failure puts back is the request, or nothing.                    *)
LEMMA ResentTyped ==
    ASSUME NEW c \in Named, NEW req \in ReqType
    PROVE  /\ Adds(Resent(c, req), {"SEND"}) /\ Resent(c, req) \in Seq(Message)
           /\ \A X : /\ Holds(Resent(c, req), X) => Send_Message(c, req) \in X
                     /\ HoldsOne(Resent(c, req), X)
<1>1. PICK x \in Message : x = Send_Message(c, req) /\ x.type \in {"SEND"}
  BY MessageTypes DEF Send_Message
<1>2. Resent(c, req) = <<x>> \/ Resent(c, req) = <<>>
  BY <1>1 DEF Resent
<1>3. Adds(<<x>>, {"SEND"}) /\ Adds(<<>>, {"SEND"})
  BY <1>1, AddsFew
<1>4. <<x>> \in Seq(Message) /\ <<>> \in Seq(Message)
  BY <1>3 DEF Adds
<1>5. \A X : /\ Holds(<<x>>, X) <=> x \in X
             /\ ~Holds(<<>>, X) /\ HoldsOne(<<x>>, X) /\ HoldsOne(<<>>, X)
  BY HoldsFew
<1> QED
  BY <1>1, <1>2, <1>3, <1>4, <1>5

(* An answer taken: its request is in the list and is marked.              *)
LEMMA RecvTakes ==
    ASSUME TypeInv, HttpLoginAssumption, MessageThread_Recv_Match \/ MessageThread_Recv_Battle
    PROVE  \E msg \in Message, a \in infoList, t \in Seq(Message) :
               /\ msg = Head(msgQueue) /\ msgQueue # <<>> /\ msg.type = "RECV"
               /\ a.requestID = msg.requestID /\ MarkReceived(msg.requestID)
               /\ msgQueue' = Tail(msgQueue) \o t
               /\ \/ /\ t = Resent(a.clientID, a.type) /\ FailedSeat(a.clientID, FALSE)
                     /\ thread' = Failing(a.clientID, a.type)
                  \/ /\ t = <<>> /\ side = "Match" /\ UNCHANGED thread
                     /\ Present(a.clientID) => seat' = [seat EXCEPT ![SeatOf(a.clientID)] =
                                                          Receive_HttpRequest_SessionKey(@)]
                     /\ ~Present(a.clientID) => seat' = seat
                  \/ /\ t = <<>> /\ side = "Battle" /\ UNCHANGED seat
                     /\ Present(a.clientID) => thread' = [pc |-> "found", clientID |-> a.clientID,
                                                          req |-> a.type, ok |-> msg.code = "ok"]
                     /\ ~Present(a.clientID) => UNCHANGED thread
<1>1. PICK msg \in Message : msg = Head(msgQueue) /\ msg.type = "RECV"
  BY HeadTyped DEF MessageThread_Recv_Match, MessageThread_Recv_Battle
<1>2. /\ msgQueue # <<>> /\ MarkReceived(msg.requestID) /\ Tail(msgQueue) \in Seq(Message)
  BY <1>1, HeadTyped DEF MessageThread_Recv_Match, MessageThread_Recv_Battle
<1>3. <<>> \in Seq(Message) /\ Tail(msgQueue) = Tail(msgQueue) \o <<>>
  BY <1>2, QueueEnd
<1>4. ASSUME NEW a \in infoList, Fail_HttpRequest(a.clientID, a.type, FALSE, <<>>)
      PROVE  /\ msgQueue' = Tail(msgQueue) \o Resent(a.clientID, a.type)
             /\ Resent(a.clientID, a.type) \in Seq(Message) /\ FailedSeat(a.clientID, FALSE)
             /\ thread' = Failing(a.clientID, a.type)
  <2>1. a.clientID \in Named /\ a.type \in ReqType
    BY HttpTypes DEF InfoRec
  <2>2. PICK r \in Seq(Message) : r = Resent(a.clientID, a.type)
    BY <2>1, ResentTyped
  <2>3. /\ msgQueue' = Tail(msgQueue) \o (<<>> \o r) /\ FailedSeat(a.clientID, FALSE)
        /\ thread' = Failing(a.clientID, a.type)
    BY <1>2, <1>3, <1>4, <2>1, <2>2, FailIs, FailQueue DEF FailedSeat
  <2>4. <<>> \o r = r
    BY <2>2, QueueEnd
  <2> QED
    BY <2>2, <2>3, <2>4
<1>5. CASE MessageThread_Recv_Match
  BY <1>1, <1>5, <1>2, <1>4, <1>3 DEF MessageThread_Recv_Match, InfoOf
<1>6. CASE MessageThread_Recv_Battle
  BY <1>1, <1>6, <1>2, <1>4, <1>3 DEF MessageThread_Recv_Battle, InfoOf
<1> QED
  BY <1>5, <1>6

(* An end taken: its request was in the list and is off it.                *)
LEMMA LeaveTakes ==
    ASSUME TypeInv, HttpLoginAssumption, MessageThread_Leave
    PROVE  \E msg \in Message, a \in infoList, t \in Seq(Message) :
               /\ msg = Head(msgQueue) /\ msgQueue # <<>> /\ msg.type = "LEAVE"
               /\ a.requestID = msg.requestID /\ infoList' = infoList \ InfoOf(msg.requestID)
               /\ msgQueue' = Tail(msgQueue) \o t
               /\ \/ a.bRecv /\ t = <<>> /\ UNCHANGED <<seat, thread>>
                  \/ /\ ~a.bRecv /\ t = Resent(a.clientID, a.type) /\ FailedSeat(a.clientID, FALSE)
                     /\ thread' = Failing(a.clientID, a.type)
<1>1. PICK msg \in Message : msg = Head(msgQueue) /\ msg.type = "LEAVE"
  BY HeadTyped DEF MessageThread_Leave
<1>2. /\ msgQueue # <<>> /\ infoList' = infoList \ InfoOf(msg.requestID)
      /\ Tail(msgQueue) \in Seq(Message)
  BY <1>1, HeadTyped DEF MessageThread_Leave, Forget
<1>3. <<>> \in Seq(Message) /\ Tail(msgQueue) = Tail(msgQueue) \o <<>>
  BY <1>2, QueueEnd
<1>4. PICK a \in infoList :
         /\ a.requestID = msg.requestID
         /\ IF a.bRecv THEN Done ELSE Fail_HttpRequest(a.clientID, a.type, FALSE, <<>>)
  BY <1>1 DEF MessageThread_Leave, InfoOf
<1>5. CASE a.bRecv
  BY <1>1, <1>2, <1>3, <1>4, <1>5 DEF Done
<1>6. CASE ~a.bRecv
  <2>1. a.clientID \in Named /\ a.type \in ReqType
    BY HttpTypes DEF InfoRec
  <2>2. PICK r \in Seq(Message) : r = Resent(a.clientID, a.type)
    BY <2>1, ResentTyped
  <2>3. /\ msgQueue' = Tail(msgQueue) \o (<<>> \o r) /\ FailedSeat(a.clientID, FALSE)
        /\ thread' = Failing(a.clientID, a.type)
    BY <1>2, <1>3, <1>4, <1>6, <2>1, <2>2, FailIs, FailQueue DEF FailedSeat
  <2>4. <<>> \o r = r
    BY <2>2, QueueEnd
  <2> QED
    BY <1>1, <1>2, <1>4, <1>6, <2>2, <2>3, <2>4
<1> QED
  BY <1>5, <1>6

(* What a step of the message thread leaves of the list when the answer to *)
(* request id is taken.                                                    *)
ListMarkedAt(id) ==
    \A a \in infoList' : \E b \in infoList :
        /\ b.requestID = a.requestID /\ b.slot = a.slot
        /\ b.clientID = a.clientID /\ b.type = a.type
        /\ b.requestID # id => a.bRecv = b.bRecv

(* MarkReceived marks one request.                                         *)
LEMMA MarkedIs ==
    ASSUME TypeInv, NEW id, MarkReceived(id)
    PROVE  ListMarkedAt(id)
<1> DEFINE F(a) == IF a.requestID = id THEN [a EXCEPT !.bRecv = TRUE] ELSE a
<1>1. \A a \in infoList : /\ F(a).requestID = a.requestID /\ F(a).slot = a.slot
                          /\ F(a).clientID = a.clientID /\ F(a).type = a.type
                          /\ a.requestID # id => F(a).bRecv = a.bRecv
  BY HttpTypes DEF InfoRec
<1>2. infoList' = {F(a) : a \in infoList}
  BY DEF MarkReceived
<1> HIDE DEF F
<1>3. ASSUME NEW a \in infoList'
      PROVE  \E b \in infoList :
                /\ b.requestID = a.requestID /\ b.slot = a.slot
                /\ b.clientID = a.clientID /\ b.type = a.type
                /\ b.requestID # id => a.bRecv = b.bRecv
  BY <1>2, <1>1
<1> QED
  BY <1>3 DEF ListMarkedAt

(* Taking an answer: it was the only one, and the slot receives no more.   *)
LEMMA RecvTaken ==
    ASSUME TypeInv, HttpLoginAssumption, AnswerInv,
           MessageThread_Recv_Match \/ MessageThread_Recv_Battle
    PROVE  AnswerInv' /\ DeadSame
<1>0. UNCHANGED httpVars /\ UNCHANGED <<slot, curID>> /\ DeadSame
  BY DeadQuiet DEF MessageThread_Recv_Match, MessageThread_Recv_Battle, httpVars
<1>1. PICK msg \in Message, a0 \in infoList, t \in Seq(Message) :
               /\ msg = Head(msgQueue) /\ msgQueue # <<>> /\ msg.type = "RECV"
               /\ a0.requestID = msg.requestID /\ MarkReceived(msg.requestID)
               /\ msgQueue' = Tail(msgQueue) \o t
               /\ t = Resent(a0.clientID, a0.type) \/ t = <<>>
  BY RecvTakes
<1>2. PICK id : id = msg.requestID
  OBVIOUS
<1>3. \A y : ~Holds(t, RecvOf(y)) /\ HoldsOne(t, RecvOf(y))
  <2>1. a0.clientID \in Named /\ a0.type \in ReqType
    BY HttpTypes DEF InfoRec
  <2>2. \A y : Send_Message(a0.clientID, a0.type) \notin RecvOf(y)
    BY <2>1, MessageTypes, RecvTypes DEF Send_Message
  <2>3. \A X : ~Holds(<<>>, X) /\ HoldsOne(<<>>, X)
    BY HoldsFew
  <2>4. \A y : ~Holds(Resent(a0.clientID, a0.type), RecvOf(y))
            /\ HoldsOne(Resent(a0.clientID, a0.type), RecvOf(y))
    BY <2>1, <2>2, ResentTyped
  <2> QED
    BY <1>1, <2>3, <2>4
<1>4. \A y : msg \in RecvOf(y) <=> y = id
  BY <1>1, <1>2, RecvTypes
<1>5. \A y : /\ Holds(msgQueue', RecvOf(y)) => Holds(msgQueue, RecvOf(y))
             /\ HoldsOne(msgQueue, RecvOf(y)) => HoldsOne(msgQueue', RecvOf(y))
             /\ HoldsOne(msgQueue, RecvOf(id)) => ~Holds(msgQueue', RecvOf(id))
             /\ Holds(msgQueue, RecvOf(id))
  BY <1>1, <1>3, <1>4, TakeStep
<1>6. ListMarkedAt(id)
  BY <1>1, <1>2, MarkedIs
<1>7. id \in Nat /\ HoldsOne(msgQueue, RecvOf(id)) /\ ~Holds(msgQueue', RecvOf(id))
  BY <1>1, <1>2, MessageTypes, <1>5 DEF AnswerInv, RecvOK
<1>8. ASSUME NEW y \in Nat PROVE RecvOK(y)'
  BY <1>6, <1>5, <1>7, <1>0 DEF AnswerInv, ListMarkedAt, RecvOK, Dead
<1>9. ASSUME NEW i \in Slot PROVE PendingOK(i)'
  BY <1>0, <1>5, <1>6 DEF AnswerInv, PendingOK, ListMarkedAt, Pending
<1> QED
  BY <1>0, <1>8, <1>9 DEF AnswerInv

(* AnswerInv when a request is sent.                                       *)
LEMMA SendAnswers ==
    ASSUME SlotInv, HttpLoginAssumption, InfoInv, AnswerInv, NEW how \in How, MessageThread_Send(how)
    PROVE  AnswerInv' /\ DeadSame
<1>0. TypeInv /\ curID \in Nat /\ DirectRequestbyHttp(how) /\ infoList \subseteq InfoRec /\ InfosOK
  BY HttpTypes DEF SlotInv, MessageThread_Send, InfoInv
<1>1. DeadSame
  BY <1>0, DeadSend
<1>2. PICK i \in Slot :
          /\ i = Head(indexQueue) /\ slot[i].requestID = 0 /\ curID' = curID + 1
          /\ slot'[i].requestID = IF Kept(how) THEN curID + 1 ELSE 0
          /\ \A j \in Slot : j # i => slot'[j] = slot[j]
          /\ how # "connecting" => ~Pending(i)'
  BY <1>0, SendServes
<1>3. PICK msg \in Message : msg = Head(msgQueue) /\ msg.type = "SEND" /\ msgQueue # <<>>
  BY <1>0, SendQueue
<1>4. PICK n : /\ n.requestID = curID + 1 /\ n.bRecv = FALSE /\ infoList' = infoList \cup {n}
  BY <1>3 DEF MessageThread_Send
<1>5. \A id : Neutral(RecvOf(id))
  BY <1>0, SendQueue, <1>3, RecvNeutral DEF QueueStep
<1>6. curID + 1 \in Nat /\ ~Holds(msgQueue, RecvOf(curID + 1))
  BY <1>0 DEF AnswerInv, RecvOK
<1>7. ASSUME NEW id \in Nat PROVE RecvOK(id)'
  BY <1>5, <1>0, <1>2, <1>6, <1>1, <1>4 DEF AnswerInv, Neutral, RecvOK, DeadSame
<1>8. ASSUME NEW j \in Slot PROVE PendingOK(j)'
  <2>1. CASE j # i
    BY <1>2, <2>1, <1>0, <1>4, <1>5 DEF AnswerInv, SlotInv, SlotOK, InfosOK, PendingOK, Pending,
       Neutral
  <2>2. CASE j = i /\ how = "connecting"
    BY <1>2, <2>2, <1>5, <1>6, <1>0, <1>4 DEF Kept, Neutral, InfosOK, PendingOK
  <2>3. CASE j = i /\ how # "connecting"
    BY <1>2, <2>3 DEF PendingOK
  <2> QED
    BY <2>1, <2>2, <2>3
<1> QED
  BY <1>1, <1>7, <1>8 DEF AnswerInv

(* All other steps leave the answers where they are.                       *)
LEMMA QuietAnswers ==
    ASSUME TypeInv, AnswerInv, ListKept, UNCHANGED httpVars,
           NEW heads, NEW types, QueueStep(heads, types), "RECV" \notin heads, "RECV" \notin types
    PROVE  AnswerInv' /\ DeadSame
  BY DeadQuiet, RecvNeutral, AnswersSame DEF httpVars, Pending

(* The steps that neither add a request nor take an answer.                *)
KeepingAction ==
    \/ ClientAction
    \/ MessageThread_Empty \/ MessageThread_Sleep \/ MessageThread_PutBack \/ MessageThread_Drop
    \/ MessageThread_Answer \/ MessageThread_Fail \/ Send_Http_Heartbeat
    \/ MessageThread_Leave
    \/ MessageThread_HeartBeat

(* AnswerInv in all steps but those that send a request or take an answer. *)
LEMMA KeepingAnswers ==
    ASSUME SlotInv, HttpLoginAssumption, AnswerInv, KeepingAction
    PROVE  AnswerInv' /\ DeadSame /\ ListKept
<1>0. TypeInv /\ slot \in [Slot -> SlotRec]
  BY HttpTypes DEF SlotInv
<1>1. ASSUME NEW heads \in {{}, {"SEND"}, {"LEAVE"}}, NEW types \in {{}, {"SEND"}, {"HEARTBEAT"}},
             QueueStep(heads, types), UNCHANGED httpVars, infoList' \subseteq infoList
      PROVE  AnswerInv' /\ DeadSame /\ ListKept
  BY <1>1, KeptSame, <1>0, QuietAnswers
<1>2. CASE ClientAction
  BY <1>2, <1>0, ClientQueue, <1>1 DEF ClientAction, OnClientJoin, Login, OnClientLeave,
     Response_Player_Record
<1>3. CASE MessageThread_Empty \/ MessageThread_Sleep \/ MessageThread_PutBack \/ MessageThread_Drop
  BY <1>3, <1>0, IdleQueue, <1>1 DEF MessageThread_Empty, MessageThread_Sleep,
     MessageThread_PutBack, MessageThread_Drop
<1>4. CASE MessageThread_Answer
  BY <1>4, <1>0, BeatQueue, <1>1 DEF MessageThread_Answer
<1>8. CASE MessageThread_Fail
  BY <1>8, <1>0, BeatQueue, <1>1 DEF MessageThread_Fail
<1>5. CASE Send_Http_Heartbeat
  BY <1>5, <1>0, BeatQueue, <1>1 DEF Send_Http_Heartbeat
<1>6. CASE MessageThread_Leave
  BY <1>6, <1>0, LeaveQueue, QueueMoves, <1>1 DEF MessageThread_Leave, Forget
<1>7. CASE MessageThread_HeartBeat
  BY <1>0, <1>7, KeptLate, BeatQueue, RecvNeutral, DeadQuiet, AnswersSame DEF
     MessageThread_HeartBeat, Free_Session, Cut, SlotRec, Pending
<1> QED
  BY <1>2, <1>3, <1>4, <1>5, <1>6, <1>7, <1>8 DEF KeepingAction

-----------------------------------------------------------------------------
(* The login of a client.  Of each of its requests there is one at a time: *)
(* to be sent, waiting for its answer, answered or failed with the player  *)
(* found, or told.                                                         *)

(* The two requests of a login.                                            *)
Asked == {"account", "contents"}
(* The messages that ask for this request of client c to be sent.          *)
SendOf(c, req) == {m \in Message : m.type = "SEND" /\ m.clientID = c /\ m.req = req}
(* Requests other than for the account.                                    *)
OtherSends     == {m \in Message : m.type = "SEND" /\ m.req # "account"}

(* A request in the list that may still be answered.                       *)
Waiting(a)        == ~a.bRecv /\ ~Dead(a)
(* A request in the list is this one of client c.                          *)
IsFor(a, c, req)  == a.clientID = c /\ a.type = req
(* The request is to be sent,                                              *)
Sending(c, req)   == Holds(msgQueue, SendOf(c, req))
(* waits for its answer,                                                   *)
Served(c, req)    == \E a \in infoList : IsFor(a, c, req) /\ Waiting(a)
(* is in the list, answered or not,                                        *)
Listed(c, req)    == \E a \in infoList : IsFor(a, c, req)
(* has its answer or its failure, whose player was found,                  *)
Holding           == {"found", "failing"}
Found(c, req)     == thread.pc \in Holding /\ thread.clientID = c /\ thread.req = req
(* or was told.                                                            *)
Told(c, req)      == IF side = "Match" THEN req = "account" /\ seat[SeatOf(c)].answers > 0
                                       ELSE req \in seat[SeatOf(c)].had

(* It is to be sent, is waiting or is found, once and one of these.        *)
Once(c, req) ==
    /\ HoldsOne(msgQueue, SendOf(c, req))
    /\ \A a, b \in infoList :
          IsFor(a, c, req) /\ IsFor(b, c, req) /\ Waiting(a) /\ Waiting(b) => a = b
    /\ Sending(c, req) => ~Served(c, req) /\ ~Found(c, req)
    /\ Served(c, req) => ~Found(c, req)

(* It is one of these,                                                     *)
Underway(c, req) == Sending(c, req) \/ Served(c, req) \/ Found(c, req)
(* and none once it was told.                                              *)
OneOf(c, req)    == Once(c, req) /\ (Underway(c, req) => ~Told(c, req))

(* Nothing is under way for client c.                                      *)
NothingFor(c) == \A req \in Asked : ~Sending(c, req) /\ ~Listed(c, req) /\ ~Found(c, req)

(* 1 for TRUE.                                                             *)
Bit(b) == IF b THEN 1 ELSE 0

(* What a seat says of its client.  Unless it is excused, nothing was      *)
(* answered before it asked, the count of successes is that of the answers *)
(* it had, and it is logged in with both.                                  *)
SeatOK(p, s) ==
    /\ s.clientID # 0 => s.clientID <= arrived /\ SeatOf(s.clientID) = p
    /\ s.clientID = 0 => s.asked = 0
    /\ side = "Match" => ~s.bLogin
    /\ s.excused = {} =>
          /\ s.asked = 0 => s.had = {} /\ s.answers = 0
          /\ side = "Match" => s.answers <= 1
          /\ side = "Battle" =>
                /\ s.answers = Bit(s.bSendLoginResult)
                /\ s.selectCount = Bit("account" \in s.had) + Bit("contents" \in s.had)
          /\ s.bLogin => Asked \subseteq s.had

(* The same for each seat.                                                 *)
SeatsOK == \A p \in Seat : SeatOK(p, seat[p])

(* The Match server asks for accounts only.                                *)
MatchOK ==
    side = "Match" => /\ \A a \in infoList : a.type = "account"
                      /\ ~Holds(msgQueue, OtherSends)
                      /\ thread.pc \notin Holding

(* Nothing is under way for a client that has not come or not asked.       *)
Fresh(c)   == seat[SeatOf(c)].asked = 0 /\ seat[SeatOf(c)].excused = {}
NothingOK ==
    \A c \in Client : c > arrived \/ (Present(c) /\ Fresh(c)) => NothingFor(c)

(* For a client whose answers are its own, each request is in one place.   *)
Excused(c) == seat[SeatOf(c)].excused # {}
WorkOK ==
    \A c \in Client : Present(c) /\ ~Excused(c) => \A req \in Asked : OneOf(c, req)

(* What LoginSound needs to be inductive.                                  *)
LoginInv == SeatsOK /\ MatchOK /\ NothingOK /\ WorkOK

(* The messages SendOf and OtherSends are about.                           *)
LEMMA SendTypes ==
    /\ \A c, req : \A x \in SendOf(c, req) : x.type = "SEND"
    /\ \A x \in OtherSends : x.type = "SEND"
    /\ \A m \in Message : \A c, req : m \in SendOf(c, req) <=> m.type = "SEND" /\ m.clientID = c /\ m.req = req
    /\ \A m \in Message : m \in OtherSends <=> m.type = "SEND" /\ m.req # "account"
    /\ \A c \in Named, req \in ReqType :
          /\ Send_Message(c, req).type = "SEND" /\ Send_Message(c, req).clientID = c
          /\ Send_Message(c, req).req = req
  BY DEF SendOf, OtherSends, Send_Message

(* What is said of a seat stays true of one that differs in other fields,  *)
(* or is excused of more.                                                  *)
Alike(s, r) ==
    /\ r.clientID = s.clientID /\ r.asked = s.asked /\ r.had = s.had /\ r.answers = s.answers
    /\ r.bLogin = s.bLogin /\ r.bSendLoginResult = s.bSendLoginResult
    /\ r.selectCount = s.selectCount /\ s.excused \subseteq r.excused

LEMMA AlikeOK ==
    ASSUME NEW p, NEW s, NEW r, SeatOK(p, s), Alike(s, r)
    PROVE  SeatOK(p, r)
  BY DEF SeatOK, Alike

(* A failure leaves the seat alike, and excused if it is the second of its *)
(* request or not the client's own.                                        *)
LEMMA FailedAlike ==
    ASSUME NEW s \in SeatRec, NEW twice \in BOOLEAN, NEW own \in BOOLEAN
    PROVE  /\ Alike(s, Failed(s, twice)) /\ (twice => Failed(s, twice).excused # {})
           /\ Alike(s, Again(s, own)) /\ (~own => Again(s, own).excused # {})
<1>1. ASSUME NEW r \in SeatRec, NEW o \in BOOLEAN
      PROVE  Alike(r, Again(r, o)) /\ (~o => Again(r, o).excused # {})
  <2> DEFINE d == r.disconnect \/ (r.clientID # 0 /\ r.failCount + 1 > FailLimit)
             e == r.excused \cup Stray(o)
             n == r.failCount + 1
  <2>1. Again(r, o) = [r EXCEPT !.failCount = n, !.disconnect = d, !.excused = e]
    BY DEF Again
  <2>2. r.excused \subseteq e /\ (~o => e # {})
    BY DEF Stray
  <2> HIDE DEF d, e, n
  <2> QED
    BY <2>1, <2>2 DEF Alike, SeatRec
<1>2. PICK q : q = Twice(s, twice)
  OBVIOUS
<1>3. q \in SeatRec /\ Alike(s, q) /\ (twice => q.excused # {})
  <2> DEFINE e == s.excused \cup IF twice THEN {"twice"} ELSE {}
  <2>1. e \in SUBSET Exception /\ q = [s EXCEPT !.excused = e]
    BY <1>2 DEF Twice, SeatRec, Exception
  <2>2. s.excused \subseteq e /\ (twice => e # {})
    OBVIOUS
  <2> HIDE DEF e
  <2> QED
    BY <2>1, <2>2 DEF Alike, SeatRec
<1> QED
  BY <1>1, <1>2, <1>3 DEF Failed, Alike

(* The session key comes once.                                             *)
LEMMA KeyOK ==
    ASSUME NEW p, NEW s \in SeatRec, SeatOK(p, s), side = "Match",
           s.asked = 0 => s.excused # {}, s.excused = {} => s.answers = 0
    PROVE  SeatOK(p, Receive_HttpRequest_SessionKey(s))
<1> DEFINE r == [s EXCEPT !.answers = s.answers + 1]
<1>1. Receive_HttpRequest_SessionKey(s) = r
  BY DEF Receive_HttpRequest_SessionKey
<1>2. /\ r.clientID = s.clientID /\ r.asked = s.asked /\ r.had = s.had
      /\ r.answers = s.answers + 1 /\ s.answers \in Nat
      /\ r.bLogin = s.bLogin /\ r.excused = s.excused
  BY DEF SeatRec
<1> HIDE DEF r
<1> QED
  BY <1>1, <1>2 DEF SeatOK

(* The result is told once, since bSendLoginResult is asked first.         *)
LEMMA ResultOK ==
    ASSUME NEW p, NEW s \in SeatRec, NEW ok \in BOOLEAN, SeatOK(p, s), side = "Battle",
           s.asked = 0 => s.excused # {}, ok => Asked \subseteq s.had \/ s.excused # {}
    PROVE  SeatOK(p, Response_Player_Login(s, ok))
<1> DEFINE r == [s EXCEPT !.bSendLoginResult = TRUE, !.bLogin = ok, !.answers = s.answers + 1]
<1>1. CASE s.bSendLoginResult
  BY <1>1 DEF Response_Player_Login
<1>2. CASE ~s.bSendLoginResult
  <2>1. Response_Player_Login(s, ok) = r
    BY <1>2 DEF Response_Player_Login
  <2>2. /\ r.clientID = s.clientID /\ r.asked = s.asked /\ r.had = s.had
        /\ r.answers = s.answers + 1 /\ r.bSendLoginResult = TRUE
        /\ r.selectCount = s.selectCount /\ r.bLogin = ok /\ r.excused = s.excused
    BY DEF SeatRec
  <2>3. s.excused = {} => s.answers = 0
    BY <1>2 DEF SeatOK, Bit
  <2> HIDE DEF r
  <2> QED
    BY <2>1, <2>2, <2>3 DEF SeatOK, Bit
<1> QED
  BY <1>1, <1>2

(* A success that was not there before is counted with its request.        *)
LEMMA SearchOK ==
    ASSUME NEW p, NEW s \in SeatRec, NEW ok \in BOOLEAN, NEW own \in BOOLEAN, NEW req \in Asked,
           SeatOK(p, s), side = "Battle",
           own /\ s.excused = {} => s.asked # 0 /\ req \notin s.had
    PROVE  SeatOK(p, Receive_HttpRequest_Search(s, req, ok, own))
<1> DEFINE e == s.excused \cup Stray(own)
           h == IF own THEN s.had \cup {req} ELSE s.had
           n == s.selectCount + 1
           marked  == [s EXCEPT !.excused = e]
           counted == [marked EXCEPT !.selectCount = n, !.had = h]
<1>1. e \in SUBSET Exception /\ h \in SUBSET ReqType /\ n \in Nat /\ s.excused \subseteq e
  BY DEF SeatRec, Asked, ReqType, Stray, Exception
<1>2. e = {} => s.asked # 0 /\ n = Bit("account" \in h) + Bit("contents" \in h)
  BY DEF SeatOK, Bit, Asked, Stray
<1>3. s.had \subseteq h
  OBVIOUS
<1>4. marked.selectCount = s.selectCount /\ marked.had = s.had
  BY DEF SeatRec
<1> HIDE DEF e, h, n
<1>5. marked \in SeatRec /\ Alike(s, marked) /\ marked.excused = e
  BY <1>1 DEF SeatRec, Alike
<1>6. /\ counted.clientID = s.clientID /\ counted.asked = s.asked /\ counted.had = h
      /\ counted.answers = s.answers /\ counted.bSendLoginResult = s.bSendLoginResult
      /\ counted.selectCount = n /\ counted.bLogin = s.bLogin /\ counted.excused = e
      /\ counted \in SeatRec
  BY <1>1 DEF SeatRec
<1>7. Receive_HttpRequest_Search(s, req, ok, own) =
          IF ~ok THEN Response_Player_Login(marked, FALSE)
          ELSE IF counted.selectCount = 2 THEN Response_Player_Login(counted, TRUE) ELSE counted
  BY <1>4 DEF Receive_HttpRequest_Search, e, h, n
<1> HIDE DEF marked, counted
<1>8. SeatOK(p, marked)
  BY <1>5, AlikeOK
<1>9. SeatOK(p, counted)
  BY <1>1, <1>2, <1>3, <1>6 DEF SeatOK
<1>10. n = 2 /\ e = {} => Asked \subseteq h
  BY <1>2 DEF Bit, Asked
<1>11. SeatOK(p, Response_Player_Login(marked, FALSE))
  <2>1. marked.asked = 0 => marked.excused # {}
    BY <1>2, <1>5 DEF Alike
  <2> QED
    BY <1>5, <1>8, <2>1, ResultOK
<1>12. n = 2 => SeatOK(p, Response_Player_Login(counted, TRUE))
  <2>1. counted.asked = 0 => counted.excused # {}
    BY <1>2, <1>6
  <2>2. n = 2 => Asked \subseteq counted.had \/ counted.excused # {}
    BY <1>6, <1>10
  <2> QED
    BY <1>6, <1>9, <2>1, <2>2, ResultOK
<1> QED
  BY <1>6, <1>7, <1>9, <1>11, <1>12

(* No more of X in the queue than before.                                  *)
QueueFewer(X) ==
    /\ Holds(msgQueue', X) => Holds(msgQueue, X)
    /\ HoldsOne(msgQueue, X) => HoldsOne(msgQueue', X)

(* No request of this kind in the list, or waiting, that was not before.   *)
ListFewer(c, req) ==
    \A a \in infoList' : IsFor(a, c, req) =>
        \E b \in infoList : /\ b.requestID = a.requestID /\ IsFor(b, c, req)
                            /\ Waiting(a)' => Waiting(b)

(* A step that brings the request of this client no further.               *)
Fewer(c, req) ==
    /\ QueueFewer(SendOf(c, req))
    /\ ListFewer(c, req)
    /\ Found(c, req)' => Found(c, req)

(* Such a step moves the request to no second place.                       *)
LEMMA FewerWork ==
    ASSUME InfosOK', NEW c, NEW req, Fewer(c, req)
    PROVE  /\ Once(c, req) => Once(c, req)'
           /\ Underway(c, req)' => Underway(c, req)
           /\ Listed(c, req)' => Listed(c, req)
<1>1. Sending(c, req)' => Sending(c, req)
  BY DEF Fewer, QueueFewer, Sending, SendOf
<1>2. Served(c, req)' => Served(c, req)
  BY DEF Fewer, ListFewer, Served
<1>3. Listed(c, req)' => Listed(c, req)
  BY DEF Fewer, ListFewer, Listed
<1>4. Found(c, req)' => Found(c, req)
  BY DEF Fewer
<1>5. HoldsOne(msgQueue, SendOf(c, req)) => HoldsOne(msgQueue', SendOf(c, req))
  BY DEF Fewer, QueueFewer
<1>6. ASSUME Once(c, req), NEW a \in infoList', NEW b \in infoList',
             IsFor(a, c, req), IsFor(b, c, req), Waiting(a)', Waiting(b)'
      PROVE  a = b
  BY <1>6 DEF Fewer, ListFewer, Once, InfosOK
<1>7. Once(c, req) => Once(c, req)'
  BY <1>1, <1>2, <1>4, <1>5, <1>6 DEF Once, IsFor, SendOf
<1> QED
  BY <1>1, <1>2, <1>3, <1>4, <1>7 DEF Underway

(* A list that keeps its requests.                                         *)
LEMMA FewerKept ==
    ASSUME ListKept, DeadSame
    PROVE  \A c, req : ListFewer(c, req)
  BY DEF ListKept, DeadSame, Dead, IsFor, Waiting, ListFewer

(* Messages added that are none of X.                                      *)
LEMMA FewerAdded ==
    ASSUME TypeInv, NEW t \in Seq(Message), NEW X, ~Holds(t, X),
           \/ msgQueue' = msgQueue \o t
           \/ msgQueue # <<>> /\ msgQueue' = Tail(msgQueue) \o t
    PROVE  QueueFewer(X)
  BY AddStep, TakeStep DEF Holds, HoldsOne, QueueFewer

(* A step that adds no SEND.                                               *)
LEMMA FewerStep ==
    ASSUME TypeInv, NEW heads, NEW types, QueueStep(heads, types), "SEND" \notin types
    PROVE  /\ \A c, req : QueueFewer(SendOf(c, req))
           /\ QueueFewer(OtherSends)
<1>1. ASSUME NEW X, \A x \in X : x.type = "SEND" PROVE QueueFewer(X)
  BY <1>1, FewerAdded DEF Adds, Holds, QueueStep
<1> QED
  BY <1>1, SendTypes

(* Each client that stays has its seat, and what it asked.                 *)
SeatStable ==
    /\ arrived' = arrived /\ side' = side
    /\ \A c \in Client : Present(c)' =>
          /\ Present(c)
          /\ seat'[SeatOf(c)].asked = 0 => seat[SeatOf(c)].asked = 0
          /\ seat[SeatOf(c)].excused \subseteq seat'[SeatOf(c)].excused

(* A step that moves on the requests R of one client, and no other.        *)
LEMMA LoginMoved ==
    ASSUME TypeInv, LoginInv, InfosOK', SeatStable, SeatsOK', MatchOK', NEW c0 \in Named, NEW R,
           \A req \in Asked : req \in R /\ c0 \in Client =>
               /\ c0 <= arrived /\ (Present(c0)' => ~Fresh(c0)')
               /\ Present(c0)' /\ ~Excused(c0)' => OneOf(c0, req)',
           \A c \in Client, req \in Asked : c # c0 \/ req \notin R =>
               /\ Fewer(c, req)
               /\ Present(c)' /\ Told(c, req)' => Told(c, req)
    PROVE  LoginInv'
<1>1. \A c : SeatOf(c)' = SeatOf(c)
  BY DEF SeatStable, SeatOf
<1>2. arrived \in Nat
  BY HttpTypes
<1>3. ASSUME NEW c \in Client,
             c > arrived' \/ (Present(c)' /\ Fresh(c)'), NEW req \in Asked
      PROVE  ~Sending(c, req)' /\ ~Listed(c, req)' /\ ~Found(c, req)'
  BY <1>1, <1>3, <1>2, FewerWork DEF Fresh, SeatStable, LoginInv, NothingOK, Client, NothingFor, Fewer,
     QueueFewer, Sending, SendOf
<1>4. NothingOK'
  BY <1>1, <1>3 DEF NothingOK, NothingFor
<1>5. ASSUME NEW c \in Client, Present(c)', ~Excused(c)', NEW req \in Asked
      PROVE  OneOf(c, req)'
  BY <1>1, <1>5, FewerWork DEF Excused, SeatStable, LoginInv, WorkOK, OneOf
<1>6. WorkOK'
  BY <1>1, <1>5 DEF WorkOK
<1> QED
  BY <1>4, <1>6 DEF LoginInv

(* What is under way for a client was asked by it.                         *)
LEMMA BusyAsked ==
    ASSUME LoginInv, TypeInv, NEW c \in Client, NEW req \in Asked,
           Sending(c, req) \/ Listed(c, req) \/ Found(c, req)
    PROVE  c <= arrived /\ (Present(c) => ~Fresh(c))
  BY HttpTypes DEF LoginInv, NothingOK, NothingFor, Client

(* SeatsOK when each seat is as it should be.                              *)
LEMMA SeatsStep ==
    ASSUME side' = side, arrived' = arrived, \A p \in Seat : SeatOK(p, seat'[p])
    PROVE  SeatsOK'
BY DEF SeatsOK, SeatOK, Seat, SeatOf

(* MatchOK when nothing is added but for accounts.                         *)
LEMMA MatchStep ==
    ASSUME TypeInv, MatchOK, side' = side,
           \A a \in infoList' : \E b \in infoList : b.type = a.type,
           side = "Match" => QueueFewer(OtherSends),
           thread'.pc \in Holding => side = "Battle" \/ thread' = thread
    PROVE  MatchOK'
  BY DEF OtherSends, MatchOK, QueueFewer

(* Told depends on these of a seat only.                                   *)
SameTold(c) == /\ seat'[SeatOf(c)].answers = seat[SeatOf(c)].answers
               /\ seat'[SeatOf(c)].had = seat[SeatOf(c)].had

(* A client is told nothing.                                               *)
LEMMA ToldSame ==
    ASSUME side' = side, NEW c, SameTold(c)
    PROVE  \A req : Told(c, req)' <=> Told(c, req)
BY DEF Told, SameTold, SeatOf

(* LoginInv in a step that brings no request further and tells nothing.    *)
LEMMA QuietLogin ==
    ASSUME TypeInv, HttpLoginAssumption, LoginInv, InfosOK', ListKept, DeadSame,
           SeatStable, SeatsOK', \A c \in Client, req \in Asked : QueueFewer(SendOf(c, req)),
           side = "Match" => QueueFewer(OtherSends),
           thread'.pc \in Holding => thread' = thread,
           \A c \in Client : Present(c)' => SameTold(c)
    PROVE  LoginInv'
<1>1. PICK c0 \in Named : TRUE
  BY DEF Named
<1>2. MatchOK'
  BY MatchStep DEF ListKept, LoginInv, SeatStable
<1>3. ASSUME NEW c \in Client, NEW req \in Asked
      PROVE  Fewer(c, req) /\ (Present(c)' /\ Told(c, req)' => Told(c, req))
  BY FewerKept, ToldSame DEF Found, Fewer, SeatStable
<1> DEFINE R == {}
<1>4. \A req \in Asked : req \notin R
  OBVIOUS
<1> HIDE DEF R
<1> QED
  BY <1>1, <1>2, <1>3, <1>4, LoginMoved

(* A step that leaves the seats, and one that changes a client's own.      *)
LEMMA SeatKept ==
    ASSUME SeatsOK, UNCHANGED <<seat, side, arrived>>
    PROVE  SeatStable /\ SeatsOK' /\ \A c : SameTold(c)
  BY SeatsStep DEF Seat, SeatOf, SeatsOK, SeatStable, Present, SameTold

(* The seat of a client that stays.                                        *)
LEMMA SeatChange ==
    ASSUME TypeInv, HttpLoginAssumption, SeatsOK, arrived' = arrived, side' = side,
           NEW c \in Client, Present(c), NEW s \in SeatRec, s.clientID = c,
           seat' = [seat EXCEPT ![SeatOf(c)] = s], SeatOK(SeatOf(c), s),
           s.asked = 0 => seat[SeatOf(c)].asked = 0, seat[SeatOf(c)].excused \subseteq s.excused
    PROVE  /\ SeatStable /\ SeatsOK' /\ seat'[SeatOf(c)] = s /\ Present(c)'
           /\ \A d \in Client : d # c /\ Present(d)' => SameTold(d)
  BY HttpTypes, SeatTypes, SeatsStep DEF Seat, SeatOf, TypeInv, SeatsOK, Present, SeatStable,
     SameTold

(* Steps that bring no login further.                                      *)
LEMMA QuietStep ==
    ASSUME TypeInv, HttpLoginAssumption, LoginInv, InfosOK', ListKept, DeadSame,
           UNCHANGED <<seat, side, arrived>>, thread'.pc \in Holding => thread' = thread,
           NEW heads, NEW types, QueueStep(heads, types), "SEND" \notin types
    PROVE  LoginInv'
  BY FewerStep, SeatKept, QuietLogin DEF LoginInv

(* Who wakes the thread does not find a player for it.                     *)
LEMMA WakeFound ==
    ASSUME Wake
    PROVE  thread'.pc \in Holding => thread' = thread
  BY DEF Wake, Holding

(* LoginInv in the steps of the library.                                   *)
LEMMA HttpLogins ==
    ASSUME SlotInv, HttpLoginAssumption, InfoInv, AnswerInv, LoginInv, InfosOK', Http
    PROVE  LoginInv'
<1>0. TypeInv /\ DeadSame /\ ListKept /\ UNCHANGED <<seat, side, arrived>>
  BY HttpSteps, HttpAnswers, KeptSame DEF SlotInv
<1>1. PICK w \in Worker : HttpStep(w)
  BY HttpSteps
<1>2. CASE ReleaseSession(w)
  <2>1. PICK x \in Message : x.type = "LEAVE" /\ msgQueue' = msgQueue \o <<x>>
    BY <1>2, ReleaseQueue
  <2>2. Adds(<<x>>, {"LEAVE"}) /\ <<x>> \in Seq(Message)
    BY <2>1, AddsFew DEF Adds
  <2>3. QueueStep({}, {"LEAVE"}) /\ "SEND" \notin {"LEAVE"}
    BY <2>1, <2>2, QueueMoves
  <2>4. thread'.pc \in Holding => thread' = thread
    BY <1>2, WakeFound DEF ReleaseSession
  <2> QED
    BY <1>0, <2>3, <2>4, QuietStep
<1>3. CASE ~ReleaseSession(w)
  BY <1>1, <1>3, HttpQueue, WakeFound, <1>0, QuietStep DEF HttpStep, Conn_Complete,
     Conn_Complete_Fail, Recv_Zero, Conn_Complete_Send, Recv_Complete, Post
<1> QED
  BY <1>2, <1>3

(* A request that is put back is still to be sent, and there is one.       *)
LEMMA PutBackQueue ==
    ASSUME TypeInv, MessageThread_PutBack
    PROVE  /\ \A c, req : QueueFewer(SendOf(c, req))
           /\ QueueFewer(OtherSends)
<1>1. PICK m \in Message : m = Head(msgQueue) /\ m.type = "SEND" /\ msgQueue # <<>>
  BY HeadTyped DEF MessageThread_PutBack
<1>2. PICK x \in Message : x = [m EXCEPT !.young = FALSE]
  BY <1>1, MessageTypes
<1>3. x.type = "SEND" /\ x.clientID = m.clientID /\ x.req = m.req
  BY <1>1, <1>2 DEF Message
<1>4. <<x>> \in Seq(Message) /\ msgQueue' = Tail(msgQueue) \o <<x>>
  <2>1. Tail(msgQueue) \in Seq(Message)
    BY <1>1, HttpTypes, QueueTake
  <2> QED
    BY <1>1, <1>2, <2>1, QueueEnd DEF MessageThread_PutBack
<1>5. ASSUME NEW X, m \in X <=> x \in X PROVE QueueFewer(X)
  BY HoldsFew, <1>1, <1>4, TakeStep, <1>5 DEF QueueFewer
<1> QED
  BY <1>1, <1>3, <1>5, SendTypes

(* LoginInv when a message is put back or dropped, and at a heartbeat.     *)
LEMMA IdleLogins ==
    ASSUME SlotInv, HttpLoginAssumption, AnswerInv, LoginInv, InfosOK',
           \/ MessageThread_Empty \/ MessageThread_Sleep \/ MessageThread_PutBack
           \/ MessageThread_Drop \/ Send_Http_Heartbeat \/ MessageThread_HeartBeat
    PROVE  LoginInv'
<1>0. TypeInv /\ DeadSame /\ ListKept
  BY KeepingAnswers DEF SlotInv, KeepingAction
<1>1. UNCHANGED <<seat, side, arrived>> /\ (thread'.pc \in Holding => thread' = thread)
  BY WakeFound DEF Holding, MessageThread_Empty, MessageThread_Sleep, MessageThread_PutBack,
     MessageThread_Drop, Send_Http_Heartbeat, MessageThread_HeartBeat, Done, Post
<1>2. CASE MessageThread_Empty \/ MessageThread_Sleep
  BY <1>0, <1>2, QueueSame, <1>1, QuietStep DEF MessageThread_Empty, MessageThread_Sleep
<1>3. CASE MessageThread_Drop
  <2>1. msgQueue # <<>> /\ Head(msgQueue).type \in {"SEND"} /\ msgQueue' = Tail(msgQueue)
    BY <1>0, <1>3, HeadTyped DEF MessageThread_Drop, Done
  <2>2. QueueStep({"SEND"}, {}) /\ "SEND" \notin {}
    BY <1>0, <2>1, QueueTaken
  <2> QED
    BY <1>0, <1>1, <2>2, QuietStep
<1>4. CASE Send_Http_Heartbeat
  BY <1>0, <1>4, BeatQueue, <1>1, QuietStep
<1>5. CASE MessageThread_HeartBeat
  BY <1>0, <1>5, BeatQueue, <1>1, QuietStep
<1>6. CASE MessageThread_PutBack
  BY <1>0, <1>1, <1>6, PutBackQueue, SeatKept, QuietLogin DEF LoginInv
<1> QED
  BY <1>2, <1>3, <1>4, <1>5, <1>6

(* A request of which there is nothing is in one place at most.            *)
LEMMA NothingOnce ==
    ASSUME NEW c, NothingFor(c), NEW req \in Asked
    PROVE  Once(c, req) /\ ~Underway(c, req)
  BY DEF NothingFor, Sending, Holds, HoldsOne, Once, Underway, Listed, Served

(* A client comes, and nothing was under way for it.                       *)
LEMMA JoinLogins ==
    ASSUME SlotInv, HttpLoginAssumption, AnswerInv, LoginInv, InfosOK', OnClientJoin
    PROVE  LoginInv'
<1>0. /\ TypeInv /\ DeadSame /\ ListKept /\ MatchOK /\ arrived \in Nat /\ arrived + 1 \in Client
      /\ seat \in [Seat -> SeatRec]
  BY KeepingAnswers, SeatTypes, HttpTypes DEF SlotInv, KeepingAction, ClientAction, TypeInv,
     OnClientJoin, LoginInv, Client
<1>1. PICK c \in Client : c = arrived + 1
  BY <1>0
<1>2. /\ UNCHANGED <<side, infoList, slot, msgQueue, thread>> /\ arrived' = c
      /\ seat[SeatOf(c)].clientID = 0
      /\ seat' = [seat EXCEPT ![SeatOf(c)].clientID = c, ![SeatOf(c)].answers = 0]
  BY <1>1 DEF OnClientJoin, httpVars
<1>3. \A d : SeatOf(d)' = SeatOf(d) /\ Seat' = Seat
  BY <1>2 DEF SeatOf, Seat
<1>4. \A d \in Client : SeatOf(d) \in Seat
  BY <1>0, SeatTypes DEF TypeInv
<1>5. PICK p \in Seat : p = SeatOf(c)
  BY <1>4
<1>6. /\ seat[p].clientID = 0 /\ seat[p] \in SeatRec
      /\ seat'[p] = [seat[p] EXCEPT !.clientID = c, !.answers = 0]
      /\ \A o \in Seat : o # p => seat'[o] = seat[o]
  BY <1>0, <1>2, <1>5
<1>7. /\ seat'[p].clientID = c /\ seat'[p].asked = seat[p].asked /\ seat'[p].had = seat[p].had
      /\ seat'[p].answers = 0 /\ seat'[p].excused = seat[p].excused
      /\ seat'[p].bLogin = seat[p].bLogin /\ seat'[p].bSendLoginResult = seat[p].bSendLoginResult
      /\ seat'[p].selectCount = seat[p].selectCount
  BY <1>6 DEF SeatRec
<1>8. SeatsOK'
  <2>1. ASSUME NEW o \in Seat PROVE SeatOK(o, seat[o])'
    BY <1>0, <1>1, <1>6, <1>2, <1>3, <1>5, <1>7 DEF LoginInv, SeatsOK, SeatOK, SeatRec, Client, Bit
  <2> QED
    BY <1>3, <2>1 DEF SeatsOK
<1>9. MatchOK'
  BY <1>0, <1>2 DEF MatchOK, OtherSends
<1>10. NothingFor(c)
  BY <1>0, <1>1 DEF LoginInv, NothingOK
<1>11. \A d, req : Fewer(d, req)
  BY <1>0, <1>2, FewerKept DEF Fewer, QueueFewer, Found
<1>12. ASSUME NEW d \in Client, d # c, Present(d)'
       PROVE  /\ Present(d) /\ seat'[SeatOf(d)] = seat[SeatOf(d)] /\ SameTold(d)
              /\ (Fresh(d)' => Fresh(d)) /\ (~Excused(d)' => ~Excused(d))
  BY <1>3, <1>7, <1>12, <1>4, <1>6 DEF Present, SameTold, Fresh, Excused
<1>13. NothingOK'
  <2>1. ASSUME NEW d \in Client, d > arrived' \/ (Present(d)' /\ Fresh(d)'), NEW req \in Asked
        PROVE  ~Sending(d, req)' /\ ~Listed(d, req)' /\ ~Found(d, req)'
    <3>1. NothingFor(d)
      BY <1>10, <1>0, <1>1, <1>2, <1>12, <2>1 DEF Client, LoginInv, NothingOK
    <3>2. Fewer(d, req)
      BY <1>11
    <3> QED
      BY <3>1, <3>2, FewerWork DEF NothingFor, Fewer, QueueFewer, Sending, SendOf
  <2> QED
    BY <1>3, <2>1 DEF NothingOK, NothingFor
<1>14. WorkOK'
  <2>1. ASSUME NEW d \in Client, Present(d)', ~Excused(d)', NEW req \in Asked
        PROVE  OneOf(d, req)'
    BY <1>11, <1>10, NothingOnce, FewerWork, <1>2, <1>12, <2>1, ToldSame DEF OneOf, LoginInv,
       WorkOK
  <2> QED
    BY <1>3, <2>1 DEF WorkOK
<1> QED
  BY <1>8, <1>9, <1>13, <1>14 DEF LoginInv

(* A client goes; what is under way for it counts for nobody.              *)
LEMMA ClientLeaves ==
    ASSUME SlotInv, HttpLoginAssumption, AnswerInv, LoginInv, InfosOK',
           NEW c \in Client, OnClientLeave(c)
    PROVE  LoginInv'
<1>0. TypeInv /\ DeadSame /\ ListKept /\ seat \in [Seat -> SeatRec]
  BY KeepingAnswers, HttpTypes DEF SlotInv, KeepingAction, ClientAction
<1>1. /\ UNCHANGED <<side, arrived, msgQueue, thread>>
      /\ seat' = [seat EXCEPT ![SeatOf(c)] = EmptySeat]
  BY DEF OnClientLeave, InitPlayer
<1>2. \A d : SeatOf(d)' = SeatOf(d)
  BY <1>1 DEF SeatOf
<1>3. \A d \in Client : SeatOf(d) \in Seat /\ d # 0
  BY <1>0, SeatTypes DEF TypeInv
<1>4. /\ seat'[SeatOf(c)] = EmptySeat
      /\ \A p \in Seat : p # SeatOf(c) => seat'[p] = seat[p]
  BY <1>0, <1>1, <1>3
<1>5. ASSUME NEW d \in Client, Present(d)'
      PROVE  Present(d) /\ seat'[SeatOf(d)] = seat[SeatOf(d)]
  BY <1>2, <1>3, <1>4, <1>5 DEF Present, EmptySeat
<1>6. SeatStable /\ \A d \in Client : Present(d)' => SameTold(d)
  BY <1>1, <1>5 DEF SeatStable, SameTold
<1>7. SeatsOK'
  BY <1>4, <1>1, SeatsStep DEF SeatOK, EmptySeat, Bit, LoginInv, SeatsOK
<1>8. \A X : QueueFewer(X)
  BY <1>1 DEF QueueFewer
<1> QED
  BY <1>0, <1>1, <1>6, <1>7, <1>8, QuietLogin

(* The record of a player is written, which is no part of its login.       *)
LEMMA RecordLogins ==
    ASSUME SlotInv, HttpLoginAssumption, AnswerInv, LoginInv, InfosOK',
           NEW c \in Client, Response_Player_Record(c)
    PROVE  LoginInv'
<1>0. TypeInv /\ DeadSame /\ ListKept
  BY KeepingAnswers DEF SlotInv, KeepingAction, ClientAction
<1>1. /\ side = "Battle" /\ Present(c) /\ Enqueue(<<Send_Message(c, "update")>>) /\ Wake
      /\ seat' = [seat EXCEPT ![1].failCount = 0, ![1].played = TRUE]
      /\ UNCHANGED <<side, arrived>>
  BY DEF Response_Player_Record, Post
<1>2. PICK r \in SeatRec : r = seat[1] /\ 1 \in Seat /\ seat \in [Seat -> SeatRec]
  BY <1>0, <1>1, SeatTypes, HttpTypes DEF TypeInv
<1>3. PICK s : s = [r EXCEPT !.failCount = 0, !.played = TRUE]
  OBVIOUS
<1>4. SeatOf(c) = 1 /\ seat' = [seat EXCEPT ![SeatOf(c)] = s]
  BY <1>1, <1>2, <1>3 DEF SeatOf
<1>5. s \in SeatRec /\ Alike(r, s)
  BY <1>2, <1>3 DEF SeatRec, Alike
<1>6. SeatOK(1, s) /\ s.clientID = c
  BY <1>1, <1>2, <1>4, <1>5, AlikeOK DEF LoginInv, SeatsOK, Alike, Present
<1>7. SeatStable /\ SeatsOK' /\ \A d \in Client : Present(d)' => SameTold(d)
  <2>1. /\ SeatStable /\ SeatsOK' /\ seat'[SeatOf(c)] = s
        /\ \A d \in Client : d # c /\ Present(d)' => SameTold(d)
    <3>1. /\ Present(c) /\ SeatOK(SeatOf(c), s) /\ seat[SeatOf(c)] = r
          /\ seat' = [seat EXCEPT ![SeatOf(c)] = s]
      BY <1>1, <1>2, <1>4, <1>6
    <3> QED
      BY <1>0, <1>1, <1>5, <1>6, <3>1, SeatChange DEF LoginInv, Alike
  <2> QED
    BY <1>2, <1>4, <1>5, <2>1 DEF SameTold, Alike
<1>8. \A d \in Client, req \in Asked : QueueFewer(SendOf(d, req))
  <2>1. PICK x \in Message : x = Send_Message(c, "update")
    BY MessageTypes DEF ReqType, Named
  <2>2. <<x>> \in Seq(Message) /\ msgQueue' = msgQueue \o <<x>>
    BY <1>1, <2>1 DEF Enqueue
  <2>3. \A d, req : req \in Asked => x \notin SendOf(d, req)
    BY <2>1 DEF SendOf, Send_Message, Asked
  <2> QED
    BY <1>0, <2>2, <2>3, HoldsFew, FewerAdded
<1> QED
  BY <1>0, <1>1, <1>7, <1>8, WakeFound, QuietLogin

(* The result leaves these of the player.                                  *)
LEMMA ResultKeeps ==
    ASSUME NEW r \in SeatRec, NEW b \in BOOLEAN
    PROVE  LET q == Response_Player_Login(r, b) IN
               /\ q \in SeatRec /\ q.clientID = r.clientID /\ q.asked = r.asked
               /\ q.excused = r.excused /\ q.had = r.had
<1> DEFINE a == r.answers + 1
           q == [r EXCEPT !.bSendLoginResult = TRUE, !.bLogin = b, !.answers = a]
<1>1. a \in Nat
  BY DEF SeatRec
<1>2. /\ q \in SeatRec /\ q.clientID = r.clientID /\ q.asked = r.asked
      /\ q.excused = r.excused /\ q.had = r.had
  <2> HIDE DEF a
  <2> QED
    BY <1>1 DEF SeatRec
<1>3. Response_Player_Login(r, b) = IF r.bSendLoginResult THEN r ELSE q
  BY DEF Response_Player_Login
<1> HIDE DEF q
<1> QED
  BY <1>2, <1>3

(* A login packet leaves a seat as it should be, excused unless it is the  *)
(* first.                                                                  *)
LEMMA AfterLoginOK ==
    ASSUME NEW p, NEW s \in SeatRec, SeatOK(p, s), s.clientID # 0, side \in {"Match", "Battle"},
           NEW right \in BOOLEAN, NEW itself \in BOOLEAN
    PROVE  LET r == AfterLogin(s, right, itself) IN
               /\ r \in SeatRec /\ r.clientID = s.clientID /\ r.asked # 0 /\ r.had = s.had
               /\ s.excused \subseteq r.excused /\ (s.asked # 0 => r.excused # {})
               /\ (right => r.answers = s.answers) /\ SeatOK(p, r)
<1> DEFINE n == s.asked + 1
           e == s.excused \cup IF s.asked > 0 THEN {"again"} ELSE {}
<1>1. s.asked \in Nat /\ n \in Nat /\ n # 0 /\ s.excused \subseteq e /\ (s.asked # 0 => e # {})
  BY DEF SeatRec
<1>2. ASSUME NEW i \in BOOLEAN
      PROVE  LET q == Asks(s, i) IN
                 /\ q \in SeatRec /\ q.clientID = s.clientID /\ q.asked = n /\ q.had = s.had
                 /\ q.excused = e /\ q.answers = s.answers /\ SeatOK(p, q)
  <2> DEFINE d == s.disconnect \/ i
  <2>0. Asks(s, i) \in SeatRec
    BY AsksTyped
  <2>1. Asks(s, i) \in SeatRec /\ Asks(s, i) = [s EXCEPT !.asked = n, !.disconnect = d, !.excused = e]
    BY <2>0 DEF Asks
  <2>2. PICK q : q = Asks(s, i)
    OBVIOUS
  <2> HIDE DEF n, e, d
  <2>3. /\ q.clientID = s.clientID /\ q.asked = n /\ q.had = s.had /\ q.answers = s.answers
        /\ q.bLogin = s.bLogin /\ q.bSendLoginResult = s.bSendLoginResult
        /\ q.selectCount = s.selectCount /\ q.excused = e
    BY <2>1, <2>2 DEF SeatRec
  <2>4. SeatOK(p, q)
    BY <1>1, <2>3 DEF SeatOK
  <2> QED
    BY <2>1, <2>2, <2>3, <2>4
<1>3. PICK q \in SeatRec, i \in BOOLEAN :
         /\ q = Asks(s, i)
         /\ AfterLogin(s, right, itself) = IF right THEN q
                                           ELSE IF side = "Match" THEN Receive_HttpRequest_SessionKey(q)
                                           ELSE Response_Player_Login(q, FALSE)
  BY <1>2 DEF AfterLogin
<1>4. /\ q.clientID = s.clientID /\ q.asked = n /\ q.had = s.had
      /\ q.excused = e /\ q.answers = s.answers /\ SeatOK(p, q)
  BY <1>2, <1>3
<1> HIDE DEF n, e
<1>5. PICK k : k = Receive_HttpRequest_SessionKey(q)
  OBVIOUS
<1>6. /\ k \in SeatRec /\ k.clientID = q.clientID /\ k.asked = q.asked /\ k.had = q.had
      /\ k.excused = q.excused
  BY <1>5, AnswerTyped DEF Receive_HttpRequest_SessionKey, SeatRec
<1>7. e = {} => s.answers = 0
  BY <1>1 DEF SeatOK
<1>8. side = "Match" => SeatOK(p, k)
  BY <1>1, <1>4, <1>5, <1>7, KeyOK
<1>9. PICK l : l = Response_Player_Login(q, FALSE)
  OBVIOUS
<1>10. /\ l \in SeatRec /\ l.clientID = q.clientID /\ l.asked = q.asked /\ l.had = q.had
       /\ l.excused = q.excused
  BY <1>9, ResultKeeps
<1>11. side = "Battle" => SeatOK(p, l)
  BY <1>1, <1>4, <1>9, ResultOK
<1>12. PICK r : r = AfterLogin(s, right, itself)
  OBVIOUS
<1>13. \/ r = q /\ right
       \/ r = k /\ ~right /\ side = "Match"
       \/ r = l /\ ~right /\ side = "Battle"
  BY <1>3, <1>5, <1>9, <1>12
<1> QED
  BY <1>1, <1>4, <1>6, <1>8, <1>10, <1>11, <1>12, <1>13

(* A client asks: both requests are to be sent, and nowhere else, if it is *)
(* the first time.                                                         *)
LEMMA LoginLogins ==
    ASSUME SlotInv, HttpLoginAssumption, AnswerInv, LoginInv, InfosOK',
           NEW c \in Client, Login(c)
    PROVE  LoginInv'
<1>0. TypeInv /\ DeadSame /\ ListKept /\ Present(c) /\ SeatOf(c) \in Seat
  BY KeepingAnswers, LoginIs DEF SlotInv, KeepingAction, ClientAction
<1>1. PICK right \in BOOLEAN, itself \in BOOLEAN :
          /\ seat' = [seat EXCEPT ![SeatOf(c)] = AfterLogin(@, right, itself)]
          /\ IF right THEN Asking(c) ELSE UNCHANGED <<msgQueue, thread>>
  BY <1>0, LoginIs
<1>2. PICK t \in Seq(Message) :
          /\ msgQueue' = msgQueue \o t /\ (thread'.pc \in Holding => thread' = thread)
          /\ \A X : Holds(t, X) => right /\ \E req \in Asked : Send_Message(c, req) \in X
          /\ \A req \in Asked : HoldsOne(t, SendOf(c, req))
          /\ side = "Match" => ~Holds(t, OtherSends)
  <2>0. CASE ~right
    <3>1. msgQueue' = msgQueue \o <<>> /\ <<>> \in Seq(Message)
      BY <1>0, <1>1, <2>0, HttpTypes, QueueEnd
    <3> QED
      BY <1>1, <2>0, <3>1, HoldsFew
  <2>1. PICK x \in Message, y \in Message :
          /\ x = Send_Message(c, "account") /\ y = Send_Message(c, "contents")
          /\ \A req : ~(x \in SendOf(c, req) /\ y \in SendOf(c, req))
          /\ x \notin OtherSends
    <3>1. Send_Message(c, "account") \in Message /\ Send_Message(c, "contents") \in Message
      BY MessageTypes DEF ReqType, Named
    <3> QED
      BY <3>1 DEF Send_Message, SendOf, OtherSends
  <2>2. <<x>> \in Seq(Message) /\ <<x, y>> \in Seq(Message)
    OBVIOUS
  <2>3. CASE right /\ side = "Match"
    <3>1. msgQueue' = msgQueue \o <<x>> /\ Wake
      BY <1>1, <2>1, <2>3 DEF Asking, Post, Enqueue
    <3>2. \A X : (Holds(<<x>>, X) <=> x \in X) /\ HoldsOne(<<x>>, X)
      BY HoldsFew
    <3>3. \A X : Holds(<<x>>, X) => \E req \in Asked : Send_Message(c, req) \in X
      BY <2>1, <3>2 DEF Asked
    <3> QED
      BY <2>1, <2>2, <2>3, <3>1, <3>2, <3>3, WakeFound
  <2>4. CASE right /\ side # "Match"
    <3>1. msgQueue' = msgQueue \o <<x, y>> /\ Wake
      BY <1>1, <2>1, <2>4 DEF Asking, Enqueue
    <3>2. \A X : /\ Holds(<<x, y>>, X) <=> x \in X \/ y \in X
                 /\ ~(x \in X /\ y \in X) => HoldsOne(<<x, y>>, X)
      BY HoldsFew
    <3>3. \A X : Holds(<<x, y>>, X) => \E req \in Asked : Send_Message(c, req) \in X
      BY <2>1, <3>2 DEF Asked
    <3> QED
      BY <2>1, <2>2, <2>4, <3>1, <3>2, <3>3, WakeFound
  <2> QED
    BY <2>0, <2>3, <2>4
<1>3. /\ UNCHANGED <<side, arrived>> /\ side \in {"Match", "Battle"}
      /\ seat[SeatOf(c)] \in SeatRec /\ seat[SeatOf(c)].clientID = c /\ c # 0
      /\ SeatOK(SeatOf(c), seat[SeatOf(c)])
  BY <1>0, SeatTypes, HttpTypes DEF Login, TypeInv, Present, LoginInv, SeatsOK
<1>4. PICK r \in SeatRec : r = seat[SeatOf(c)]
  BY <1>3
<1>5. PICK s : s = AfterLogin(r, right, itself)
  OBVIOUS
<1>6. /\ s \in SeatRec /\ s.clientID = c /\ s.asked # 0 /\ s.had = r.had
      /\ r.excused \subseteq s.excused /\ (r.asked # 0 => s.excused # {})
      /\ (right => s.answers = r.answers) /\ SeatOK(SeatOf(c), s)
  BY <1>3, <1>4, <1>5, AfterLoginOK
<1>7. /\ SeatStable /\ SeatsOK' /\ seat'[SeatOf(c)] = s
      /\ \A d \in Client : d # c /\ Present(d)' => SameTold(d)
  <2>1. seat' = [seat EXCEPT ![SeatOf(c)] = s]
    BY <1>1, <1>4, <1>5
  <2> QED
    BY <1>0, <1>3, <1>4, <1>6, <2>1, SeatChange DEF LoginInv
<1>8. \A d : SameTold(d) => \A req : Told(d, req)' <=> Told(d, req)
  BY <1>7, ToldSame DEF SeatStable
<1>9. SeatOf(c)' = SeatOf(c) /\ ~Fresh(c)' /\ (~Excused(c)' => Fresh(c))
  BY <1>3, <1>4, <1>6, <1>7 DEF SeatOf, Fresh, Excused
<1>10. \A d, req : ListFewer(d, req) /\ (Found(d, req)' => Found(d, req))
  BY <1>0, <1>2, FewerKept DEF Found
<1>11. MatchOK'
  BY <1>0, <1>2, FewerAdded, <1>7, MatchStep DEF ListKept, LoginInv, SeatStable
<1>12. ASSUME NEW d \in Client, d # c, NEW req \in Asked
       PROVE  Fewer(d, req) /\ (Present(d)' /\ Told(d, req)' => Told(d, req))
  BY <1>2, <1>12, <1>0, <1>7, <1>8, <1>10, FewerAdded DEF SendOf, Send_Message, Fewer
<1>13. c <= arrived
  BY <1>3 DEF SeatOK
<1>14. ASSUME NEW req \in Asked, ~Excused(c)' PROVE OneOf(c, req)'
  <2>1. ~Sending(c, req) /\ ~Listed(c, req) /\ ~Found(c, req)
    BY <1>0, <1>9, <1>14 DEF NothingFor, LoginInv, NothingOK
  <2>2. HoldsOne(msgQueue', SendOf(c, req)) /\ (Holds(msgQueue', SendOf(c, req)) => right)
    BY <2>1, <1>0, <1>2, AddStep DEF Sending, Holds, HoldsOne
  <2>3. ~Listed(c, req)' /\ ~Found(c, req)'
    BY <1>10, <2>1 DEF ListFewer, Listed
  <2>4. right => ~Told(c, req)'
    <3>1. r.had = {} /\ r.answers = 0
      BY <1>3, <1>4, <1>9, <1>14 DEF Fresh, SeatOK
    <3> QED
      BY <1>3, <1>6, <1>7, <1>9, <3>1 DEF Told
  <2>5. Once(c, req)'
    BY <2>2, <2>3 DEF Once, Listed, Served, SendOf
  <2>6. Underway(c, req)' => right
    BY <2>2, <2>3 DEF Underway, Sending, SendOf, Listed, Served
  <2> QED
    BY <2>4, <2>5, <2>6 DEF OneOf
<1> QED
  BY <1>0, <1>9, <1>7, <1>11, <1>12, <1>13, <1>14, LoginMoved DEF Named

(* A failure changes only the count of failures and the excuse.            *)
LEMMA FailChange ==
    ASSUME TypeInv, HttpLoginAssumption, SeatsOK, UNCHANGED <<side, arrived>>,
           NEW c \in Named, NEW twice \in BOOLEAN, FailedSeat(c, twice)
    PROVE  /\ SeatStable /\ SeatsOK' /\ \A d \in Client : Present(d)' => SameTold(d)
           /\ c \in Client /\ Present(c)' /\ twice => Excused(c)'
<1>0. Own(c) <=> c \in Client /\ Present(c)
  BY SeatTypes DEF Own, Named, TypeInv
<1>1. CASE ~Own(c)
  BY <1>0, <1>1, SeatKept DEF FailedSeat, SeatStable
<1>2. CASE Own(c)
  <2>1. PICK s \in SeatRec : s = seat[SeatOf(c)]
    BY <1>0, <1>2, SeatTypes DEF TypeInv
  <2>2. PICK r \in SeatRec : r = Failed(s, twice)
    BY <2>1, FailedTyped
  <2>3. seat' = [seat EXCEPT ![SeatOf(c)] = r]
    BY <1>2, <2>1, <2>2 DEF FailedSeat
  <2>4. Alike(s, r) /\ (twice => r.excused # {})
    BY <2>2, FailedAlike
  <2>5. SeatOf(c) \in Seat
    BY <1>0, <1>2, SeatTypes DEF TypeInv
  <2>6. SeatOK(SeatOf(c), r)
    BY <2>1, <2>4, <2>5, AlikeOK DEF SeatsOK
  <2>7. r.clientID = c
    BY <1>0, <1>2, <2>1, <2>4 DEF Present, Alike
  <2>8. /\ SeatStable /\ SeatsOK' /\ seat'[SeatOf(c)] = r
        /\ \A d \in Client : d # c /\ Present(d)' => SameTold(d)
    BY <1>0, <1>2, <2>1, <2>3, <2>4, <2>6, <2>7, SeatChange DEF Alike
  <2>9. SameTold(c) /\ SeatOf(c)' = SeatOf(c)
    BY <2>1, <2>4, <2>8 DEF SameTold, Alike, SeatOf
  <2> QED
    BY <2>4, <2>8, <2>9 DEF Excused
<1> QED
  BY <1>1, <1>2

(* At the Match server a request that failed is put back, at the Battle    *)
(* server the player is found for it.                                      *)
LEMMA FailingIs ==
    ASSUME TypeInv, HttpLoginAssumption, NEW c, NEW req, thread' = Failing(c, req)
    PROVE  /\ \A d, r : d # c \/ r # req => (Found(d, r)' => Found(d, r))
           /\ UNCHANGED thread \/ Resent(c, req) = <<>>
           /\ UNCHANGED thread \/ side = "Battle"
  BY DEF Failing, Found, Resent

(* A request that waited for its answer and failed is sent once more, or   *)
(* its player is found.                                                    *)
LEMMA SentAgain ==
    ASSUME TypeInv, NEW c, NEW req, OneOf(c, req), Served(c, req), ~Served(c, req)',
           NEW t \in Seq(Message), msgQueue # <<>>, msgQueue' = Tail(msgQueue) \o t,
           HoldsOne(t, SendOf(c, req)),
           Found(c, req)' => Found(c, req) \/ ~Holds(t, SendOf(c, req)),
           Told(c, req)' => Told(c, req)
    PROVE  OneOf(c, req)'
  BY TakeStep DEF OneOf, Once, Underway, Sending, Served, SendOf

(* The waiting request is no longer in the list, or no longer waiting.     *)
LEMMA ServedNoMore ==
    ASSUME NEW c, NEW req, Once(c, req), ListFewer(c, req),
           NEW a \in infoList, IsFor(a, c, req), Waiting(a),
           \A x \in infoList' : x.requestID = a.requestID => ~Waiting(x)'
    PROVE  ~Served(c, req)'
  BY DEF ListFewer, Once, Served, IsFor

(* A request ends: without an answer it is sent once more.                 *)
LEMMA LeaveLogins ==
    ASSUME SlotInv, HttpLoginAssumption, InfoInv, AnswerInv, LoginInv, InfosOK', MessageThread_Leave
    PROVE  LoginInv'
<1>0. TypeInv /\ DeadSame /\ ListKept /\ UNCHANGED <<side, arrived>>
  BY KeepingAnswers DEF SlotInv, KeepingAction, MessageThread_Leave
<1>1. PICK msg \in Message, a \in infoList, t \in Seq(Message) :
               /\ msg = Head(msgQueue) /\ msgQueue # <<>> /\ msg.type = "LEAVE"
               /\ a.requestID = msg.requestID /\ infoList' = infoList \ InfoOf(msg.requestID)
               /\ msgQueue' = Tail(msgQueue) \o t
               /\ \/ a.bRecv /\ t = <<>> /\ UNCHANGED <<seat, thread>>
                  \/ /\ ~a.bRecv /\ t = Resent(a.clientID, a.type) /\ FailedSeat(a.clientID, FALSE)
                     /\ thread' = Failing(a.clientID, a.type)
  BY <1>0, LeaveTakes
<1>2. \A c, req : ListFewer(c, req)
  BY <1>0, FewerKept
<1>3. CASE a.bRecv /\ t = <<>> /\ UNCHANGED <<seat, thread>>
  BY <1>0, <1>1, <1>3, HoldsFew, FewerAdded, SeatKept, QuietLogin DEF LoginInv
<1>4. CASE /\ ~a.bRecv /\ t = Resent(a.clientID, a.type) /\ FailedSeat(a.clientID, FALSE)
           /\ thread' = Failing(a.clientID, a.type)
  <2>1. PICK c \in Named, req \in ReqType : c = a.clientID /\ req = a.type
    BY <1>0, HttpTypes DEF InfoRec
  <2>2. IsFor(a, c, req) /\ Listed(c, req)
    BY <2>1 DEF IsFor, Listed
  <2>3. Waiting(a) /\ Served(c, req)
    BY <1>1, LeaveTypes, <1>0, TakeStep, <1>4, <2>2 DEF InfoInv, EndsOK, Dead, Waiting, Served
  <2>4. SeatStable /\ SeatsOK' /\ \A d \in Client : Present(d)' => SameTold(d)
    BY <1>0, <1>4, <2>1, FailChange DEF LoginInv
  <2>5. \A X : (Holds(t, X) => Send_Message(c, req) \in X) /\ HoldsOne(t, X)
    BY <1>4, <2>1, ResentTyped
  <2>6. \A d, r : d # c \/ r # req => QueueFewer(SendOf(d, r))
    BY <1>0, <1>1, <2>5, FewerAdded DEF SendOf, Send_Message
  <2>0. /\ \A d, r : d # c \/ r # req => (Found(d, r)' => Found(d, r))
        /\ Found(c, req)' => Found(c, req) \/ ~Holds(t, SendOf(c, req))
        /\ thread'.pc \in Holding => side = "Battle" \/ thread' = thread
    <3>1. thread' = Failing(c, req) /\ t = Resent(c, req) /\ \A X : ~Holds(<<>>, X)
      BY <1>4, <2>1, HoldsFew
    <3>2. /\ \A d, r : d # c \/ r # req => (Found(d, r)' => Found(d, r))
          /\ UNCHANGED thread \/ t = <<>>
          /\ UNCHANGED thread \/ side = "Battle"
      BY <1>0, <3>1, FailingIs
    <3> QED
      BY <3>1, <3>2 DEF Found
  <2>7. MatchOK'
    BY <2>0, <2>1, <1>0, <1>1, <2>5, FewerAdded, MatchStep DEF LoginInv, MatchOK, OtherSends,
       Send_Message, ListKept
  <2>8. \A d \in Client : \A r : Present(d)' /\ Told(d, r)' => Told(d, r)
    BY <1>0, <2>4, ToldSame
  <2>9. \A x \in infoList' : x.requestID # a.requestID
    BY <1>1 DEF InfoOf
  <2> DEFINE R == {req}
  <2>10. ASSUME NEW r \in Asked, r \in R, c \in Client
         PROVE  /\ c <= arrived /\ (Present(c)' => ~Fresh(c)')
                /\ Present(c)' /\ ~Excused(c)' => OneOf(c, r)'
    <3>1. r = req
      BY <2>10
    <3>2. c <= arrived /\ (Present(c) => ~Fresh(c))
      BY <1>0, <2>2, <2>10, <3>1, BusyAsked
    <3>3. ASSUME Present(c)', ~Excused(c)' PROVE OneOf(c, req)'
      <4>1. OneOf(c, req)
        BY <1>0, <2>4, <2>10, <3>1, <3>3 DEF SeatStable, SeatOf, Excused, LoginInv, WorkOK
      <4>2. ~Served(c, req)'
        BY <1>2, <2>2, <2>3, <2>9, <4>1, ServedNoMore DEF OneOf
      <4> QED
        BY <1>0, <1>1, <2>0, <2>3, <2>5, <2>8, <2>10, <3>3, <4>1, <4>2, SentAgain
    <3> QED
      BY <1>0, <2>4, <2>10, <3>1, <3>2, <3>3 DEF SeatStable, SeatOf, Fresh
  <2>11. ASSUME NEW d \in Client, NEW r \in Asked, d # c \/ r \notin R
         PROVE  Fewer(d, r) /\ (Present(d)' /\ Told(d, r)' => Told(d, r))
    BY <1>2, <2>0, <2>6, <2>8, <2>11 DEF Fewer
  <2> HIDE DEF R
  <2> QED
    BY <1>0, <2>4, <2>7, <2>10, <2>11, LoginMoved
<1> QED
  BY <1>1, <1>3, <1>4

(* After a mark, a request waits only if it waited before and is another.  *)
LEMMA FewerMarked ==
    ASSUME TypeInv, DeadSame, NEW id, MarkReceived(id)
    PROVE  /\ \A c, req : ListFewer(c, req)
           /\ \A x \in infoList' : x.requestID = id => x.bRecv
           /\ \A x \in infoList' : \E b \in infoList : b.type = x.type
<1>1. ListMarkedAt(id)
  BY MarkedIs
<1>2. \A x \in infoList' : x.requestID = id => x.bRecv
  <2> DEFINE F(a) == IF a.requestID = id THEN [a EXCEPT !.bRecv = TRUE] ELSE a
  <2>1. \A a \in infoList : F(a).requestID = a.requestID /\ (a.requestID = id => F(a).bRecv)
    BY HttpTypes DEF InfoRec
  <2>2. infoList' = {F(a) : a \in infoList}
    BY DEF MarkReceived
  <2> HIDE DEF F
  <2> QED
    BY <2>1, <2>2
<1>3. ASSUME NEW c, NEW req, NEW a \in infoList', IsFor(a, c, req)
      PROVE  \E b \in infoList : /\ b.requestID = a.requestID /\ IsFor(b, c, req)
                                 /\ Waiting(a)' => Waiting(b)
  BY <1>1, <1>2, <1>3 DEF ListMarkedAt, DeadSame, Dead, IsFor, Waiting
<1> QED
  BY <1>1, <1>2, <1>3 DEF ListFewer, ListMarkedAt

(* An answer is taken: the request is found, told, or sent once more.      *)
LEMMA RecvLogins ==
    ASSUME SlotInv, HttpLoginAssumption, AnswerInv, LoginInv, InfosOK',
           MessageThread_Recv_Match \/ MessageThread_Recv_Battle
    PROVE  LoginInv'
<1>0. TypeInv /\ DeadSame /\ UNCHANGED <<side, arrived>>
  BY RecvTaken DEF SlotInv, MessageThread_Recv_Match, MessageThread_Recv_Battle
<1>1. PICK msg \in Message, a \in infoList, t \in Seq(Message) :
               /\ msg = Head(msgQueue) /\ msgQueue # <<>> /\ msg.type = "RECV"
               /\ a.requestID = msg.requestID /\ MarkReceived(msg.requestID)
               /\ msgQueue' = Tail(msgQueue) \o t
               /\ \/ /\ t = Resent(a.clientID, a.type) /\ FailedSeat(a.clientID, FALSE)
                     /\ thread' = Failing(a.clientID, a.type)
                  \/ /\ t = <<>> /\ side = "Match" /\ UNCHANGED thread
                     /\ Present(a.clientID) => seat' = [seat EXCEPT ![SeatOf(a.clientID)] =
                                                          Receive_HttpRequest_SessionKey(@)]
                     /\ ~Present(a.clientID) => seat' = seat
                  \/ /\ t = <<>> /\ side = "Battle" /\ UNCHANGED seat
                     /\ Present(a.clientID) => thread' = [pc |-> "found", clientID |-> a.clientID,
                                                          req |-> a.type, ok |-> msg.code = "ok"]
                     /\ ~Present(a.clientID) => UNCHANGED thread
  BY <1>0, RecvTakes
<1>2. PICK c \in Named, req \in ReqType : c = a.clientID /\ req = a.type
  BY <1>0, HttpTypes DEF InfoRec
<1>3. IsFor(a, c, req) /\ Listed(c, req)
  BY <1>2 DEF IsFor, Listed
<1>4. Waiting(a) /\ Served(c, req)
  BY <1>1, RecvTypes, <1>0, TakeStep, HttpTypes, <1>3 DEF InfoRec, AnswerInv, RecvOK, Waiting,
     Served
<1>5. /\ \A d, r : ListFewer(d, r)
      /\ \A x \in infoList' : x.requestID = a.requestID => ~Waiting(x)'
      /\ \A x \in infoList' : \E b \in infoList : b.type = x.type
  BY <1>0, <1>1, FewerMarked DEF Waiting
<1>6. \A X : (Holds(t, X) => Send_Message(c, req) \in X) /\ HoldsOne(t, X)
  <2>1. \A X : /\ Holds(Resent(c, req), X) => Send_Message(c, req) \in X
               /\ HoldsOne(Resent(c, req), X)
    BY ResentTyped
  <2>2. \A X : ~Holds(<<>>, X) /\ HoldsOne(<<>>, X)
    BY HoldsFew
  <2> QED
    BY <1>1, <1>2, <2>1, <2>2
<1>7. \A d, r : d # c \/ r # req => QueueFewer(SendOf(d, r))
  BY <1>0, <1>1, <1>6, FewerAdded DEF SendOf, Send_Message
<1>8. /\ \A d, r : d # c \/ r # req => (Found(d, r)' => Found(d, r))
      /\ Found(c, req)' => Found(c, req) \/ ~Holds(t, SendOf(c, req))
      /\ UNCHANGED thread \/ side = "Battle"
  <2>1. CASE t = Resent(c, req) /\ thread' = Failing(c, req)
    <3>1. \A X : ~Holds(<<>>, X)
      BY HoldsFew
    <3>2. /\ \A d, r : d # c \/ r # req => (Found(d, r)' => Found(d, r))
          /\ UNCHANGED thread \/ t = <<>>
          /\ UNCHANGED thread \/ side = "Battle"
      BY <1>0, <2>1, FailingIs
    <3> QED
      BY <3>1, <3>2 DEF Found
  <2>2. CASE t = <<>>
    <3> DEFINE b == msg.code = "ok"
    <3>1. \/ UNCHANGED thread
          \/ side = "Battle" /\ thread' = [pc |-> "found", clientID |-> c, req |-> req, ok |-> b]
          \/ side = "Battle" /\ thread' = Failing(c, req)
      BY <1>1, <1>2, FailingIs, Zenon DEF Failing
    <3> HIDE DEF b
    <3>2. thread' = Failing(c, req) => \A d, r : d # c \/ r # req => (Found(d, r)' => Found(d, r))
      BY <1>0, FailingIs
    <3>3. ~Holds(t, SendOf(c, req))
      BY <2>2, HoldsFew
    <3> QED
      BY <3>1, <3>2, <3>3 DEF Found
  <2> QED
    BY <1>1, <1>2, <2>1, <2>2
<1>9. MatchOK'
  BY <1>2, <1>0, <1>1, <1>6, <1>8, FewerAdded, <1>5, MatchStep DEF LoginInv, MatchOK, OtherSends,
     Send_Message
<1>10. req \in Asked /\ c \in Client => c <= arrived /\ (Present(c) => ~Fresh(c))
  BY <1>0, <1>3, BusyAsked
<1>11. req \in Asked /\ c \in Client /\ Present(c) /\ ~Excused(c)
         => OneOf(c, req) /\ ~Served(c, req)' /\ ~Told(c, req)
  BY <1>3, <1>4, <1>5, ServedNoMore DEF LoginInv, WorkOK, OneOf, Underway
<1> DEFINE R == {req}
<1>12. ASSUME SeatStable, SeatsOK',
              \A d \in Client, r \in Asked : (d # c \/ r # req) /\ Present(d)' /\ Told(d, r)' => Told(d, r),
              req \in Asked /\ c \in Client /\ Present(c)' /\ ~Excused(c)' => OneOf(c, req)'
       PROVE  LoginInv'
  <2>1. ASSUME NEW r \in Asked, r \in R, c \in Client
        PROVE  /\ c <= arrived /\ (Present(c)' => ~Fresh(c)')
               /\ Present(c)' /\ ~Excused(c)' => OneOf(c, r)'
    BY <1>0, <1>10, <1>12, <2>1 DEF SeatStable, SeatOf, Fresh
  <2>2. ASSUME NEW d \in Client, NEW r \in Asked, d # c \/ r \notin R
        PROVE  Fewer(d, r) /\ (Present(d)' /\ Told(d, r)' => Told(d, r))
    BY <1>5, <1>7, <1>8, <1>12, <2>2 DEF Fewer
  <2> HIDE DEF R
  <2> QED
    BY <1>0, <1>9, <1>12, <2>1, <2>2, LoginMoved
<1> HIDE DEF R
<1>17. ASSUME SeatStable, c \in Client, Present(c)', ~Excused(c)' PROVE Present(c) /\ ~Excused(c)
  BY <1>0, <1>17 DEF SeatStable, SeatOf, Excused
<1>13. CASE t = Resent(c, req) /\ FailedSeat(c, FALSE) /\ thread' = Failing(c, req)
  <2>1. SeatStable /\ SeatsOK' /\ \A d \in Client : Present(d)' => SameTold(d)
    BY <1>0, <1>13, FailChange DEF LoginInv
  <2>2. \A d \in Client : \A r : Present(d)' /\ Told(d, r)' => Told(d, r)
    BY <1>0, <2>1, ToldSame
  <2>3. ASSUME req \in Asked, c \in Client, Present(c)', ~Excused(c)' PROVE OneOf(c, req)'
    <3>1. OneOf(c, req) /\ ~Served(c, req)'
      BY <1>11, <1>17, <2>1, <2>3
    <3> QED
      BY <1>0, <1>1, <1>4, <1>6, <1>8, <2>2, <2>3, <3>1, SentAgain
  <2> QED
    BY <1>12, <2>1, <2>2, <2>3
<1>14. ASSUME t = <<>>, ~Served(c, req)', OneOf(c, req)
       PROVE  Once(c, req)' /\ ~Sending(c, req)'
  BY <1>4, <1>14, <1>0, <1>1, HoldsFew, FewerAdded DEF OneOf, Once, QueueFewer, Sending, Served,
     SendOf, IsFor
<1>15. CASE /\ t = <<>> /\ side = "Match" /\ UNCHANGED thread
            /\ Present(c) => seat' = [seat EXCEPT ![SeatOf(c)] = Receive_HttpRequest_SessionKey(@)]
            /\ ~Present(c) => seat' = seat
  <2>1. req = "account" /\ req \in Asked /\ ~Found(c, req)'
    BY <1>2, <1>15 DEF LoginInv, MatchOK, Asked, Found
  <2>2. CASE c \notin Client \/ ~Present(c)
    <3>1. c \notin Client => SeatOf(c) \notin Seat
      BY <1>0, <1>15, SeatTypes DEF TypeInv, SeatOf, Seat
    <3>2. seat' = seat
      BY <1>0, <1>15, <2>2, <3>1, HttpTypes
    <3> QED
      BY <1>0, <1>12, <2>2, <3>2, SeatKept, ToldSame DEF LoginInv, SeatStable
  <2>3. CASE c \in Client /\ Present(c)
    <3>0. c \in Client
      BY <2>3
    <3>1. PICK s \in SeatRec : s = seat[SeatOf(c)] /\ SeatOf(c) \in Seat
      BY <1>0, <3>0, SeatTypes DEF TypeInv
    <3>2. PICK n : n = Receive_HttpRequest_SessionKey(s)
      OBVIOUS
    <3>3. seat' = [seat EXCEPT ![SeatOf(c)] = n]
      BY <1>15, <2>3, <3>1, <3>2
    <3>4. n \in SeatRec /\ n.clientID = c /\ n.asked = s.asked /\ n.excused = s.excused
      BY <2>3, <3>1, <3>2 DEF Receive_HttpRequest_SessionKey, SeatRec, Present
    <3>5. (s.asked = 0 => s.excused # {}) /\ (s.excused = {} => s.answers = 0)
      BY <1>11, <2>1, <2>3, <3>0, <3>1, <1>10, <1>15 DEF Told, SeatRec, Fresh, Excused
    <3>6. SeatOK(SeatOf(c), n)
      BY <1>15, <3>1, <3>2, <3>5, KeyOK DEF LoginInv, SeatsOK
    <3>7. /\ SeatStable /\ SeatsOK' /\ seat'[SeatOf(c)] = n
          /\ \A d \in Client : d # c /\ Present(d)' => SameTold(d)
      BY <1>0, <2>3, <3>0, <3>1, <3>3, <3>4, <3>6, SeatChange DEF LoginInv
    <3>8. ASSUME NEW d \in Client, NEW r \in Asked, d # c \/ r # req, Present(d)', Told(d, r)'
          PROVE  Told(d, r)
      BY <1>0, <3>7, <3>8, ToldSame, <1>15, <2>1 DEF Told
    <3>9. ASSUME Present(c)', ~Excused(c)' PROVE OneOf(c, req)'
      BY <1>11, <1>17, <2>1, <3>0, <3>7, <3>9, <1>14, <1>15 DEF OneOf, Underway
    <3> QED
      BY <1>12, <3>7, <3>8, <3>9
  <2> QED
    BY <2>2, <2>3
<1>16. CASE /\ t = <<>> /\ side = "Battle" /\ UNCHANGED seat
  <2>1. SeatStable /\ SeatsOK' /\ \A d, r : Told(d, r)' <=> Told(d, r)
    BY <1>0, <1>16, SeatKept, ToldSame DEF LoginInv
  <2>2. ASSUME req \in Asked, c \in Client, Present(c)', ~Excused(c)' PROVE OneOf(c, req)'
    BY <1>11, <1>17, <2>1, <2>2, <1>14, <1>16 DEF OneOf
  <2> QED
    BY <1>12, <2>1, <2>2
<1> QED
  BY <1>1, <1>2, <1>13, <1>15, <1>16

(* What a success of one of the requests leaves of the seat.               *)
LEMMA SearchKeeps ==
    ASSUME NEW s \in SeatRec, NEW ok \in BOOLEAN, NEW own \in BOOLEAN, NEW req \in ReqType
    PROVE  LET r == Receive_HttpRequest_Search(s, req, ok, own) IN
               /\ r \in SeatRec /\ r.clientID = s.clientID /\ r.asked = s.asked
               /\ s.excused \subseteq r.excused /\ (~own => r.excused # {})
               /\ r.had \subseteq IF own THEN s.had \cup {req} ELSE s.had
<1> DEFINE e == s.excused \cup Stray(own)
           h == IF own THEN s.had \cup {req} ELSE s.had
           n == s.selectCount + 1
           marked  == [s EXCEPT !.excused = e]
           counted == [marked EXCEPT !.selectCount = n, !.had = h]
<1>1. /\ e \in SUBSET Exception /\ h \in SUBSET ReqType /\ n \in Nat /\ s.had \subseteq h
      /\ s.excused \subseteq e /\ (~own => e # {})
  BY DEF SeatRec, Stray, Exception
<1>2. marked.selectCount = s.selectCount /\ marked.had = s.had
  BY DEF SeatRec
<1> HIDE DEF e, h, n
<1>3. /\ marked \in SeatRec /\ marked.clientID = s.clientID /\ marked.asked = s.asked
      /\ marked.excused = e /\ marked.had = s.had
      /\ counted \in SeatRec /\ counted.clientID = s.clientID /\ counted.asked = s.asked
      /\ counted.excused = e /\ counted.had = h
  BY <1>1 DEF SeatRec
<1>4. Receive_HttpRequest_Search(s, req, ok, own) =
          IF ~ok THEN Response_Player_Login(marked, FALSE)
          ELSE IF counted.selectCount = 2 THEN Response_Player_Login(counted, TRUE) ELSE counted
  BY <1>2 DEF Receive_HttpRequest_Search, e, h, n
<1>5. PICK r : r = Receive_HttpRequest_Search(s, req, ok, own)
  OBVIOUS
<1> HIDE DEF counted, marked
<1>6. PICK k \in SeatRec : /\ r = k \/ r = Response_Player_Login(k, TRUE)
                                    \/ r = Response_Player_Login(k, FALSE)
                           /\ k = marked \/ k = counted
  BY <1>3, <1>4, <1>5
<1>7. k.clientID = s.clientID /\ k.asked = s.asked /\ k.excused = e /\ k.had \subseteq h
  BY <1>1, <1>3, <1>6
<1>8. r \in SeatRec /\ r.clientID = k.clientID /\ r.asked = k.asked
      /\ r.excused = k.excused /\ r.had = k.had
  BY <1>6, ResultKeeps
<1> QED
  BY <1>1, <1>5, <1>7, <1>8 DEF h

(* The player object of the Battle server, whoever has it.                 *)
LEMMA PlayerChange ==
    ASSUME TypeInv, HttpLoginAssumption, SeatsOK, UNCHANGED <<side, arrived>>, side = "Battle",
           NEW s \in SeatRec, s.clientID = seat[1].clientID, seat' = [seat EXCEPT ![1] = s],
           SeatOK(1, s), s.asked = 0 => seat[1].asked = 0, seat[1].excused \subseteq s.excused
    PROVE  /\ SeatStable /\ SeatsOK' /\ seat'[1] = s
           /\ \A d : SeatOf(d) = 1 /\ SeatOf(d)' = 1 /\ (Present(d)' <=> seat[1].clientID = d)
  BY HttpTypes, SeatTypes, SeatsStep DEF TypeInv, SeatsOK, SeatOf, Present, SeatStable

(* The player found is told.                                               *)
LEMMA AnswerLogins ==
    ASSUME SlotInv, HttpLoginAssumption, AnswerInv, LoginInv, InfosOK', MessageThread_Answer
    PROVE  LoginInv'
<1>0. /\ TypeInv /\ DeadSame /\ ListKept /\ thread.pc = "found" /\ thread' = [pc |-> "check"]
      /\ UNCHANGED <<side, arrived, msgQueue>>
  BY KeepingAnswers DEF SlotInv, KeepingAction, MessageThread_Answer
<1>1. /\ thread.clientID \in Named /\ thread.req \in ReqType /\ thread.ok \in BOOLEAN
      /\ thread'.pc \notin Holding
  BY <1>0, HttpTypes DEF ThreadRec, Holding
<1>2. PICK c \in Named, req \in ReqType : c = thread.clientID /\ req = thread.req
  BY <1>1
<1>3. Found(c, req) /\ side = "Battle"
  BY <1>0, SeatTypes, <1>2 DEF TypeInv, Found, Holding, LoginInv, MatchOK
<1>4. \A X : QueueFewer(X)
  BY <1>0 DEF QueueFewer
<1>5. \A d, r : ~Found(d, r)' /\ ListFewer(d, r)
  BY <1>0, <1>1, FewerKept DEF Found
<1>6. CASE req = "update"
  BY <1>2, <1>6, <1>0, <1>1, <1>4, SeatKept, QuietLogin DEF MessageThread_Answer, LoginInv
<1>7. CASE req # "update"
  <2>1. req \in Asked
    BY <1>7 DEF Asked, ReqType
  <2>2. PICK s \in SeatRec : s = seat[1] /\ 1 \in Seat
    BY <1>0, SeatTypes DEF TypeInv
  <2>3. PICK own \in BOOLEAN, ok \in BOOLEAN : own = Own(c) /\ ok = thread.ok
    BY <1>1 DEF Own, Present
  <2>4. PICK n : n = Receive_HttpRequest_Search(s, req, ok, own)
    OBVIOUS
  <2>5. seat' = [seat EXCEPT ![1] = n]
    BY <1>2, <1>7, <2>2, <2>3, <2>4 DEF MessageThread_Answer
  <2>6. /\ n \in SeatRec /\ n.clientID = s.clientID /\ n.asked = s.asked
        /\ s.excused \subseteq n.excused /\ (~own => n.excused # {})
        /\ n.had \subseteq IF own THEN s.had \cup {req} ELSE s.had
    BY <2>4, SearchKeeps
  <2>7. (own <=> s.clientID = c /\ c # 0) /\ (own => c \in Client) /\ SeatOf(c) = 1
    BY <1>3, <2>2, <2>3 DEF Own, Present, SeatOf, Named
  <2>8. own /\ s.excused = {} => OneOf(c, req) /\ ~Fresh(c)
    BY <1>0, <1>3, <2>1, <2>2, <2>3, <2>7, BusyAsked DEF LoginInv, WorkOK, Own, Excused
  <2>9. SeatOK(1, n)
    <3>1. own /\ s.excused = {} => s.asked # 0 /\ req \notin s.had
      BY <1>3, <2>2, <2>7, <2>8 DEF OneOf, Underway, Told, Fresh
    <3> QED
      BY <1>3, <2>1, <2>2, <2>4, <3>1, SearchOK DEF LoginInv, SeatsOK
  <2>10. /\ SeatStable /\ SeatsOK' /\ seat'[1] = n
         /\ \A d : SeatOf(d) = 1 /\ SeatOf(d)' = 1 /\ (Present(d)' <=> s.clientID = d)
    BY <1>0, <1>3, <2>2, <2>5, <2>6, <2>9, PlayerChange DEF LoginInv
  <2>11. \A d, r : (Told(d, r)' <=> r \in n.had) /\ (Told(d, r) <=> r \in s.had)
    BY <1>0, <1>3, <2>2, <2>10 DEF Told
  <2>12. ASSUME NEW d \in Client, NEW r \in Asked, d # c \/ r # req, Present(d)', Told(d, r)'
         PROVE  Told(d, r)
    BY <2>10, <2>11, <2>12, <2>7, <2>6
  <2>13. MatchOK'
    BY <1>0, <1>3 DEF MatchOK
  <2> DEFINE R == {req}
  <2>14. ASSUME NEW r \in Asked, r \in R, c \in Client
         PROVE  /\ c <= arrived /\ (Present(c)' => ~Fresh(c)')
                /\ Present(c)' /\ ~Excused(c)' => OneOf(c, r)'
    <3>1. c <= arrived /\ (Present(c) => ~Fresh(c))
      BY <1>0, <1>3, <2>1, <2>14, BusyAsked
    <3>2. r = req
      BY <2>14
    <3>3. ASSUME Present(c)', ~Excused(c)' PROVE OneOf(c, req)'
      <4>1. OneOf(c, req)
        BY <2>6, <2>8, <2>10, <3>3 DEF Excused
      <4>2. ~Sending(c, req) /\ ~Served(c, req) /\ Once(c, req)
        BY <1>3, <4>1 DEF OneOf, Once
      <4>3. Fewer(c, req)
        BY <1>4, <1>5 DEF Fewer
      <4>4. ~Sending(c, req)' /\ ~Served(c, req)'
        BY <4>2, <4>3 DEF Fewer, QueueFewer, ListFewer, Sending, SendOf, Served, IsFor
      <4> QED
        BY <1>5, <4>2, <4>3, <4>4, FewerWork DEF OneOf, Underway
    <3> QED
      BY <2>10, <2>14, <3>1, <3>2, <3>3 DEF SeatStable, Fresh
  <2>15. ASSUME NEW d \in Client, NEW r \in Asked, d # c \/ r \notin R
         PROVE  Fewer(d, r) /\ (Present(d)' /\ Told(d, r)' => Told(d, r))
    BY <1>4, <1>5, <2>12, <2>15 DEF Fewer
  <2> HIDE DEF R
  <2> QED
    BY <1>0, <2>10, <2>13, <2>14, <2>15, LoginMoved
<1> QED
  BY <1>6, <1>7

(* A request is sent: it waits, or has failed and is to be sent.           *)
LEMMA SendLogins ==
    ASSUME SlotInv, HttpLoginAssumption, InfoInv, AnswerInv, LoginInv, InfosOK',
           NEW how \in How, MessageThread_Send(how)
    PROVE  LoginInv'
<1>0. /\ TypeInv /\ DeadSame /\ UNCHANGED <<side, arrived>> /\ DirectRequestbyHttp(how)
      /\ curID \in Nat
  BY SendAnswers, HttpTypes DEF SlotInv, MessageThread_Send
<1>1. PICK msg \in Message, t \in Seq(Message) :
          /\ msg = Head(msgQueue) /\ msgQueue # <<>> /\ msg.type = "SEND"
          /\ msg.clientID \in Named /\ msg.req \in ReqType
          /\ msgQueue' = Tail(msgQueue) \o t
          /\ \A X : /\ Holds(t, X) <=> /\ how # "connecting"
                                       /\ \/ Holds(NowLeft(how), X)
                                          \/ Holds(Resent(msg.clientID, msg.req), X)
                    /\ ~(Holds(NowLeft(how), X) /\ Holds(Resent(msg.clientID, msg.req), X))
                              => HoldsOne(t, X)
  BY <1>0, SendQueue
<1>2. PICK c \in Named, req \in ReqType : c = msg.clientID /\ req = msg.req
  BY <1>1
<1>3. PICK i \in Slot :
          /\ i = Head(indexQueue)
          /\ slot'[i].requestID = IF Kept(how) THEN curID + 1 ELSE 0
          /\ LeftAtOnce(how) <=> ~Kept(how)
          /\ how # "connecting" => slot'[i].sock = "closed"
  BY <1>0, SendServes DEF SlotInv
<1>4. PICK n : /\ infoList' = infoList \cup {n} /\ n.slot = i /\ n.requestID = curID + 1
               /\ n.clientID = c /\ n.type = req
  <2>1. infoList' = infoList \cup {NewInfo(c, req)}
    BY <1>1, <1>2 DEF MessageThread_Send, NewInfo
  <2>2. LET m == NewInfo(c, req)
        IN  m.slot = i /\ m.requestID = curID + 1 /\ m.clientID = c /\ m.type = req
    BY <1>3 DEF NewInfo
  <2> QED
    BY <2>1, <2>2
<1>5. how # "connecting" /\ Kept(how) => ~Waiting(n)'
  BY <1>3, <1>4 DEF Waiting, Dead
<1>6. \A d, r : ~Holds(NowLeft(how), SendOf(d, r)) /\ ~Holds(NowLeft(how), OtherSends)
  <2>1. \A X : Holds(NowLeft(how), X) => [type |-> "LEAVE", requestID |-> curID + 1] \in X
    BY HoldsFew DEF NowLeft
  <2>2. \A d, r : /\ [type |-> "LEAVE", requestID |-> curID + 1] \notin SendOf(d, r)
                  /\ [type |-> "LEAVE", requestID |-> curID + 1] \notin OtherSends
    BY DEF SendOf, OtherSends
  <2> QED
    BY <2>1, <2>2
<1>7. /\ \A d, r : Holds(t, SendOf(d, r)) => d = c /\ r = req /\ how # "connecting"
      /\ \A d, r : HoldsOne(t, SendOf(d, r))
      /\ Holds(t, OtherSends) => req # "account"
  <2>1. \A X : Holds(Resent(c, req), X) => Send_Message(c, req) \in X
    BY ResentTyped
  <2>2. /\ \A d, r : Send_Message(c, req) \in SendOf(d, r) => d = c /\ r = req
        /\ Send_Message(c, req) \in OtherSends => req # "account"
    BY DEF SendOf, OtherSends, Send_Message
  <2> QED
    BY <1>1, <1>2, <1>6, <2>1, <2>2
<1>8. Head(msgQueue) \in SendOf(c, req) /\ Sending(c, req)
  BY <1>1, <1>2, SendTypes, <1>0, TakeStep DEF Sending
<1>15. IF how = "connecting" THEN UNCHANGED <<seat, thread>>
       ELSE FailedSeat(c, LeftAtOnce(how)) /\ thread' = Failing(c, req)
  <2>1. CASE how = "connecting"
    BY <2>1 DEF MessageThread_Send, Done
  <2>2. CASE how # "connecting"
    <3>1. LeftAtOnce(how) \in BOOLEAN
      BY <1>0, DirectIs DEF How, LeftAtOnce
    <3>2. PICK twice \in BOOLEAN, left \in Seq(Message) :
             twice = LeftAtOnce(how) /\ left = NowLeft(how)
      BY <1>0, <3>1, NewSendTyped
    <3>3. Fail_HttpRequest(c, req, twice, left)
      BY <1>1, <1>2, <2>2, <3>2 DEF MessageThread_Send, NowLeft
    <3> QED
      BY <1>0, <1>1, <2>2, <3>2, <3>3, FailIs DEF FailedSeat
  <2> QED
    BY <2>1, <2>2
<1>16. /\ \A d, r : d # c \/ r # req => (Found(d, r)' => Found(d, r))
       /\ how = "connecting" \/ Holds(t, SendOf(c, req)) => UNCHANGED thread
       /\ UNCHANGED thread \/ side = "Battle"
  <2>1. \A X : ~Holds(<<>>, X)
    BY HoldsFew
  <2>2. CASE how = "connecting"
    BY <1>15, <2>2 DEF Found
  <2>3. CASE how # "connecting"
    BY <1>0, <1>1, <1>2, <1>6, <1>15, <2>1, <2>3, FailingIs
  <2> QED
    BY <2>2, <2>3
<1>9. ASSUME NEW d, NEW r, d # c \/ r # req PROVE Fewer(d, r)
  BY <1>0, <1>1, <1>7, <1>9, <1>16, FewerAdded, <1>4 DEF ListFewer, IsFor, Waiting, DeadSame, Fewer
<1>10. MatchOK'
  BY <1>0, <1>1, TakeStep, <1>2, SendTypes, <1>7, <1>16, FewerAdded, <1>4 DEF MatchOK, OtherSends,
     LoginInv, QueueFewer
<1>11. /\ SeatStable /\ SeatsOK' /\ \A d \in Client : Present(d)' => SameTold(d)
       /\ how # "connecting" /\ ~Kept(how) /\ c \in Client /\ Present(c)' => Excused(c)'
  <2>1. CASE how = "connecting"
    BY <2>1, <1>0, <1>15, SeatKept DEF LoginInv
  <2>2. CASE how # "connecting"
    <3>1. PICK twice \in BOOLEAN : twice = LeftAtOnce(how)
      BY <1>0, DirectIs DEF How, LeftAtOnce
    <3>2. FailedSeat(c, twice)
      BY <1>15, <2>2, <3>1
    <3> QED
      BY <1>0, <1>3, <3>1, <3>2, FailChange DEF LoginInv
  <2> QED
    BY <2>1, <2>2
<1>12. \A d \in Client : \A r : Present(d)' /\ Told(d, r)' => Told(d, r)
  BY <1>0, <1>11, ToldSame
<1> DEFINE R == {req}
<1>13. ASSUME NEW r \in Asked, r \in R, c \in Client
       PROVE  /\ c <= arrived /\ (Present(c)' => ~Fresh(c)')
              /\ Present(c)' /\ ~Excused(c)' => OneOf(c, r)'
  <2>1. r = req
    BY <1>13
  <2>2. c <= arrived /\ (Present(c) => ~Fresh(c))
    BY <1>0, <1>8, <1>13, <2>1, BusyAsked
  <2>3. ASSUME Present(c)', ~Excused(c)' PROVE OneOf(c, req)'
    <3>1. Present(c) /\ ~Excused(c) /\ (how = "connecting" \/ Kept(how))
      BY <1>0, <1>11, <1>13, <2>3 DEF SeatStable, SeatOf, Excused
    <3>2. OneOf(c, req)
      BY <1>13, <2>1, <3>1 DEF LoginInv, WorkOK
    <3>3. /\ HoldsOne(msgQueue, SendOf(c, req)) /\ ~Served(c, req) /\ ~Found(c, req)
          /\ ~Told(c, req)
      BY <1>8, <3>2 DEF OneOf, Once, Underway
    <3>4. ~Told(c, req)' /\ (UNCHANGED thread => ~Found(c, req)')
      BY <1>12, <1>13, <2>3, <3>3 DEF Found
    <3>5. /\ HoldsOne(msgQueue', SendOf(c, req))
          /\ Holds(msgQueue', SendOf(c, req)) => how # "connecting" /\ Holds(t, SendOf(c, req))
      BY <1>0, <1>1, <1>8, <3>3, TakeStep, <1>7
    <3>6. \A a \in infoList' : IsFor(a, c, req) /\ Waiting(a)' => a = n /\ how = "connecting"
      BY <1>0, <3>3, <1>5, <3>1, <1>4 DEF Waiting, DeadSame, Served
    <3> QED
      BY <1>16, <3>4, <3>5, <3>6 DEF OneOf, Once, Served, Sending, SendOf, IsFor
  <2> QED
    BY <1>0, <1>11, <1>13, <2>1, <2>2, <2>3 DEF SeatStable, SeatOf, Fresh
<1>14. ASSUME NEW d \in Client, NEW r \in Asked, d # c \/ r \notin R
       PROVE  Fewer(d, r) /\ (Present(d)' /\ Told(d, r)' => Told(d, r))
  BY <1>9, <1>12, <1>14
<1> HIDE DEF R
<1> QED
  BY <1>0, <1>10, <1>11, <1>13, <1>14, LoginMoved

(* The failure is counted for the client that has the player, and its      *)
(* request is sent once more: it was found for it, or the client has an    *)
(* excuse.                                                                 *)
LEMMA FailLogins ==
    ASSUME SlotInv, HttpLoginAssumption, AnswerInv, LoginInv, InfosOK', MessageThread_Fail
    PROVE  LoginInv'
<1>0. /\ TypeInv /\ DeadSame /\ ListKept /\ thread.pc = "failing" /\ thread'.pc \notin Holding
      /\ UNCHANGED <<side, arrived>>
  BY KeepingAnswers DEF SlotInv, KeepingAction, MessageThread_Fail, Holding
<1>1. PICK f \in Named, req \in ReqType : f = thread.clientID /\ req = thread.req
  BY <1>0, FoundTyped
<1>2. Found(f, req) /\ side = "Battle"
  BY <1>0, SeatTypes, <1>1 DEF TypeInv, Found, Holding, LoginInv, MatchOK
<1>3. PICK s \in SeatRec : s = seat[1] /\ 1 \in Seat /\ SeatOK(1, s)
  BY <1>0, SeatTypes DEF TypeInv, LoginInv, SeatsOK
<1>4. PICK c \in Named : c = s.clientID
  BY DEF SeatRec, Named
<1>5. PICK t \in Seq(Message) : t = Repeated /\ msgQueue' = msgQueue \o t
  BY <1>0, FailedIs
<1>6. \A X : (Holds(t, X) => Send_Message(c, req) \in X) /\ HoldsOne(t, X)
  BY <1>1, <1>3, <1>4, <1>5, HoldsFew DEF Repeated
<1>7. PICK own \in BOOLEAN : own = Own(f)
  BY DEF Own
<1>8. (own <=> f = c /\ c # 0) /\ \A d : SeatOf(d) = 1 /\ SeatOf(d)' = 1
  BY <1>0, <1>2, <1>3, <1>4, <1>7 DEF Own, Present, SeatOf
<1>9. PICK n \in SeatRec : n = Again(s, own) /\ Alike(s, n) /\ (~own => n.excused # {})
  BY AgainTyped, FailedAlike
<1>10. seat' = [seat EXCEPT ![1] = n]
  BY <1>1, <1>3, <1>7, <1>9 DEF MessageThread_Fail
<1>11. /\ SeatStable /\ SeatsOK' /\ seat'[1] = n
       /\ \A d : (Present(d)' <=> c = d) /\ (Present(d) <=> c = d)
  <2>1. SeatOK(1, n) /\ n.clientID = s.clientID
    BY <1>3, <1>9, AlikeOK DEF Alike
  <2> QED
    BY <1>0, <1>2, <1>3, <1>4, <1>8, <1>9, <1>10, <2>1, PlayerChange DEF Alike, LoginInv, Present
<1>12. \A d, r : Told(d, r)' <=> Told(d, r)
  BY <1>0, <1>2, <1>3, <1>8, <1>9, <1>11 DEF Told, Alike
<1>13. MatchOK'
  BY <1>0, <1>2 DEF MatchOK
<1>14. \A d, r : ~Found(d, r)' /\ ListFewer(d, r)
  BY <1>0, FewerKept DEF Found
<1>15. c \in Client => Present(c) /\ c <= arrived /\ (~Excused(c)' => own /\ ~Excused(c))
  BY <1>0, <1>3, <1>4, <1>8, <1>9, <1>11, SeatTypes DEF SeatOK, Excused, Alike, TypeInv
<1> DEFINE R == {req}
<1>16. ASSUME NEW r \in Asked, r \in R, c \in Client
       PROVE  /\ c <= arrived /\ (Present(c)' => ~Fresh(c)')
              /\ Present(c)' /\ ~Excused(c)' => OneOf(c, r)'
  <2>1. r = req
    BY <1>16
  <2>2. ~Fresh(c)'
    <3>1. own => ~Fresh(c)
      BY <1>0, <1>2, <1>8, <1>15, <1>16, <2>1, BusyAsked
    <3> QED
      BY <1>3, <1>8, <1>9, <1>11, <3>1 DEF Fresh, Alike
  <2>3. ASSUME ~Excused(c)' PROVE OneOf(c, req)'
    <3>1. OneOf(c, req) /\ Found(c, req)
      BY <1>2, <1>8, <1>15, <1>16, <2>1, <2>3 DEF LoginInv, WorkOK
    <3>2. ~Sending(c, req) /\ ~Served(c, req) /\ ~Told(c, req) /\ Once(c, req)
      BY <3>1 DEF OneOf, Once, Underway
    <3>3. HoldsOne(msgQueue', SendOf(c, req))
      <4>1. PICK Y : Y = SendOf(c, req)
        OBVIOUS
      <4>2. HoldsOne(msgQueue, Y) /\ ~Holds(msgQueue, Y) /\ HoldsOne(t, Y)
        BY <1>6, <3>2, <4>1 DEF Once, Sending
      <4> QED
        BY <1>0, <1>5, <4>1, <4>2, AddStep DEF SendOf
    <3>4. ~Served(c, req)'
      BY <1>14, <3>2 DEF ListFewer, Served
    <3>5. ~Told(c, req)' /\ ~Found(c, req)'
      BY <1>12, <1>14, <3>2
    <3>6. Once(c, req)'
      BY <3>3, <3>4, <3>5 DEF Once, Served, SendOf, IsFor, Sending
    <3> QED
      BY <3>5, <3>6 DEF OneOf
  <2> QED
    BY <1>15, <1>16, <2>1, <2>2, <2>3
<1>17. ASSUME NEW d \in Client, NEW r \in Asked, d # c \/ r \notin R
       PROVE  Fewer(d, r) /\ (Present(d)' /\ Told(d, r)' => Told(d, r))
  <2>1. Send_Message(c, req) \notin SendOf(d, r)
    BY <1>17 DEF SendOf, Send_Message
  <2>2. ~Holds(t, SendOf(d, r))
    BY <1>6, <2>1
  <2> QED
    BY <1>0, <1>5, <1>12, <1>14, <2>2, FewerAdded DEF Fewer
<1> HIDE DEF R
<1> QED
  BY <1>0, <1>11, <1>13, <1>16, <1>17, LoginMoved

-----------------------------------------------------------------------------
(* The invariant.                                                          *)

HttpInv == SlotInv /\ InfoInv /\ AnswerInv /\ LoginInv

(* AnswerInv is inductive, given SlotInv and InfoInv.                      *)
LEMMA AnswerInvNext ==
    ASSUME SlotInv, HttpLoginAssumption, InfoInv, AnswerInv, [Next]_vars
    PROVE  AnswerInv'
<1>0. TypeInv
  BY DEF SlotInv
<1>1. CASE MessageThread_Recv_Match \/ MessageThread_Recv_Battle
  BY <1>0, <1>1, RecvTaken
<1>2. ASSUME NEW how \in How, MessageThread_Send(how) PROVE AnswerInv'
  BY <1>2, SendAnswers
<1>3. CASE Http
  BY <1>3, HttpAnswers
<1>4. CASE KeepingAction
  BY <1>4, KeepingAnswers
<1>5. CASE UNCHANGED vars
  BY <1>5 DEF vars, httpVars, AnswerInv, RecvOK, PendingOK, Pending, Dead, RecvOf
<1> QED
  BY <1>1, <1>2, <1>3, <1>4, <1>5, NextIs DEF OtherAction, KeepingAction

(* LoginInv is inductive, given the other three.                           *)
LEMMA LoginInvNext ==
    ASSUME SlotInv, HttpLoginAssumption, InfoInv, AnswerInv, LoginInv, [Next]_vars
    PROVE  LoginInv'
<1>0. TypeInv /\ InfosOK'
  BY InfoInvNext DEF SlotInv, InfoInv
<1>1. CASE ClientAction
  BY <1>0, <1>1, JoinLogins, ClientLeaves, RecordLogins, LoginLogins DEF ClientAction
<1>2. CASE OtherAction
  BY <1>0, <1>2, IdleLogins, RecvLogins, AnswerLogins, FailLogins, LeaveLogins DEF OtherAction
<1>3. ASSUME NEW how \in How, MessageThread_Send(how) PROVE LoginInv'
  BY <1>0, <1>3, SendLogins
<1>4. CASE MessageThread_HeartBeat
  BY <1>0, <1>4, IdleLogins
<1>5. CASE Http
  BY <1>0, <1>5, HttpLogins
<1>6. CASE UNCHANGED vars
  BY <1>6, KeptSame, <1>0, QueueSame, QuietStep DEF vars, httpVars, DeadSame, Dead
<1> QED
  BY <1>1, <1>2, <1>3, <1>4, <1>5, <1>6, NextIs

(* AnswerInv and LoginInv hold at the start.                               *)
LEMMA HttpInvInit ==
    ASSUME SlotInv, Init
    PROVE  AnswerInv /\ LoginInv
<1>1. /\ msgQueue = <<>> /\ curID = 0 /\ infoList = {} /\ thread = [pc |-> "check"]
      /\ seat = [p \in Seat |-> EmptySeat] /\ \A i \in Slot : ~Pending(i)
  BY DEF Init, HttpInit, Pending
<1>2. \A X : ~Holds(msgQueue, X) /\ HoldsOne(msgQueue, X)
  BY <1>1, HoldsFew
<1>3. AnswerInv
  BY <1>1, <1>2 DEF AnswerInv, RecvOK, PendingOK
<1>4. SeatsOK
  BY <1>1 DEF SeatOK, EmptySeat, Bit, SeatsOK
<1>5. \A c : NothingFor(c)
  BY <1>1, <1>2 DEF NothingFor, Sending, Listed, Found, Holding
<1>6. MatchOK /\ NothingOK
  BY <1>1, <1>2, <1>5 DEF MatchOK, NothingOK, Holding
<1>7. WorkOK
  BY <1>5, NothingOnce DEF WorkOK, OneOf
<1> QED
  BY <1>3, <1>4, <1>6, <1>7 DEF LoginInv

(* A client is logged in only with both answers, and told the result of    *)
(* its login once, whatever failed and was sent again in between, unless   *)
(* one of its requests was repeated twice, it logged in again, or what the *)
(* client before asked for was counted for it.                             *)
(* (Receive_HttpRequest_SearchAccount, bRecv)                              *)
THEOREM LoginsAreSound == Spec => []LoginSound
<1>1. Init => HttpInv
  BY SlotInvInit, InfoInvInit, HttpInvInit, HttpAsyncAssumption, HttpLoginAssumption DEF HttpInv
<1>2. HttpInv /\ [Next]_vars => HttpInv'
  BY SlotInvNext, InfoInvNext, AnswerInvNext, LoginInvNext, HttpLoginAssumption DEF HttpInv
<1>3. HttpInv => LoginSound
  <2> SUFFICES ASSUME HttpInv, NEW p \in Seat
               PROVE  /\ seat[p].bLogin => {"account", "contents"} \subseteq seat[p].had \/ seat[p].excused # {}
                      /\ seat[p].answers > 1 => seat[p].excused # {}
    BY DEF LoginSound, LoginNeedsBothAnswers, LoginAnsweredOnce
  <2>1. SeatOK(p, seat[p])
    BY DEF HttpInv, LoginInv, SeatsOK
  <2>2. side \in {"Match", "Battle"}
    BY SeatTypes, HttpLoginAssumption DEF HttpInv, SlotInv, TypeInv
  <2>3. seat[p].answers \in Nat
    BY SeatTypes, HttpLoginAssumption DEF HttpInv, SlotInv, TypeInv, SeatRec
  <2> QED
    BY <2>1, <2>2, <2>3 DEF SeatOK, Bit, Asked
<1> QED
  BY <1>1, <1>2, <1>3, PTL DEF Spec
=============================================================================
