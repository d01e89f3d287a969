-------------------------- MODULE ChatServerProofs --------------------------
(* Proofs about ChatServer, for any number of slots, rooms, clients and     *)
(* losses of the link: rooms and players agree on who is in, no packet      *)
(* meets a player that is gone, and the chat server has the rooms it was    *)
(* told of.                                                                 *)
EXTENDS ChatServer, Queues, FiniteSetTheorems, WellFoundedInduction, TLAPS

-----------------------------------------------------------------------------
(* What a queue holds when its head is taken or others are added.          *)

(* The tail of a queue is the queue without its first element.             *)
LEMMA TailElements ==
    ASSUME NEW S, NEW s \in Seq(S), s # <<>>
    PROVE  /\ Head(s) \in S /\ Tail(s) \in Seq(S)
           /\ 1 \in DOMAIN s /\ Head(s) = s[1]
           /\ \A i \in DOMAIN Tail(s) : i + 1 \in DOMAIN s /\ Tail(s)[i] = s[i + 1]
           /\ \A i \in DOMAIN s : i # 1 => i - 1 \in DOMAIN Tail(s) /\ Tail(s)[i - 1] = s[i]
  OBVIOUS

(* Two queues joined hold the elements of the first, then of the second.   *)
LEMMA JoinElements ==
    ASSUME NEW S, NEW s \in Seq(S), NEW t \in Seq(S)
    PROVE  /\ s \o t \in Seq(S)
           /\ \A i \in DOMAIN s : i \in DOMAIN (s \o t) /\ (s \o t)[i] = s[i]
           /\ \A i \in DOMAIN t : /\ Len(s) + i \in DOMAIN (s \o t)
                                  /\ (s \o t)[Len(s) + i] = t[i]
           /\ \A i \in DOMAIN (s \o t) :
                i \notin DOMAIN s => i - Len(s) \in DOMAIN t /\ (s \o t)[i] = t[i - Len(s)]
           /\ \A i \in DOMAIN s : i \in 1 .. Len(s)
           /\ \A i \in DOMAIN t : i >= 1
           /\ Len(s) \in Nat
  OBVIOUS

(* The queue holds something of X iff its head or its tail does.           *)
LEMMA HoldsTail ==
    ASSUME NEW S, NEW s \in Seq(S), s # <<>>, NEW X
    PROVE  Holds(s, X) <=> Head(s) \in X \/ Holds(Tail(s), X)
  BY TailElements DEF Holds

LEMMA HoldsJoin ==
    ASSUME NEW S, NEW s \in Seq(S), NEW t \in Seq(S), NEW X
    PROVE  Holds(s \o t, X) <=> Holds(s, X) \/ Holds(t, X)
<1> DEFINE u == s \o t
<1>1. /\ \A i \in DOMAIN s : i \in DOMAIN u /\ u[i] = s[i]
      /\ \A i \in DOMAIN t : Len(s) + i \in DOMAIN u /\ u[Len(s) + i] = t[i]
      /\ \A i \in DOMAIN u :
           i \notin DOMAIN s => i - Len(s) \in DOMAIN t /\ u[i] = t[i - Len(s)]
  BY JoinElements
<1> HIDE DEF u
<1>2. Holds(s, X) \/ Holds(t, X) => Holds(u, X)
  BY <1>1 DEF Holds
<1>3. Holds(u, X) => Holds(s, X) \/ Holds(t, X)
  BY <1>1 DEF Holds
<1> QED
  BY <1>2, <1>3 DEF u

LEMMA HoldsOneElement ==
    ASSUME NEW x, NEW X
    PROVE  /\ Holds(<<x>>, X) <=> x \in X
           /\ ~Holds(<<>>, X)
           /\ HoldsOne(<<x>>, X) /\ HoldsOne(<<>>, X)
  BY DEF Holds, HoldsOne

(* Append is a join with a queue of one.                                   *)
LEMMA AppendIsJoin ==
    ASSUME NEW S, NEW s \in Seq(S), NEW x \in S
    PROVE  /\ Append(s, x) = s \o <<x>>
           /\ Append(s, x) \in Seq(S) /\ <<x>> \in Seq(S)
  OBVIOUS

(* Once the only element of X has been taken none is left.                 *)
LEMMA HoldsOneTail ==
    ASSUME NEW S, NEW s \in Seq(S), s # <<>>, NEW X, HoldsOne(s, X)
    PROVE  /\ HoldsOne(Tail(s), X)
           /\ Head(s) \in X => ~Holds(Tail(s), X)
  BY TailElements DEF HoldsOne, Holds

LEMMA HoldsOneJoin ==
    ASSUME NEW S, NEW s \in Seq(S), NEW t \in Seq(S), NEW X,
           HoldsOne(s, X), HoldsOne(t, X), ~Holds(s, X) \/ ~Holds(t, X)
    PROVE  HoldsOne(s \o t, X)
  BY JoinElements DEF HoldsOne, Holds

LEMMA OrderedTail ==
    ASSUME NEW S, NEW s \in Seq(S), s # <<>>, NEW X, NEW Y, Ordered(s, X, Y)
    PROVE  /\ Ordered(Tail(s), X, Y)
           /\ Head(s) \in Y => \A i \in DOMAIN s : s[i] \in X => i = 1
  BY TailElements DEF Ordered

LEMMA OrderedAppend ==
    ASSUME NEW S, NEW s \in Seq(S), NEW x \in S, NEW X, NEW Y, Ordered(s, X, Y),
           x \in X => ~Holds(s, Y)
    PROVE  Ordered(Append(s, x), X, Y)
<1> DEFINE t == Append(s, x)
<1>1. /\ \A i \in DOMAIN t : i \in DOMAIN s \/ i = Len(s) + 1
      /\ \A i \in DOMAIN s : i \in Int /\ i <= Len(s) /\ t[i] = s[i]
      /\ t[Len(s) + 1] = x /\ Len(s) \in Nat
  OBVIOUS
<1> HIDE DEF t
<1>2. SUFFICES ASSUME NEW i \in DOMAIN t, NEW j \in DOMAIN t, t[i] \in X, t[j] \in Y
               PROVE  i <= j
  BY DEF Ordered, t
<1>3. CASE i \in DOMAIN s /\ j \in DOMAIN s
  BY <1>1, <1>2, <1>3 DEF Ordered
<1>4. CASE j = Len(s) + 1
  BY <1>1, <1>4
<1>5. CASE i = Len(s) + 1 /\ j \in DOMAIN s
  BY <1>1, <1>2, <1>5 DEF Holds
<1> QED
  BY <1>1, <1>3, <1>4, <1>5

(* What an added element changes of what a queue holds.                    *)
LEMMA HoldsAppend ==
    ASSUME NEW S, NEW s \in Seq(S), NEW x \in S, NEW X
    PROVE  /\ Append(s, x) \in Seq(S)
           /\ Holds(Append(s, x), X) <=> Holds(s, X) \/ x \in X
           /\ HoldsOne(s, X) /\ (x \in X => ~Holds(s, X)) => HoldsOne(Append(s, x), X)
<1>1. Append(s, x) = s \o <<x>> /\ Append(s, x) \in Seq(S) /\ <<x>> \in Seq(S)
  BY AppendIsJoin
<1>2. Holds(s \o <<x>>, X) <=> Holds(s, X) \/ x \in X
  BY <1>1, HoldsJoin, HoldsOneElement
<1>3. HoldsOne(s, X) /\ (x \in X => ~Holds(s, X)) => HoldsOne(s \o <<x>>, X)
  BY HoldsOneElement, <1>1, HoldsOneJoin
<1> QED
  BY <1>1, <1>2, <1>3

-----------------------------------------------------------------------------
(* The messages about one client.                                           *)
About(c, types) == {m \in Message : m.type \in types /\ m.client = c}

Requests   == {"LOGIN", "ENTER", "CHAT"}
JoinOf(c)     == About(c, {"JOIN"})
LeaveOf(c)    == About(c, {"LEAVE"})
RequestOf(c)  == About(c, Requests)
OfClient(c)   == About(c, Requests \cup {"JOIN", "LEAVE"})

(* A client's messages begin with its join and end with its leave; one of   *)
(* its requests is under way at a time.                                     *)
QueueOK(c) ==
    /\ Ordered(msgQueue, JoinOf(c), OfClient(c))
    /\ Ordered(msgQueue, OfClient(c), LeaveOf(c))
    /\ HoldsOne(msgQueue, RequestOf(c))
    /\ Holds(msgQueue, OfClient(c)) => c \in DOMAIN playerMap \/ Holds(msgQueue, JoinOf(c))
    /\ Holds(msgQueue, JoinOf(c)) => c \notin DOMAIN playerMap
ClientOK(c) ==
    /\ c > arrived => /\ ~Holds(msgQueue, OfClient(c)) /\ c \notin DOMAIN playerMap
                      /\ client[c].conn = "none"
    /\ client[c].conn \in {"up", "shut"} => /\ c \in DOMAIN playerMap \/ Holds(msgQueue, JoinOf(c))
                                            /\ ~Holds(msgQueue, LeaveOf(c))
    /\ Holds(msgQueue, RequestOf(c)) => client[c].busy \/ client[c].conn = "gone"

ClientInv == /\ TypeOK
             /\ crash # "player"
             /\ \A c \in Client : QueueOK(c) /\ ClientOK(c)

(* Who is in a room: both sides agree, but for the entries of who entered   *)
(* again.                                                                   *)
Members(no) == {c \in DOMAIN playerMap : playerMap[c].bEnter /\ playerMap[c].roomNo = no}

Once(s, x) == \A i, j \in DOMAIN s : s[i] = x /\ s[j] = x => i = j

ListOK(no) == LET list == roomMap[no].playerList IN
              /\ roomMap[no].curUser = Len(list)
              /\ Members(no) \subseteq ToSet(list) /\ ToSet(list) \ again \subseteq Members(no)
              /\ \A x : x \in again \/ Once(list, x)

ListInv == /\ \A no \in DOMAIN roomMap : ListOK(no)
           /\ \A c \in DOMAIN playerMap :
                playerMap[c].bEnter => playerMap[c].roomNo \in DOMAIN roomMap \cup {0}

-----------------------------------------------------------------------------
(* The rooms there are before message i of a queue is handled, after all of *)
(* it, and after one message.                                               *)
RoomsBefore(q, R, i) ==
    {no \in RoomID :
        \/ \E k \in DOMAIN q : /\ k < i /\ q[k] = Create(no)
                               /\ \A j \in DOMAIN q : k < j /\ j < i => q[j] \notin Ends(no)
        \/ no \in R /\ \A j \in DOMAIN q : j < i => q[j] \notin Ends(no)}
RoomsOf(q, R) == {no \in RoomID : \/ Closes(q, Create(no), Ends(no))
                                  \/ no \in R /\ ~Holds(q, Ends(no))}
Handled(m, R) == {no \in RoomID : m = Create(no) \/ (no \in R /\ m \notin Ends(no))}

(* A room is created where it is not there, and deleted where it is.        *)
Fits(m, R) == \A no \in RoomID : /\ m = Create(no) => no \notin R
                                 /\ m = Delete(no) => no \in R
InTurn(q, R) == \A i \in DOMAIN q : Fits(q[i], RoomsBefore(q, R, i))

MirrorInv ==
    wrong = {} =>
        /\ crash = "none"
        /\ InTurn(msgQueue, DOMAIN roomMap)
        /\ InTurn(toChat, RoomsOf(msgQueue, DOMAIN roomMap))
        /\ RoomsOf(toChat, RoomsOf(msgQueue, DOMAIN roomMap)) = IF link THEN told ELSE {}

(* The battle server: a room number stands in one slot; which rooms it has  *)
(* told of, while a worker goes through the slots, the Auth thread opens    *)
(* and the Game thread closes rooms.                                        *)
Live(s) == room[s].status \in {"Wait", "Play"}

RoomOK ==
    /\ \A s, t \in Slot : room[s].roomNo = room[t].roomNo => s = t \/ room[s].roomNo = 0
    /\ \A s \in Slot : /\ room[s].roomNo <= curRoomID
                       /\ room[s].status # "Close" \/ game = s => room[s].roomNo # 0
                       /\ game = s => room[s].status = "Close"
    /\ auth = "send" => \E s \in Slot : room[s].status = "Wait" /\ room[s].roomNo = curRoomID
PacketsOK == ~Holds(toChat, UNION {OfClient(c) : c \in Client})
LinkOK ==
    /\ link => peer
    /\ ~link => toChat = <<>>
    /\ PacketsOK
    /\ ~peer => ~bLogin /\ login = 0 /\ ~asked
ToldOK ==
    link => /\ \A no \in told : no \in Open \/ (game # 0 /\ no = room[game].roomNo)
            /\ \A s \in Slot : Live(s) /\ (bLogin \/ s < login) =>
                  room[s].roomNo \in told \/ (auth = "send" /\ room[s].roomNo = curRoomID)

BattleInv == TypeOK /\ RoomOK /\ LinkOK /\ ToldOK

ChatInv == ClientInv /\ ListInv /\ BattleInv /\ MirrorInv

-----------------------------------------------------------------------------
(* Queues of room messages.                                                 *)
LEMMA Kinds ==
    ASSUME NEW no, NEW n
    PROVE  /\ Create(no) = Create(n) => no = n
           /\ Create(no) \notin Ends(n)
           /\ Delete(no) # Create(n)
           /\ Delete(no) \in Ends(n) => no = n
           /\ Create(no).type = "CREATE" /\ Create(no).room = no
           /\ Delete(no).type = "DELETE" /\ Delete(no).room = no
  BY DEF Create, Delete, Ends

(* Messages that are about no room.                                         *)
LEMMA HandledNothing ==
    ASSUME NEW m, m.type \notin {"CREATE", "DELETE", "DISCONNECTED"}, NEW R
    PROVE  Handled(m, R) = R \cap RoomID /\ Fits(m, R)
  BY DEF Create, Delete, Ends, Handled, Fits

(* The rooms after one more message.                                        *)
LEMMA RoomsAppend ==
    ASSUME NEW q \in Seq(Message), NEW m \in Message, NEW R
    PROVE  RoomsOf(Append(q, m), R) = Handled(m, RoomsOf(q, R))
<1> DEFINE t == Append(q, m)
<1>1. /\ t = q \o <<m>> /\ <<m>> \in Seq(Message)
      /\ \A X : Holds(t, X) <=> Holds(q, X) \/ m \in X
      /\ \A X : Holds(<<m>>, X) <=> m \in X
  BY AppendIsJoin, HoldsAppend, HoldsOneElement
<1>2. /\ \A i \in DOMAIN t : i \in DOMAIN q \/ i = Len(q) + 1
      /\ \A i \in DOMAIN q : i \in DOMAIN t /\ i \in Int /\ i <= Len(q) /\ t[i] = q[i]
      /\ t[Len(q) + 1] = m /\ Len(q) \in Nat /\ Len(q) + 1 \in DOMAIN t
  OBVIOUS
<1> HIDE DEF t
<1>3. ASSUME NEW no \in RoomID
      PROVE  no \in RoomsOf(t, R) <=> no \in Handled(m, RoomsOf(q, R))
  <2>1. Closes(t, Create(no), Ends(no))
          <=> m = Create(no) \/ (Closes(q, Create(no), Ends(no)) /\ m \notin Ends(no))
    BY <1>2 DEF Closes
  <2> QED
    BY <1>1, <2>1, Kinds DEF RoomsOf, Handled
<1> QED
  BY <1>3 DEF RoomsOf, Handled, t

(* The first message handled.                                               *)
LEMMA RoomsTail ==
    ASSUME NEW q \in Seq(Message), q # <<>>, NEW R
    PROVE  RoomsOf(q, R) = RoomsOf(Tail(q), Handled(Head(q), R))
<1> DEFINE t == Tail(q)
           m == Head(q)
<1>1. /\ 1 \in DOMAIN q /\ m = q[1]
      /\ \A i \in DOMAIN t : i + 1 \in DOMAIN q /\ t[i] = q[i + 1]
      /\ \A i \in DOMAIN q : i # 1 => i - 1 \in DOMAIN t /\ t[i - 1] = q[i]
      /\ \A X : Holds(q, X) <=> m \in X \/ Holds(t, X)
  BY TailElements, HoldsTail
<1>2. /\ \A i \in DOMAIN q : i \in Int /\ i >= 1
      /\ \A i \in DOMAIN t : i \in Int /\ i >= 1
  OBVIOUS
<1> HIDE DEF t, m
<1>3. ASSUME NEW no \in RoomID
      PROVE  no \in RoomsOf(q, R) <=> no \in RoomsOf(t, Handled(m, R))
  <2>1. Closes(q, Create(no), Ends(no))
          <=> \/ Closes(t, Create(no), Ends(no))
              \/ m = Create(no) /\ ~Holds(t, Ends(no))
    <3>1. ASSUME m = Create(no), ~Holds(t, Ends(no)) PROVE Closes(q, Create(no), Ends(no))
      <4>1. ASSUME NEW j \in DOMAIN q, j > 1 PROVE q[j] \notin Ends(no)
        <5>1. j - 1 \in DOMAIN t /\ t[j - 1] = q[j]
          BY <1>1, <1>2, <4>1
        <5> QED
          BY <3>1, <5>1 DEF Holds
      <4> QED
        BY <1>1, <3>1, <4>1 DEF Closes
    <3>2. ASSUME Closes(t, Create(no), Ends(no)) PROVE Closes(q, Create(no), Ends(no))
      BY <3>2, <1>1, <1>2 DEF Closes
    <3>3. ASSUME Closes(q, Create(no), Ends(no)), ~Closes(t, Create(no), Ends(no))
          PROVE  m = Create(no) /\ ~Holds(t, Ends(no))
      BY <3>3, <1>1, <1>2 DEF Closes, Holds
    <3> QED
      BY <3>1, <3>2, <3>3
  <2>2. m = Create(no) => m \notin Ends(no)
    BY Kinds
  <2> QED
    BY <1>1, <2>1, <2>2 DEF RoomsOf, Handled
<1> QED
  BY <1>3 DEF RoomsOf, t, m

LEMMA RoomsNone == ASSUME NEW R PROVE RoomsOf(<<>>, R) = R \cap RoomID /\ InTurn(<<>>, R)
  BY DEF RoomsOf, Closes, Holds, InTurn

(* The rooms before the message that follows a queue.                       *)
LEMMA BeforeEnd ==
    ASSUME NEW q \in Seq(Message), NEW R
    PROVE  RoomsBefore(q, R, Len(q) + 1) = RoomsOf(q, R)
  BY DEF RoomsBefore, RoomsOf, Closes, Holds

LEMMA InTurnAppend ==
    ASSUME NEW q \in Seq(Message), NEW m \in Message, NEW R,
           InTurn(q, R), Fits(m, RoomsOf(q, R))
    PROVE  InTurn(Append(q, m), R)
<1> DEFINE t == Append(q, m)
<1>1. /\ \A i \in DOMAIN t : i \in DOMAIN q \/ i = Len(q) + 1
      /\ \A i \in DOMAIN q : i \in DOMAIN t /\ i \in Int /\ i < Len(q) + 1 /\ t[i] = q[i]
      /\ t[Len(q) + 1] = m /\ Len(q) \in Nat /\ Len(q) + 1 \in DOMAIN t
  OBVIOUS
<1> HIDE DEF t
<1>2. ASSUME NEW i \in DOMAIN t PROVE RoomsBefore(t, R, i) = RoomsBefore(q, R, i)
  BY <1>1 DEF RoomsBefore
<1>3. SUFFICES ASSUME NEW i \in DOMAIN t PROVE Fits(t[i], RoomsBefore(t, R, i))
  BY DEF InTurn, t
<1>4. CASE i \in DOMAIN q
  BY <1>1, <1>2, <1>4 DEF InTurn
<1>5. CASE i = Len(q) + 1
  BY <1>1, <1>2, <1>5, BeforeEnd
<1> QED
  BY <1>1, <1>4, <1>5

LEMMA InTurnTail ==
    ASSUME NEW q \in Seq(Message), q # <<>>, NEW R, InTurn(q, R)
    PROVE  /\ Fits(Head(q), R)
           /\ InTurn(Tail(q), Handled(Head(q), R))
<1> DEFINE t == Tail(q)
           m == Head(q)
<1>1. /\ 1 \in DOMAIN q /\ m = q[1]
      /\ \A i \in DOMAIN t : i + 1 \in DOMAIN q /\ t[i] = q[i + 1]
      /\ \A i \in DOMAIN q : i # 1 => i - 1 \in DOMAIN t /\ t[i - 1] = q[i]
  BY TailElements
<1>2. /\ \A i \in DOMAIN q : i \in Int /\ i >= 1
      /\ \A i \in DOMAIN t : i \in Int /\ i >= 1
  OBVIOUS
<1> HIDE DEF t, m
<1>3. Fits(m, R)
  BY <1>2, <1>1 DEF RoomsBefore, InTurn, Fits
<1>4. ASSUME NEW i \in DOMAIN t
      PROVE  RoomsBefore(q, R, i + 1) \subseteq RoomsBefore(t, Handled(m, R), i)
  <2>1. SUFFICES ASSUME NEW no \in RoomID, no \in RoomsBefore(q, R, i + 1)
                 PROVE  no \in RoomsBefore(t, Handled(m, R), i)
    BY DEF RoomsBefore
  <2>2. CASE no \in R /\ \A j \in DOMAIN q : j < i + 1 => q[j] \notin Ends(no)
    BY <1>1, <1>2, <2>2 DEF RoomsBefore, Handled
  <2>3. ASSUME NEW k \in DOMAIN q, k < i + 1, q[k] = Create(no),
               \A j \in DOMAIN q : k < j /\ j < i + 1 => q[j] \notin Ends(no)
        PROVE  no \in RoomsBefore(t, Handled(m, R), i)
    <3>1. CASE k = 1
      BY <1>1, <2>3, <3>1, <1>2 DEF RoomsBefore, Handled
    <3>2. CASE k # 1
      <4>1. k - 1 \in DOMAIN t /\ t[k - 1] = Create(no) /\ k - 1 < i
        BY <1>1, <1>2, <2>3, <3>2
      <4>2. ASSUME NEW j \in DOMAIN t, k - 1 < j, j < i PROVE t[j] \notin Ends(no)
        <5>1. j + 1 \in DOMAIN q /\ q[j + 1] = t[j] /\ k < j + 1 /\ j + 1 < i + 1
          BY <1>1, <1>2, <4>2
        <5> QED
          BY <2>3, <5>1
      <4> QED
        BY <4>1, <4>2 DEF RoomsBefore
    <3> QED
      BY <3>1, <3>2
  <2> QED
    BY <2>1, <2>2, <2>3 DEF RoomsBefore
<1>5. ASSUME NEW i \in DOMAIN t
      PROVE  RoomsBefore(t, Handled(m, R), i) \subseteq RoomsBefore(q, R, i + 1)
  <2>1. SUFFICES ASSUME NEW no \in RoomID, no \in RoomsBefore(t, Handled(m, R), i)
                 PROVE  no \in RoomsBefore(q, R, i + 1)
    BY DEF RoomsBefore
  <2>2. ASSUME NEW k \in DOMAIN t, k < i, t[k] = Create(no),
               \A j \in DOMAIN t : k < j /\ j < i => t[j] \notin Ends(no)
        PROVE  no \in RoomsBefore(q, R, i + 1)
    <3>1. k + 1 \in DOMAIN q /\ q[k + 1] = Create(no) /\ k + 1 < i + 1
      BY <1>1, <1>2, <2>2
    <3>2. ASSUME NEW j \in DOMAIN q, k + 1 < j, j < i + 1 PROVE q[j] \notin Ends(no)
      <4>1. j - 1 \in DOMAIN t /\ t[j - 1] = q[j] /\ k < j - 1 /\ j - 1 < i
        BY <1>1, <1>2, <3>2
      <4> QED
        BY <2>2, <4>1
    <3> QED
      BY <3>1, <3>2 DEF RoomsBefore
  <2>3. CASE no \in Handled(m, R) /\ \A j \in DOMAIN t : j < i => t[j] \notin Ends(no)
    <3>1. \A j \in DOMAIN q : 1 < j /\ j < i + 1 => q[j] \notin Ends(no)
      BY <1>1, <1>2, <2>3
    <3>2. CASE m = Create(no)
      <4>1. 1 < i + 1 /\ q[1] = Create(no)
        BY <1>1, <1>2, <3>2
      <4> QED
        BY <1>1, <3>1, <4>1 DEF RoomsBefore
    <3>3. CASE no \in R /\ m \notin Ends(no)
      BY <1>1, <1>2, <3>1, <3>3 DEF RoomsBefore
    <3> QED
      BY <2>3, <3>2, <3>3 DEF Handled
  <2> QED
    BY <2>1, <2>2, <2>3 DEF RoomsBefore
<1>6. InTurn(t, Handled(m, R))
  <2> SUFFICES ASSUME NEW i \in DOMAIN t PROVE Fits(t[i], RoomsBefore(t, Handled(m, R), i))
    BY DEF InTurn
  <2>1. Fits(q[i + 1], RoomsBefore(q, R, i + 1))
    BY <1>1 DEF InTurn
  <2>2. RoomsBefore(t, Handled(m, R), i) = RoomsBefore(q, R, i + 1) /\ t[i] = q[i + 1]
    BY <1>1, <1>4, <1>5
  <2> QED
    BY <2>1, <2>2
<1> QED
  BY <1>3, <1>6 DEF t, m

(* What RoomsMirrored looks at.                                             *)
LEMMA RoomsJoin ==
    ASSUME TypeOK
    PROVE  RoomsAfter = RoomsOf(toChat, RoomsOf(msgQueue, DOMAIN roomMap))
<1> DEFINE q == msgQueue \o toChat
<1>0. msgQueue \in Seq(Message) /\ toChat \in Seq(Message)
  BY DEF TypeOK
<1>1. \A X : Holds(q, X) <=> Holds(msgQueue, X) \/ Holds(toChat, X)
  BY <1>0, HoldsJoin
<1>2. /\ \A i \in DOMAIN msgQueue : i \in DOMAIN q /\ q[i] = msgQueue[i]
      /\ \A i \in DOMAIN toChat : Len(msgQueue) + i \in DOMAIN q /\ q[Len(msgQueue) + i] = toChat[i]
      /\ \A i \in DOMAIN q : i \notin DOMAIN msgQueue =>
           i - Len(msgQueue) \in DOMAIN toChat /\ q[i] = toChat[i - Len(msgQueue)]
      /\ \A i \in DOMAIN toChat : i >= 1 /\ i \in Int
      /\ \A i \in DOMAIN msgQueue : i \in Int /\ i <= Len(msgQueue)
      /\ \A i \in DOMAIN q : i \in Int
      /\ Len(msgQueue) \in Nat
  BY <1>0, JoinElements
<1> HIDE DEF q
<1>3. ASSUME NEW no \in RoomID
      PROVE  Closes(q, Create(no), Ends(no))
               <=> \/ Closes(toChat, Create(no), Ends(no))
                   \/ Closes(msgQueue, Create(no), Ends(no)) /\ ~Holds(toChat, Ends(no))
  <2>1. ASSUME Closes(q, Create(no), Ends(no)), ~Closes(toChat, Create(no), Ends(no))
        PROVE  Closes(msgQueue, Create(no), Ends(no)) /\ ~Holds(toChat, Ends(no))
    BY <2>1, <1>2 DEF Closes, Holds
  <2>2. ASSUME Closes(toChat, Create(no), Ends(no)) PROVE Closes(q, Create(no), Ends(no))
    BY <2>2, <1>2 DEF Closes
  <2>3. ASSUME Closes(msgQueue, Create(no), Ends(no)), ~Holds(toChat, Ends(no))
        PROVE  Closes(q, Create(no), Ends(no))
    BY <2>3, <1>2 DEF Closes, Holds
  <2> QED
    BY <2>1, <2>2, <2>3
<1>4. RoomsAfter = {no \in RoomID : \/ Closes(q, Create(no), Ends(no))
                                    \/ no \in DOMAIN roomMap /\ ~Holds(q, Ends(no))}
  BY DEF RoomsAfter, Closes, Holds, q
<1> QED
  BY <1>1, <1>3, <1>4 DEF RoomsOf

-----------------------------------------------------------------------------
(* Types.                                                                   *)
LEMMA MessageKinds ==
    ASSUME NEW c \in Client, NEW type \in Requests \cup {"JOIN", "LEAVE"}, NEW no \in RoomID \cup {0},
           NEW n \in RoomID
    PROVE  /\ [type |-> type, client |-> c, room |-> no] \in Message
           /\ Create(n) \in Message /\ Delete(n) \in Message
           /\ [type |-> "TOKEN"] \in Message /\ [type |-> "DISCONNECTED"] \in Message
  BY DEF Message, Create, Delete, Requests

LEMMA Markers == [type |-> "TOKEN"] \in Message /\ [type |-> "DISCONNECTED"] \in Message
  BY DEF Message

LEMMA RoomMessages == ASSUME NEW no \in RoomID PROVE Create(no) \in Message /\ Delete(no) \in Message
  BY DEF Message, Create, Delete

LEMMA ClientMessages ==
    ASSUME NEW c \in Client, NEW type \in {"JOIN", "LEAVE", "LOGIN", "ENTER", "CHAT"},
           NEW no \in RoomID \cup {0}
    PROVE  [type |-> type, client |-> c, room |-> no] \in Message
  BY DEF Message

(* What a message holds.                                                    *)
LEMMA MessageParts ==
    ASSUME NEW m \in Message
    PROVE  /\ m.type \in {"JOIN", "LEAVE", "LOGIN", "ENTER", "CHAT"} =>
                m.client \in Client /\ m.room \in RoomID \cup {0}
           /\ m.type \in {"CREATE", "DELETE"} => m.room \in RoomID
           /\ m.type = "CREATE" => m = Create(m.room)
           /\ m.type = "DELETE" => m = Delete(m.room)
           /\ m.type = "DISCONNECTED" => m = [type |-> "DISCONNECTED"]
           /\ m.type \in {"JOIN", "LEAVE", "LOGIN", "ENTER", "CHAT", "CREATE", "DELETE", "TOKEN", "DISCONNECTED"}
  BY DEF Create, Delete, Message

LEMMA Sizes == /\ MaxRoom \in Nat /\ MaxRoomID \in Nat /\ MaxClient \in Nat /\ MaxDrop \in Nat
               /\ \A s \in Slot : s \in Nat /\ s >= 1 /\ s <= MaxRoom
               /\ \A no \in RoomID : no \in Nat /\ no >= 1
               /\ \A c \in Client : c \in Nat /\ c >= 1
               /\ 0 \notin RoomID /\ 0 \notin Slot
  BY ChatServerAssumption DEF Slot, RoomID, Client

SlotRec == [status : Room_Status, roomNo : RoomID \cup {0}]

(* The parts of TypeOK about the battle server, the link, and the chat      *)
(* server.                                                                  *)
BattleType == /\ room \in [Slot -> SlotRec]
              /\ curRoomID \in 0 .. MaxRoomID
              /\ auth \in {"idle", "loop", "send"} /\ game \in Slot \cup {0}
              /\ bLogin \in BOOLEAN /\ login \in 0 .. MaxRoom + 1 /\ peer \in BOOLEAN
LinkType == /\ link \in BOOLEAN /\ asked \in BOOLEAN /\ toChat \in Seq(Message)
            /\ told \subseteq RoomID /\ wrong \subseteq {"twice", "unknown"}
MapsType == /\ DOMAIN roomMap \subseteq RoomID /\ \A no \in DOMAIN roomMap : roomMap[no] \in RoomRec
            /\ DOMAIN playerMap \subseteq Client /\ \A c \in DOMAIN playerMap : playerMap[c] \in PlayerRec
            /\ connectToken \in BOOLEAN
            /\ client \in [Client -> ClientRec]
            /\ crash \in {"none", "create", "delete", "player"} /\ again \subseteq Client
QueueType == /\ msgQueue \in Seq(Message)
             /\ thread \in {"test", "drowsy", "asleep"}
             /\ arrived \in 0 .. MaxClient /\ drops \in 0 .. MaxDrop

LEMMA TypeParts == TypeOK <=> BattleType /\ LinkType /\ MapsType /\ QueueType
  BY DEF TypeOK, BattleType, LinkType, MapsType, QueueType, SlotRec

LEMMA BattleTypeSame == ASSUME BattleType, UNCHANGED battleVars PROVE BattleType'
  BY DEF BattleType, battleVars
LEMMA LinkTypeSame == ASSUME LinkType, UNCHANGED linkVars PROVE LinkType'
  BY DEF LinkType, linkVars
LEMMA MapsTypeSame == ASSUME MapsType, UNCHANGED <<chatVars, client, crash>> PROVE MapsType'
  BY DEF MapsType, chatVars
LEMMA QueueTypeSame == ASSUME QueueType, UNCHANGED <<msgQueue, thread, arrived, drops>> PROVE QueueType'
  BY DEF QueueType

(* What the battle server does leaves the chat server alone.                *)
BattleAlone == UNCHANGED <<chatVars, msgQueue, thread, client, arrived, drops, crash>>

LEMMA BattleFrame ==
    ASSUME ChatInv, BattleAlone, BattleType', LinkType', RoomOK', LinkOK', ToldOK', MirrorInv'
    PROVE  ChatInv'
<1>1. TypeOK'
  <2>1. MapsType /\ QueueType
    BY TypeParts DEF ChatInv, ClientInv
  <2>2. MapsType' /\ QueueType'
    BY <2>1, MapsTypeSame, QueueTypeSame DEF BattleAlone
  <2>3. TypeOK' <=> BattleType' /\ LinkType' /\ MapsType' /\ QueueType'
    BY TypeParts, PTL
  <2> QED
    BY <2>2, <2>3
<1>2. UNCHANGED <<roomMap, playerMap, again, msgQueue, client, arrived, crash>>
  BY DEF BattleAlone, chatVars
<1>3. \A c \in Client : QueueOK(c) => QueueOK(c)'
  BY <1>2 DEF QueueOK
<1>4. \A c \in Client : ClientOK(c) => ClientOK(c)'
  BY <1>2 DEF ClientOK
<1>5. ClientInv'
  BY <1>1, <1>2, <1>3, <1>4 DEF ChatInv, ClientInv
<1>6. \A no \in DOMAIN roomMap : ListOK(no) => ListOK(no)'
  BY <1>2 DEF ListOK, Members
<1>7. ListInv'
  BY <1>2, <1>6 DEF ChatInv, ListInv
<1> QED
  BY <1>1, <1>5, <1>7 DEF ChatInv, BattleInv

(* The link as the battle server leaves it when it sends nothing.           *)
LEMMA MirrorSame ==
    ASSUME MirrorInv, UNCHANGED <<wrong, crash, msgQueue, toChat, roomMap, link, told>>
    PROVE  MirrorInv'
  BY DEF MirrorInv

(* What the battle server sends is about no client.                         *)
LEMMA SendPackets ==
    ASSUME toChat \in Seq(Message), PacketsOK, NEW m \in Message,
           m.type \in {"CREATE", "DELETE", "TOKEN"},
           toChat' = IF link THEN Append(toChat, m) ELSE toChat
    PROVE  PacketsOK'
<1> DEFINE X == UNION {OfClient(c) : c \in Client}
<1>1. m \notin X
  BY DEF OfClient, About, Requests
<1>2. X' = X
  OBVIOUS
<1> HIDE DEF X
<1>3. ~Holds(toChat', X)
  BY <1>1, HoldsAppend DEF PacketsOK, X
<1> QED
  BY <1>3 DEF PacketsOK, X

LEMMA Send_CreateKeeps ==
    ASSUME TypeOK, MirrorInv, NEW no \in RoomID, Send_CreateRoom(no),
           UNCHANGED <<crash, msgQueue, roomMap, link, asked>>
    PROVE  /\ MirrorInv' /\ LinkType'
           /\ ~link => toChat' = toChat
           /\ PacketsOK => PacketsOK'
           /\ link => told' = told \cup {no}
<1>1. Create(no) \in Message /\ toChat \in Seq(Message)
  BY RoomMessages DEF TypeOK
<1>2. toChat' = IF link THEN Append(toChat, Create(no)) ELSE toChat
  BY DEF Send_CreateRoom, Send, Create
<1>3. /\ told' = IF link THEN told \cup {no} ELSE told
      /\ wrong' = IF link /\ no \in told THEN wrong \cup {"twice"} ELSE wrong
  BY DEF Send_CreateRoom
<1>4. LinkType'
  BY <1>1, <1>2, <1>3 DEF TypeOK, LinkType
<1>p. PacketsOK => PacketsOK'
  BY <1>1, <1>2, Kinds, SendPackets
<1>5. CASE ~link
  BY <1>2, <1>3, <1>4, <1>5, <1>p, MirrorSame
<1>6. CASE link
  <2>1. toChat' = Append(toChat, Create(no)) /\ told' = told \cup {no}
    BY <1>2, <1>3, <1>6
  <2>2. MirrorInv'
    <3>1. SUFFICES ASSUME wrong' = {} PROVE MirrorInv'
      BY DEF MirrorInv
    <3>2. wrong = {} /\ no \notin told
      BY <1>3, <1>6, <3>1
    <3> DEFINE R == RoomsOf(msgQueue, DOMAIN roomMap)
    <3>3. /\ crash = "none" /\ InTurn(msgQueue, DOMAIN roomMap) /\ InTurn(toChat, R)
          /\ RoomsOf(toChat, R) = told
      BY <1>6, <3>2 DEF MirrorInv
    <3>4. R' = R
      OBVIOUS
    <3> HIDE DEF R
    <3>5. Fits(Create(no), told)
      BY <3>2, Kinds DEF Fits
    <3>6. InTurn(toChat', R)
      BY <1>1, <2>1, <3>3, <3>5, InTurnAppend
    <3>7. RoomsOf(toChat', R) = Handled(Create(no), told)
      BY <1>1, <2>1, <3>3, RoomsAppend
    <3>8. told \subseteq RoomID
      BY DEF TypeOK
    <3>9. Handled(Create(no), told) = told \cup {no}
      BY <3>8, Kinds DEF Handled
    <3> QED
      BY <1>6, <2>1, <3>3, <3>4, <3>6, <3>7, <3>9 DEF MirrorInv, R
  <2> QED
    BY <1>4, <1>6, <1>p, <2>1, <2>2
<1> QED
  BY <1>5, <1>6

LEMMA Send_CloseKeeps ==
    ASSUME TypeOK, MirrorInv, NEW no \in RoomID, Send_CloseRoom(no),
           UNCHANGED <<crash, msgQueue, roomMap, link, asked>>
    PROVE  /\ MirrorInv' /\ LinkType'
           /\ ~link => toChat' = toChat
           /\ PacketsOK => PacketsOK'
           /\ told' = told \ {no}
<1>1. Delete(no) \in Message /\ toChat \in Seq(Message)
  BY RoomMessages DEF TypeOK
<1>2. toChat' = IF link THEN Append(toChat, Delete(no)) ELSE toChat
  BY DEF Send_CloseRoom, Send, Delete
<1>3. /\ told' = told \ {no}
      /\ wrong' = IF link /\ no \notin told THEN wrong \cup {"unknown"} ELSE wrong
  BY DEF Send_CloseRoom
<1>4. LinkType'
  BY <1>1, <1>2, <1>3 DEF TypeOK, LinkType
<1>p. PacketsOK => PacketsOK'
  BY <1>1, <1>2, Kinds, SendPackets
<1>5. CASE ~link
  BY <1>2, <1>3, <1>5, <1>4, <1>p DEF MirrorInv
<1>6. CASE link
  <2>1. toChat' = Append(toChat, Delete(no))
    BY <1>2, <1>6
  <2>2. MirrorInv'
    <3>1. SUFFICES ASSUME wrong' = {} PROVE MirrorInv'
      BY DEF MirrorInv
    <3>2. wrong = {} /\ no \in told
      BY <1>3, <1>6, <3>1
    <3> DEFINE R == RoomsOf(msgQueue, DOMAIN roomMap)
    <3>3. /\ crash = "none" /\ InTurn(msgQueue, DOMAIN roomMap) /\ InTurn(toChat, R)
          /\ RoomsOf(toChat, R) = told
      BY <1>6, <3>2 DEF MirrorInv
    <3>4. R' = R
      OBVIOUS
    <3> HIDE DEF R
    <3>5. Fits(Delete(no), told)
      BY <3>2, Kinds DEF Fits, Delete
    <3>6. InTurn(toChat', R)
      BY <1>1, <2>1, <3>3, <3>5, InTurnAppend
    <3>7. RoomsOf(toChat', R) = Handled(Delete(no), told)
      BY <1>1, <2>1, <3>3, RoomsAppend
    <3>8. told \subseteq RoomID
      BY DEF TypeOK
    <3>9. Handled(Delete(no), told) = told \ {no}
      BY Kinds, <3>8 DEF Ends, Handled
    <3> QED
      BY <1>3, <1>6, <2>1, <3>3, <3>4, <3>6, <3>7, <3>9 DEF MirrorInv, R
  <2> QED
    BY <1>3, <1>4, <1>6, <1>p, <2>2
<1> QED
  BY <1>5, <1>6

-----------------------------------------------------------------------------
(* The battle server.                                                       *)
LEMMA ChatParts ==
    ASSUME ChatInv
    PROVE  /\ TypeOK /\ BattleType /\ LinkType /\ RoomOK /\ LinkOK /\ ToldOK /\ MirrorInv
           /\ wrong \subseteq {"twice", "unknown"}
  BY TypeParts DEF ChatInv, ClientInv, BattleInv, TypeOK

(* Steps that change neither a room nor what was told.                      *)
LEMMA RoomSame ==
    ASSUME RoomOK, UNCHANGED <<room, curRoomID, game>>, auth' = "send" => auth = "send"
    PROVE  RoomOK'
  BY DEF RoomOK

LEMMA LinkSame == ASSUME LinkOK, UNCHANGED <<link, peer, toChat, bLogin, login, asked>> PROVE LinkOK'
  BY DEF LinkOK, PacketsOK

LEMMA ToldSame ==
    ASSUME ToldOK, UNCHANGED <<room, curRoomID, game, link, told, bLogin, login>>,
           auth = "send" => auth' = "send"
    PROVE  ToldOK'
  BY DEF Open, Live, ToldOK

LEMMA Update_RoomCountKeeps == ASSUME ChatInv, Update_RoomCount PROVE ChatInv'
  BY ChatParts, LinkTypeSame, RoomSame, LinkSame, ToldSame, MirrorSame, BattleFrame DEF
     Update_RoomCount, BattleAlone, linkVars, BattleType, chatVars

LEMMA Update_RoomCount_EndKeeps == ASSUME ChatInv, Update_RoomCount_End PROVE ChatInv'
  BY ChatParts, LinkTypeSame, RoomSame, LinkSame, ToldSame, MirrorSame, BattleFrame DEF
     Update_RoomCount_End, BattleAlone, linkVars, BattleType, chatVars

LEMMA Open_RoomKeeps == ASSUME ChatInv, NEW s \in Slot, Open_Room(s) PROVE ChatInv'
<1>1. /\ BattleAlone /\ UNCHANGED linkVars
      /\ UNCHANGED <<game, bLogin, login, peer>>
      /\ auth = "loop" /\ auth' = "send"
      /\ room[s].status = "Close" /\ game # s
      /\ curRoomID < MaxRoomID /\ curRoomID' = curRoomID + 1
      /\ room' = [room EXCEPT ![s] = [status |-> "Wait", roomNo |-> curRoomID + 1]]
  BY DEF Open_Room, BattleAlone
<1>2. UNCHANGED <<link, asked, toChat, told, wrong>>
  BY <1>1 DEF linkVars
<1>3. curRoomID \in Nat /\ curRoomID + 1 \in RoomID /\ curRoomID + 1 # 0
  BY <1>1, ChatParts, Sizes DEF BattleType, RoomID
<1>4. LinkType'
  BY <1>1, ChatParts, LinkTypeSame
<1>5. BattleType'
  BY <1>3, <1>1, ChatParts, Sizes DEF SlotRec, Room_Status, BattleType, RoomID
<1>6. UNCHANGED <<crash, msgQueue, roomMap>>
  BY <1>1 DEF BattleAlone, chatVars
<1>7. /\ room'[s].status = "Wait" /\ room'[s].roomNo = curRoomID + 1
      /\ \A t \in Slot : t # s => room'[t] = room[t]
  BY <1>1, ChatParts DEF BattleType
<1>8. \A t \in Slot : room[t].roomNo \in Nat /\ room[t].roomNo <= curRoomID
  BY ChatParts, Sizes DEF RoomOK, BattleType, SlotRec
<1>9. RoomOK'
  BY <1>3, <1>7, <1>8, ChatParts, <1>1 DEF RoomOK
<1>10. ToldOK'
  BY <1>1, <1>7, ChatParts, <1>2 DEF ToldOK, Open, BattleType, Live
<1> QED
  BY <1>1, <1>2, <1>4, <1>5, <1>6, <1>9, <1>10, ChatParts, LinkSame, MirrorSame, BattleFrame

LEMMA Open_Room_SendKeeps == ASSUME ChatInv, Open_Room_Send PROVE ChatInv'
<1>1. /\ BattleAlone /\ Send_CreateRoom(curRoomID)
      /\ UNCHANGED <<room, curRoomID, game, bLogin, login, peer, link, asked>>
      /\ auth = "send" /\ auth' = "loop"
  BY DEF Open_Room_Send, BattleAlone
<1>2. UNCHANGED <<crash, msgQueue, roomMap>>
  BY <1>1 DEF BattleAlone, chatVars
<1>3. PICK s \in Slot : room[s].status = "Wait" /\ room[s].roomNo = curRoomID
  BY <1>1, ChatParts DEF RoomOK
<1>4. curRoomID \in RoomID /\ curRoomID \in Open
  BY <1>3, ChatParts DEF RoomOK, BattleType, SlotRec, Open
<1>5. /\ MirrorInv' /\ LinkType'
      /\ ~link => toChat' = toChat
      /\ PacketsOK => PacketsOK'
      /\ link => told' = told \cup {curRoomID}
  BY <1>1, <1>2, <1>4, ChatParts, Send_CreateKeeps
<1>6. BattleType' /\ RoomOK'
  BY <1>1, ChatParts, RoomSame DEF BattleType
<1>7. LinkOK'
  BY <1>1, <1>5, ChatParts DEF LinkOK
<1>8. ToldOK'
  BY <1>1, <1>4, <1>5, ChatParts DEF Open, Live, ToldOK
<1> QED
  BY <1>1, <1>5, <1>6, <1>7, <1>8, BattleFrame

(* A room changes its status, its slot keeps its number.                    *)
LEMMA StatusStep ==
    ASSUME ChatInv, NEW s \in Slot, NEW status \in Room_Status,
           room' = [room EXCEPT ![s].status = status], room[s].status # "Close",
           auth = "send" => room'[s].status = "Wait" \/ room[s].status # "Wait",
           UNCHANGED <<curRoomID, auth, bLogin, login, peer, linkVars>>, BattleAlone,
           status \in {"Wait", "Play"} => Live(s),
           \/ status # "Close" /\ game' = game
           \/ status = "Close" /\ game = 0 /\ game' = s
    PROVE  ChatInv'
<1>1. /\ room'[s].status = status /\ room'[s].roomNo = room[s].roomNo
      /\ \A t \in Slot : t # s => room'[t] = room[t]
      /\ \A t \in Slot : room'[t].roomNo = room[t].roomNo
  BY ChatParts DEF BattleType, SlotRec
<1>2. UNCHANGED <<link, asked, toChat, told, wrong>>
  BY DEF linkVars
<1>3. UNCHANGED <<crash, msgQueue, roomMap>>
  BY DEF BattleAlone, chatVars
<1>4. BattleType' /\ LinkType'
  BY ChatParts, LinkTypeSame DEF BattleType, SlotRec
<1>5. game # s
  BY ChatParts DEF RoomOK
<1>6. RoomOK'
  BY <1>1, ChatParts, <1>5 DEF RoomOK
<1>7. ToldOK'
  <2> SUFFICES ASSUME link' PROVE /\ \A no \in told' : no \in Open' \/ (game' # 0 /\ no = room'[game'].roomNo)
                                  /\ \A t \in Slot : Live(t)' /\ (bLogin' \/ t < login') =>
                                       room'[t].roomNo \in told' \/ (auth' = "send" /\ room'[t].roomNo = curRoomID')
    BY DEF ToldOK
  <2>1. ASSUME NEW no \in Open PROVE no \in Open' \/ (game' # 0 /\ no = room'[game'].roomNo)
    BY <2>1, <1>1, Sizes DEF Open
  <2>2. game # 0 => game' = game /\ room'[game].roomNo = room[game].roomNo
    BY <1>1, <1>5, ChatParts DEF BattleType
  <2>3. \A no \in told' : no \in Open' \/ (game' # 0 /\ no = room'[game'].roomNo)
    BY <1>2, <2>1, <2>2, ChatParts DEF ToldOK
  <2>4. \A t \in Slot : Live(t)' => Live(t)
    BY <1>1 DEF Live
  <2> QED
    BY <1>1, <1>2, <2>3, <2>4, ChatParts DEF ToldOK
<1> QED
  BY <1>2, <1>3, <1>4, <1>6, <1>7, ChatParts, LinkSame, MirrorSame, BattleFrame

LEMMA Update_RoomKeeps == ASSUME ChatInv, NEW s \in Slot, Update_Room(s) PROVE ChatInv'
  BY StatusStep DEF Room_Status, Update_Room, BattleAlone, Live

LEMMA Update_Room_EndKeeps == ASSUME ChatInv, NEW s \in Slot, Update_Room_End(s) PROVE ChatInv'
  BY StatusStep DEF Room_Status, Update_Room_End, BattleAlone

LEMMA Update_Room_End_SendKeeps == ASSUME ChatInv, Update_Room_End_Send PROVE ChatInv'
<1>1. /\ BattleAlone /\ Send_CloseRoom(room[game].roomNo)
      /\ UNCHANGED <<room, curRoomID, auth, bLogin, login, peer, link, asked>>
      /\ game # 0 /\ game' = 0
  BY DEF Update_Room_End_Send, BattleAlone
<1>2. UNCHANGED <<crash, msgQueue, roomMap>>
  BY <1>1 DEF BattleAlone, chatVars
<1>3. /\ game \in Slot /\ room[game].roomNo \in RoomID
      /\ room[game].status = "Close"
  BY <1>1, ChatParts DEF RoomOK, BattleType, SlotRec
<1>4. /\ MirrorInv' /\ LinkType'
      /\ ~link => toChat' = toChat
      /\ PacketsOK => PacketsOK'
      /\ told' = told \ {room[game].roomNo}
  BY <1>1, <1>2, <1>3, ChatParts, Send_CloseKeeps
<1>5. BattleType'
  BY <1>1, ChatParts DEF BattleType
<1>6. RoomOK'
  BY <1>1, ChatParts, Sizes DEF RoomOK
<1>7. LinkOK'
  BY <1>1, <1>4, ChatParts DEF LinkOK
<1>8. ToldOK'
  BY <1>1, <1>3, Sizes, ChatParts, <1>4 DEF Open, Live, RoomOK, ToldOK
<1> QED
  BY <1>1, <1>4, <1>5, <1>6, <1>7, <1>8, BattleFrame

LEMMA Request_Chat_LoginKeeps == ASSUME ChatInv, Request_Chat_Login PROVE ChatInv'
<1>1. /\ BattleAlone /\ Send([type |-> "TOKEN"]) /\ peer /\ asked' = FALSE /\ login' = 1
      /\ UNCHANGED <<room, curRoomID, auth, game, bLogin, peer, link, told, wrong>>
  BY DEF Request_Chat_Login, BattleAlone
<1>2. UNCHANGED <<crash, msgQueue, roomMap>>
  BY <1>1 DEF BattleAlone, chatVars
<1> DEFINE m == [type |-> "TOKEN"]
<1>3. m \in Message /\ toChat \in Seq(Message) /\ told \subseteq RoomID
  BY Markers, ChatParts DEF TypeOK
<1>4. toChat' = IF link THEN Append(toChat, m) ELSE toChat
  BY <1>1 DEF Send
<1>5. m.type \notin {"CREATE", "DELETE", "DISCONNECTED"}
  OBVIOUS
<1> HIDE DEF m
<1>6. BattleType' /\ LinkType'
  <2>1. login' \in 0 .. MaxRoom + 1
    BY <1>1, Sizes
  <2>2. toChat' \in Seq(Message)
    BY <1>3, <1>4
  <2> QED
    BY <1>1, <2>1, <2>2, ChatParts DEF BattleType, LinkType
<1>7. RoomOK' /\ LinkOK'
  BY <1>3, <1>4, <1>5, ChatParts, SendPackets, <1>1, RoomSame DEF m, LinkOK
<1>8. ToldOK'
  BY <1>1, Sizes, ChatParts DEF Open, Live, ToldOK
<1>9. MirrorInv'
  <2>1. CASE ~link
    BY <1>1, <1>2, <1>4, <2>1, ChatParts, MirrorSame
  <2>2. CASE link
    <3>1. SUFFICES ASSUME wrong' = {} PROVE MirrorInv'
      BY DEF MirrorInv
    <3> DEFINE R == RoomsOf(msgQueue, DOMAIN roomMap)
    <3>2. /\ crash = "none" /\ InTurn(msgQueue, DOMAIN roomMap) /\ InTurn(toChat, R)
          /\ RoomsOf(toChat, R) = told
      BY <1>1, <2>2, <3>1, ChatParts DEF MirrorInv
    <3>3. R' = R
      BY <1>2
    <3> HIDE DEF R
    <3>4. Handled(m, told) = told /\ Fits(m, told)
      BY <1>3, <1>5, HandledNothing
    <3>5. InTurn(toChat', R) /\ RoomsOf(toChat', R) = told
      BY <1>3, <1>4, <2>2, <3>2, <3>4, InTurnAppend, RoomsAppend
    <3> QED
      BY <1>1, <1>2, <2>2, <3>2, <3>3, <3>5 DEF MirrorInv, R
  <2> QED
    BY <2>1, <2>2
<1> QED
  BY <1>1, <1>6, <1>7, <1>8, <1>9, BattleFrame

LEMMA Receive_ChatResponse_LoginKeeps == ASSUME ChatInv, Receive_ChatResponse_Login PROVE ChatInv'
<1>1. /\ BattleAlone /\ login \in Slot /\ login' = login + 1
      /\ UNCHANGED <<room, curRoomID, auth, game, bLogin, peer, link, asked>>
      /\ IF Live(login) THEN Send_CreateRoom(room[login].roomNo)
                        ELSE UNCHANGED <<toChat, told, wrong>>
  BY DEF Receive_ChatResponse_Login, BattleAlone, Live
<1>2. UNCHANGED <<crash, msgQueue, roomMap>>
  BY <1>1 DEF BattleAlone, chatVars
<1>3. login \in Nat /\ login >= 1 /\ login <= MaxRoom /\ MaxRoom \in Nat
  BY <1>1, Sizes
<1>4. BattleType' /\ RoomOK'
  BY <1>1, <1>3, ChatParts, RoomSame DEF BattleType
<1>5. Open' = Open /\ \A t \in Slot : Live(t)' = Live(t)
  BY <1>1 DEF Open, Live
<1>6. \A t \in Slot : t < login + 1 => t < login \/ t = login
  BY <1>3, Sizes
<1>7. peer
  BY <1>3, ChatParts DEF LinkOK
<1>8. CASE ~Live(login)
  <2>1. UNCHANGED linkVars
    BY <1>1, <1>8 DEF linkVars
  <2>2. LinkType' /\ MirrorInv'
    BY <1>1, <1>2, <1>8, <2>1, ChatParts, LinkTypeSame, MirrorSame
  <2>3. LinkOK'
    BY <1>1, <1>7, <1>8, ChatParts DEF LinkOK, PacketsOK
  <2>4. ToldOK'
    BY <1>1, <1>5, <1>6, <1>8, ChatParts DEF ToldOK
  <2> QED
    BY <1>1, <1>4, <2>2, <2>3, <2>4, BattleFrame
<1>9. CASE Live(login)
  <2>1. room[login].roomNo \in RoomID /\ room[login].roomNo \in Open
    BY <1>1, <1>9, ChatParts DEF RoomOK, BattleType, SlotRec, Live, Open
  <2>2. /\ MirrorInv' /\ LinkType'
        /\ ~link => toChat' = toChat
        /\ PacketsOK => PacketsOK'
        /\ link => told' = told \cup {room[login].roomNo}
    BY <1>1, <1>2, <1>9, <2>1, ChatParts, Send_CreateKeeps
  <2>3. LinkOK'
    BY <1>1, <1>7, <2>2, ChatParts DEF LinkOK
  <2>4. ToldOK'
    BY <1>1, <1>5, <1>6, <1>9, <2>1, <2>2, ChatParts DEF ToldOK
  <2> QED
    BY <1>1, <1>4, <2>2, <2>3, <2>4, BattleFrame
<1> QED
  BY <1>8, <1>9

LEMMA Request_Chat_Login_EndKeeps == ASSUME ChatInv, Request_Chat_Login_End PROVE ChatInv'
<1>1. /\ BattleAlone /\ UNCHANGED <<room, curRoomID, auth, game, peer, linkVars>>
      /\ login > MaxRoom /\ login' = 0 /\ bLogin' = TRUE
  BY DEF Request_Chat_Login_End, BattleAlone
<1>2. UNCHANGED <<link, asked, toChat, told, wrong>> /\ UNCHANGED <<crash, msgQueue, roomMap>>
  BY <1>1 DEF BattleAlone, chatVars, linkVars
<1>3. BattleType' /\ LinkType' /\ RoomOK' /\ MirrorInv'
  BY <1>1, <1>2, ChatParts, Sizes, LinkTypeSame, RoomSame, MirrorSame DEF BattleType
<1>4. peer
  BY <1>1, Sizes, ChatParts DEF LinkOK
<1>5. LinkOK'
  BY <1>1, <1>2, <1>4, ChatParts DEF LinkOK, PacketsOK
<1>6. ToldOK'
  BY <1>1, Sizes, ChatParts, <1>2 DEF Open, Live, BattleType, ToldOK
<1> QED
  BY <1>1, <1>3, <1>5, <1>6, BattleFrame

LEMMA Battle_OnClientLeaveKeeps == ASSUME ChatInv, Battle_OnClientLeave PROVE ChatInv'
  BY ChatParts, RoomSame, MirrorSame, BattleFrame DEF Battle_OnClientLeave, BattleAlone, chatVars,
     BattleType, LinkType, LinkOK, PacketsOK, ToldOK

LEMMA BattleKeeps == ASSUME ChatInv, Battle PROVE ChatInv'
  BY Update_RoomCountKeeps, Open_Room_SendKeeps, Update_RoomCount_EndKeeps,
     Update_Room_End_SendKeeps, Open_RoomKeeps, Update_RoomKeeps, Update_Room_EndKeeps,
     Request_Chat_LoginKeeps, Receive_ChatResponse_LoginKeeps, Request_Chat_Login_EndKeeps,
     Battle_OnClientLeaveKeeps DEF Battle

-----------------------------------------------------------------------------
(* What comes in over the connections of the chat server.                   *)
LEMMA EnqueueType ==
    ASSUME QueueType, NEW m \in Message, Enqueue(m), arrived' \in 0 .. MaxClient,
           drops' \in 0 .. MaxDrop
    PROVE  QueueType' /\ msgQueue' = Append(msgQueue, m)
  BY DEF QueueType, Enqueue

LEMMA TypeJoined == BattleType' /\ LinkType' /\ MapsType' /\ QueueType' => TypeOK'
<1>1. BattleType /\ LinkType /\ MapsType /\ QueueType => TypeOK
  BY TypeParts
<1> QED
  BY <1>1, PTL

LEMMA ClientParts ==
    ASSUME ChatInv
    PROVE  /\ TypeOK /\ BattleType /\ LinkType /\ MapsType /\ QueueType /\ ClientInv /\ ListInv
           /\ RoomOK /\ LinkOK /\ ToldOK /\ MirrorInv
           /\ msgQueue \in Seq(Message) /\ toChat \in Seq(Message) /\ told \subseteq RoomID
           /\ DOMAIN roomMap \subseteq RoomID
           /\ \A c \in Client : QueueOK(c) /\ ClientOK(c) /\ client[c] \in ClientRec
  BY TypeParts DEF ChatInv, ClientInv, BattleInv, TypeOK

(* The battle server's part when the chat server does something.            *)
LEMMA ChatFrame ==
    ASSUME ChatInv, UNCHANGED <<battleVars, linkVars>>, MapsType', QueueType',
           ClientInv', ListInv', MirrorInv'
    PROVE  ChatInv'
  BY ClientParts, BattleTypeSame, LinkTypeSame, TypeJoined, RoomSame, LinkSame, ToldSame DEF
     battleVars, linkVars, ChatInv, BattleInv

(* Lists and players that do not change.                                    *)
LEMMA ListSame == ASSUME ListInv, UNCHANGED <<roomMap, playerMap, again>> PROVE ListInv'
  BY DEF ListOK, Members, ListInv

(* A message that does not concern a client comes into the queue.           *)
LEMMA EnqueueOther ==
    ASSUME msgQueue \in Seq(Message), NEW c \in Client, QueueOK(c), ClientOK(c),
           NEW m \in Message, m \notin OfClient(c), msgQueue' = Append(msgQueue, m),
           UNCHANGED playerMap, client'[c] = client[c], c > arrived' => c > arrived
    PROVE  QueueOK(c)' /\ ClientOK(c)'
<1>1. /\ m \notin JoinOf(c) /\ m \notin LeaveOf(c) /\ m \notin RequestOf(c)
  BY DEF JoinOf, LeaveOf, RequestOf, OfClient, About, Requests
<1>2. \A X : m \notin X => (Holds(msgQueue', X) <=> Holds(msgQueue, X))
  BY HoldsAppend
<1>3. \A X, Y : m \notin X /\ Ordered(msgQueue, X, Y) => Ordered(msgQueue', X, Y)
  BY OrderedAppend
<1>4. HoldsOne(msgQueue, RequestOf(c)) => HoldsOne(msgQueue', RequestOf(c))
  BY <1>1, HoldsAppend
<1>5. QueueOK(c)'
  BY <1>1, <1>3, <1>2, <1>4 DEF QueueOK
<1>6. ClientOK(c)'
  BY <1>1, <1>2 DEF ClientOK
<1> QED
  BY <1>5, <1>6

(* The rooms to come are not changed by a message about something else.     *)
LEMMA EnqueueMirror ==
    ASSUME ChatInv, NEW m \in Message, m.type \notin {"CREATE", "DELETE", "DISCONNECTED"},
           msgQueue' = Append(msgQueue, m),
           UNCHANGED <<toChat, link, told, wrong, roomMap, crash>>
    PROVE  MirrorInv'
<1>1. SUFFICES ASSUME wrong' = {} PROVE MirrorInv'
  BY DEF MirrorInv
<1> DEFINE R == RoomsOf(msgQueue, DOMAIN roomMap)
<1>2. /\ crash = "none" /\ InTurn(msgQueue, DOMAIN roomMap) /\ InTurn(toChat, R)
      /\ RoomsOf(toChat, R) = IF link THEN told ELSE {}
  BY <1>1, ClientParts DEF MirrorInv
<1>3. R \subseteq RoomID
  BY DEF RoomsOf
<1>4. R' = RoomsOf(msgQueue', DOMAIN roomMap)
  OBVIOUS
<1>5. RoomsOf(msgQueue', DOMAIN roomMap) = Handled(m, R)
  BY ClientParts, RoomsAppend
<1> HIDE DEF R
<1>6. Handled(m, R) = R /\ Fits(m, R)
  BY <1>3, HandledNothing
<1>7. InTurn(msgQueue', DOMAIN roomMap)
  BY <1>2, <1>6, ClientParts, InTurnAppend DEF R
<1> QED
  BY <1>2, <1>4, <1>5, <1>6, <1>7 DEF MirrorInv, R

LEMMA ConnectKeeps == ASSUME ChatInv, Connect_Chat_LanClient PROVE ChatInv'
  BY ClientParts, HoldsOneElement, RoomSame, Sizes, BattleFrame DEF Connect_Chat_LanClient,
     BattleAlone, chatVars, BattleType, LinkType, PacketsOK, LinkOK, ToldOK, MirrorInv

LEMMA Receive_BattleRequestKeeps == ASSUME ChatInv, Receive_BattleRequest PROVE ChatInv'
<1>1. /\ UNCHANGED <<battleVars, link, asked, told, wrong, chatVars, client, arrived, drops, crash>>
      /\ toChat # <<>> /\ Enqueue(Head(toChat)) /\ toChat' = Tail(toChat)
  BY DEF Receive_BattleRequest
<1> DEFINE m == Head(toChat)
<1>2. m \in Message /\ Tail(toChat) \in Seq(Message)
  BY <1>1, ClientParts
<1>3. UNCHANGED <<room, curRoomID, auth, game, bLogin, login, peer, roomMap, playerMap, again, connectToken>>
  BY <1>1 DEF battleVars, chatVars
<1>4. QueueType' /\ msgQueue' = Append(msgQueue, m)
  BY <1>1, <1>2, ClientParts, EnqueueType DEF QueueType
<1> HIDE DEF m
<1>5. BattleType' /\ LinkType' /\ MapsType'
  BY <1>1, <1>2, ClientParts, BattleTypeSame, MapsTypeSame DEF LinkType
<1>6. RoomOK' /\ ToldOK'
  BY <1>1, <1>3, ClientParts, RoomSame, ToldSame
<1>7. LinkOK' /\ m \notin UNION {OfClient(c) : c \in Client}
  <2> DEFINE X == UNION {OfClient(c) : c \in Client}
  <2>1. X' = X
    OBVIOUS
  <2>2. ~Holds(toChat, X)
    BY ClientParts DEF LinkOK, PacketsOK
  <2> HIDE DEF X
  <2>3. m \notin X /\ ~Holds(Tail(toChat), X)
    BY <1>1, <2>2, ClientParts, HoldsTail DEF m
  <2>4. PacketsOK'
    BY <1>1, <2>1, <2>3 DEF PacketsOK, X
  <2>5. link
    BY <1>1, ClientParts DEF LinkOK
  <2> QED
    BY <1>1, <1>3, <2>3, <2>4, <2>5, ClientParts DEF LinkOK, X
<1>8. ListInv'
  BY <1>3, ClientParts, ListSame
<1>9. \A c \in Client : QueueOK(c)' /\ ClientOK(c)'
  BY <1>7, <1>1, <1>2, <1>3, <1>4, ClientParts, EnqueueOther
<1>10. ClientInv'
  BY <1>1, <1>4, <1>5, <1>9, TypeJoined, ClientParts DEF ClientInv
<1>11. MirrorInv'
  <2>1. SUFFICES ASSUME wrong' = {} PROVE MirrorInv'
    BY DEF MirrorInv
  <2> DEFINE R == RoomsOf(msgQueue, DOMAIN roomMap)
             T == RoomsOf(msgQueue', DOMAIN roomMap)
  <2>2. /\ crash = "none" /\ InTurn(msgQueue, DOMAIN roomMap) /\ InTurn(toChat, R)
        /\ RoomsOf(toChat, R) = IF link THEN told ELSE {}
    BY <1>1, <2>1, ClientParts DEF MirrorInv
  <2>3. R' = T /\ msgQueue \in Seq(Message)
    BY <1>3, ClientParts
  <2>4. T = Handled(m, R)
    BY <1>2, <1>4, <2>3, RoomsAppend DEF m
  <2> HIDE DEF R, T
  <2>5. /\ Fits(m, R) /\ InTurn(Tail(toChat), Handled(m, R))
        /\ RoomsOf(toChat, R) = RoomsOf(Tail(toChat), Handled(m, R))
    BY <1>1, <2>2, ClientParts, InTurnTail, RoomsTail DEF m
  <2>6. InTurn(msgQueue', DOMAIN roomMap)
    BY <1>2, <1>4, <2>2, <2>3, <2>5, InTurnAppend DEF R, m
  <2> QED
    BY <1>1, <1>3, <2>2, <2>3, <2>4, <2>5, <2>6 DEF MirrorInv, R
<1> QED
  BY <1>5, <1>6, <1>7, <1>8, <1>10, <1>11, TypeJoined, ClientParts DEF ChatInv, BattleInv, ClientInv

LEMMA OnLeaveServerKeeps == ASSUME ChatInv, OnLeaveServer PROVE ChatInv'
<1> DEFINE m == [type |-> "DISCONNECTED"]
<1>1. /\ UNCHANGED <<battleVars, asked, told, wrong, chatVars, client, arrived, crash>>
      /\ link' = FALSE /\ toChat' = <<>> /\ Enqueue(m)
      /\ drops < MaxDrop /\ drops' = drops + 1
  BY DEF OnLeaveServer
<1>2. m \in Message /\ m.type = "DISCONNECTED"
  BY Markers
<1>3. UNCHANGED <<room, curRoomID, auth, game, bLogin, login, peer, roomMap, playerMap, again, connectToken>>
  BY <1>1 DEF battleVars, chatVars
<1>4. QueueType' /\ msgQueue' = Append(msgQueue, m)
  BY <1>1, ClientParts, Sizes, <1>2, EnqueueType DEF QueueType
<1>5. \A no : m \in Ends(no) /\ m # Create(no) /\ m # Delete(no)
  BY DEF Ends, Create, Delete
<1>6. \A c : m \notin OfClient(c)
  BY DEF OfClient, About, Requests
<1> HIDE DEF m
<1>7. BattleType' /\ LinkType' /\ MapsType'
  <2>1. LinkType'
    <3>1. asked' = asked /\ told' = told /\ wrong' = wrong
      BY <1>1
    <3>2. <<>> \in Seq(Message)
      OBVIOUS
    <3>3. toChat' \in Seq(Message) /\ link' \in BOOLEAN
      BY <1>1, <3>2
    <3> QED
      BY <3>1, <3>3, ClientParts DEF LinkType
  <2>2. UNCHANGED <<chatVars, client, crash>> /\ UNCHANGED battleVars
    BY <1>1
  <2> QED
    BY <2>1, <2>2, ClientParts, BattleTypeSame, MapsTypeSame
<1>8. RoomOK' /\ ToldOK' /\ LinkOK'
  BY <1>1, HoldsOneElement, <1>3, ClientParts, RoomSame DEF PacketsOK, LinkOK, ToldOK
<1>9. ListInv'
  BY <1>3, ClientParts, ListSame
<1>10. \A c \in Client : QueueOK(c)' /\ ClientOK(c)'
  BY <1>1, <1>2, <1>3, <1>4, <1>6, ClientParts, EnqueueOther
<1>11. ClientInv'
  BY <1>1, <1>4, <1>7, <1>10, TypeJoined, ClientParts DEF ClientInv
<1>12. MirrorInv'
  <2>1. SUFFICES ASSUME wrong' = {} PROVE MirrorInv'
    BY DEF MirrorInv
  <2> DEFINE R == RoomsOf(msgQueue, DOMAIN roomMap)
             T == RoomsOf(msgQueue', DOMAIN roomMap)
  <2>2. crash = "none" /\ InTurn(msgQueue, DOMAIN roomMap)
    BY <1>1, <2>1, ClientParts DEF MirrorInv
  <2>3. R' = T
    BY <1>3
  <2>4. T = Handled(m, R)
    BY <1>2, <1>4, ClientParts, RoomsAppend
  <2>5. Handled(m, R) = {} /\ Fits(m, R)
    BY <1>5 DEF Handled, Fits
  <2> HIDE DEF R, T
  <2>6. InTurn(msgQueue', DOMAIN roomMap)
    BY <1>2, <1>4, <2>2, <2>5, ClientParts, InTurnAppend DEF R
  <2>7. RoomsOf(<<>>, {}) = {} /\ InTurn(<<>>, {})
    BY RoomsNone
  <2> QED
    BY <1>1, <1>3, <2>2, <2>3, <2>4, <2>5, <2>6, <2>7 DEF MirrorInv, R
<1> QED
  BY <1>7, <1>4, <1>8, <1>9, <1>11, <1>12, TypeJoined DEF ChatInv, BattleInv, ClientInv

-----------------------------------------------------------------------------
(* The clients.                                                             *)
LEMMA AboutOne ==
    ASSUME NEW c \in Client, NEW type \in Requests \cup {"JOIN", "LEAVE"}, NEW no \in RoomID \cup {0},
           NEW m, m = [type |-> type, client |-> c, room |-> no]
    PROVE  /\ m \in Message /\ m \in OfClient(c)
           /\ m.type \notin {"CREATE", "DELETE", "DISCONNECTED"}
           /\ m \in JoinOf(c) <=> type = "JOIN"
           /\ m \in LeaveOf(c) <=> type = "LEAVE"
           /\ m \in RequestOf(c) <=> type \in Requests
           /\ \A d \in Client : d # c => m \notin OfClient(d)
  BY ClientMessages DEF Requests, OfClient, JoinOf, LeaveOf, RequestOf, About

LEMMA Included ==
    ASSUME NEW s, NEW c
    PROVE  /\ JoinOf(c) \subseteq OfClient(c) /\ LeaveOf(c) \subseteq OfClient(c)
           /\ RequestOf(c) \subseteq OfClient(c)
           /\ Holds(s, JoinOf(c)) => Holds(s, OfClient(c))
           /\ Holds(s, LeaveOf(c)) => Holds(s, OfClient(c))
           /\ Holds(s, RequestOf(c)) => Holds(s, OfClient(c))
  BY DEF OfClient, JoinOf, LeaveOf, RequestOf, About, Requests, Holds

(* Other clients notice nothing of a message about one, nor does the link.  *)
LEMMA ClientSends ==
    ASSUME ChatInv, NEW c \in Client, NEW type \in Requests \cup {"JOIN", "LEAVE"},
           NEW no \in RoomID \cup {0},
           Enqueue([type |-> type, client |-> c, room |-> no]),
           UNCHANGED <<battleVars, linkVars, chatVars, drops, crash>>,
           client' \in [Client -> ClientRec],
           \A d \in Client : d # c => client'[d] = client[d],
           arrived' \in 0 .. MaxClient, \A d \in Client : d > arrived' => d > arrived,
           QueueOK(c)', ClientOK(c)'
    PROVE  ChatInv'
<1> DEFINE m == [type |-> type, client |-> c, room |-> no]
<1>1. /\ m \in Message /\ m.type \notin {"CREATE", "DELETE", "DISCONNECTED"}
      /\ \A d \in Client : d # c => m \notin OfClient(d)
  BY AboutOne
<1>2. Enqueue(m)
  OBVIOUS
<1> HIDE DEF m
<1>3. UNCHANGED <<toChat, link, told, wrong, roomMap, playerMap, again, connectToken, crash>>
  BY DEF linkVars, chatVars
<1>4. QueueType' /\ msgQueue' = Append(msgQueue, m)
  BY ClientParts, <1>1, <1>2, EnqueueType DEF QueueType
<1>5. MapsType'
  BY <1>3, ClientParts DEF MapsType
<1>6. \A d \in Client : QueueOK(d)' /\ ClientOK(d)'
  BY <1>1, <1>3, <1>4, ClientParts, EnqueueOther
<1>7. ClientInv'
  BY <1>4, <1>5, ClientParts, BattleTypeSame, LinkTypeSame, TypeJoined, <1>3, <1>6 DEF ClientInv
<1>8. ListInv' /\ MirrorInv'
  BY <1>1, <1>3, <1>4, ClientParts, ListSame, EnqueueMirror
<1> QED
  BY <1>4, <1>5, <1>7, <1>8, ChatFrame

(* The queue of a client with one more message about it.                    *)
LEMMA OwnMessage ==
    ASSUME ChatInv, NEW c \in Client, NEW type \in Requests \cup {"JOIN", "LEAVE"},
           NEW no \in RoomID \cup {0},
           Enqueue([type |-> type, client |-> c, room |-> no]), UNCHANGED playerMap,
           type = "JOIN" => ~Holds(msgQueue, OfClient(c)) /\ c \notin DOMAIN playerMap,
           ~Holds(msgQueue, LeaveOf(c)),
           type \in Requests => ~Holds(msgQueue, RequestOf(c)),
           type # "JOIN" => c \in DOMAIN playerMap \/ Holds(msgQueue, JoinOf(c))
    PROVE  /\ QueueOK(c)'
           /\ Holds(msgQueue', JoinOf(c)) <=> Holds(msgQueue, JoinOf(c)) \/ type = "JOIN"
           /\ Holds(msgQueue', LeaveOf(c)) <=> type = "LEAVE"
           /\ Holds(msgQueue', RequestOf(c)) <=> Holds(msgQueue, RequestOf(c)) \/ type \in Requests
<1> DEFINE m == [type |-> type, client |-> c, room |-> no]
<1>1. /\ m \in Message /\ m \in OfClient(c)
      /\ m \in JoinOf(c) <=> type = "JOIN"
      /\ m \in LeaveOf(c) <=> type = "LEAVE"
      /\ m \in RequestOf(c) <=> type \in Requests
  BY AboutOne
<1>2. msgQueue' = Append(msgQueue, m)
  BY DEF Enqueue
<1> HIDE DEF m
<1>3. "JOIN" \notin Requests /\ "LEAVE" \notin Requests
  BY DEF Requests
<1>4. /\ Ordered(msgQueue, JoinOf(c), OfClient(c)) /\ Ordered(msgQueue, OfClient(c), LeaveOf(c))
      /\ HoldsOne(msgQueue, RequestOf(c)) /\ msgQueue \in Seq(Message)
      /\ Holds(msgQueue, OfClient(c)) => c \in DOMAIN playerMap \/ Holds(msgQueue, JoinOf(c))
      /\ Holds(msgQueue, JoinOf(c)) => c \notin DOMAIN playerMap
  BY ClientParts DEF QueueOK
<1>5. /\ Ordered(msgQueue', JoinOf(c), OfClient(c))
      /\ Ordered(msgQueue', OfClient(c), LeaveOf(c))
  BY <1>1, <1>2, <1>4, OrderedAppend
<1>6. /\ \A X : Holds(msgQueue', X) <=> Holds(msgQueue, X) \/ m \in X
      /\ HoldsOne(msgQueue', RequestOf(c))
  BY <1>1, <1>2, <1>4, HoldsAppend
<1>7. /\ Holds(msgQueue', OfClient(c)) => c \in DOMAIN playerMap \/ Holds(msgQueue', JoinOf(c))
      /\ Holds(msgQueue', JoinOf(c)) => c \notin DOMAIN playerMap
  BY <1>1, <1>4, <1>6
<1>8. QueueOK(c)'
  BY <1>5, <1>6, <1>7 DEF QueueOK
<1> QED
  BY <1>1, <1>6, <1>8

LEMMA OnClientJoinKeeps == ASSUME ChatInv, NEW c \in Client, OnClientJoin(c) PROVE ChatInv'
<1>1. /\ c = arrived + 1 /\ arrived' = c
      /\ client' = [client EXCEPT ![c].conn = "up"]
      /\ Enqueue([type |-> "JOIN", client |-> c, room |-> 0])
      /\ UNCHANGED <<battleVars, linkVars, chatVars, drops, crash>>
  BY DEF OnClientJoin
<1>2. UNCHANGED playerMap
  BY <1>1 DEF chatVars
<1>3. arrived \in Nat /\ arrived' \in 0 .. MaxClient /\ \A d \in Client : d > arrived' => d > arrived
  BY <1>1, ClientParts, Sizes DEF QueueType, Client
<1>4. /\ client' \in [Client -> ClientRec]
      /\ client'[c].conn = "up"
      /\ \A d \in Client : d # c => client'[d] = client[d]
  BY <1>1, ClientParts DEF MapsType, ClientRec
<1>5. ~Holds(msgQueue, OfClient(c)) /\ c \notin DOMAIN playerMap
  BY <1>1, <1>3, ClientParts DEF ClientOK
<1>6. /\ ~Holds(msgQueue, JoinOf(c)) /\ ~Holds(msgQueue, LeaveOf(c))
      /\ ~Holds(msgQueue, RequestOf(c))
  BY <1>5, Included
<1>7. /\ QueueOK(c)' /\ Holds(msgQueue', JoinOf(c)) /\ ~Holds(msgQueue', LeaveOf(c))
      /\ ~Holds(msgQueue', RequestOf(c))
  BY <1>1, <1>2, <1>5, <1>6, OwnMessage DEF Requests
<1>8. ~(c > arrived')
  BY <1>1, <1>3
<1>9. ClientOK(c)'
  BY <1>4, <1>7, <1>8 DEF ClientOK
<1> QED
  BY <1>1, <1>3, <1>4, <1>7, <1>9, ClientSends

LEMMA OnRecvKeeps ==
    ASSUME ChatInv, NEW c \in Client, NEW type \in {"LOGIN", "ENTER", "CHAT"},
           NEW no \in RoomID \cup {0}, OnRecv(c, type, no)
    PROVE  ChatInv'
  BY ClientParts, Included, OwnMessage, ClientSends DEF Requests, OnRecv, chatVars, MapsType,
     ClientRec, ClientOK, QueueType

LEMMA OnClientLeaveKeeps == ASSUME ChatInv, NEW c \in Client, OnClientLeave(c) PROVE ChatInv'
  BY ClientParts, OwnMessage, ClientSends DEF Requests, OnClientLeave, chatVars, MapsType,
     ClientRec, ClientOK, QueueType

LEMMA PeerCloseKeeps == ASSUME ChatInv, NEW c \in Client, PeerClose(c) PROVE ChatInv'
  BY ClientParts, QueueTypeSame, BattleTypeSame, LinkTypeSame, TypeJoined, ListSame, MirrorSame,
     ChatFrame DEF PeerClose, chatVars, linkVars, MapsType, ClientRec, QueueOK, ClientOK, ClientInv

-----------------------------------------------------------------------------
(* The message thread.                                                      *)

LEMMA JoinLength ==
    ASSUME NEW S, NEW a \in Seq(S), NEW b \in Seq(S)
    PROVE  Len(a \o b) = Len(a) + Len(b)
  OBVIOUS

(* Numbers have a smallest among them.                                      *)
LEMMA SetMin ==
    ASSUME NEW T \in SUBSET Nat, T # {}
    PROVE  Min(T) \in T
<1> DEFINE R == OpToRel(<, Nat)
<1>1. IsWellFoundedOn(R, Nat)
  BY NatLessThanWellFounded
<1>2. \A x, y \in Nat : <<y, x>> \in R <=> y < x
  BY DEF OpToRel
<1> HIDE DEF R
<1>3. PICK x \in T : \A y \in T : <<y, x>> \notin R
  BY <1>1, WFMin
<1>4. ASSUME NEW y \in T PROVE x =< y
  <2>1. x \in Nat /\ y \in Nat /\ <<y, x>> \notin R
    BY <1>3
  <2>2. ~(y < x)
    BY <1>2, <2>1, Zenon
  <2> QED
    BY <2>1, <2>2
<1> QED
  BY <1>4, Zenon DEF Min

(* Taking one of a list: what is there once is there no more.               *)
LEMMA RemoveOne ==
    ASSUME NEW S, NEW s \in Seq(S), NEW c \in ToSet(s)
    PROVE  /\ RemoveFirst(s, c) \in Seq(S)
           /\ Len(RemoveFirst(s, c)) = Len(s) - 1
           /\ ToSet(RemoveFirst(s, c)) \subseteq ToSet(s)
           /\ ToSet(s) \ {c} \subseteq ToSet(RemoveFirst(s, c))
           /\ \A x : Once(s, x) => Once(RemoveFirst(s, c), x)
           /\ Once(s, c) => c \notin ToSet(RemoveFirst(s, c))
<1> DEFINE t == RemoveFirst(s, c)
           I == {i \in 1 .. Len(s) : s[i] = c}
           k == Min(I)
<1>2. DOMAIN s = 1 .. Len(s) /\ Len(s) \in Nat
  OBVIOUS
<1>3. I \in SUBSET Nat /\ I # {} /\ \E i \in 1 .. Len(s) : s[i] = c
  BY <1>2 DEF ToSet
<1>4. k \in I
  BY <1>3, SetMin
<1>5. t = SubSeq(s, 1, k - 1) \o SubSeq(s, k + 1, Len(s))
  BY <1>3 DEF RemoveFirst, RemoveAt, SelectInSeq
<1>1. k \in DOMAIN s /\ s[k] = c
  BY <1>2, <1>4
<1> HIDE DEF k, I
<1>6. /\ t \in Seq(S) /\ Len(t) = Len(s) - 1 /\ DOMAIN t = 1 .. Len(s) - 1
      /\ \A i \in DOMAIN t : t[i] = IF i < k THEN s[i] ELSE s[i + 1]
  <2> DEFINE a == SubSeq(s, 1, k - 1)
             b == SubSeq(s, k + 1, Len(s))
  <2>1. /\ a \in Seq(S) /\ Len(a) = k - 1
        /\ \A i \in 1 .. k - 1 : a[i] = s[i]
    BY <1>1, <1>2
  <2>2. /\ b \in Seq(S) /\ Len(b) = Len(s) - k
        /\ \A i \in 1 .. Len(s) - k : b[i] = s[i + k]
    BY <1>1, <1>2
  <2> HIDE DEF a, b
  <2>3. t = a \o b
    BY <1>5 DEF a, b
  <2> HIDE DEF t
  <2>4. /\ t \in Seq(S) /\ Len(t) = Len(s) - 1 /\ DOMAIN t = 1 .. Len(s) - 1
        /\ \A i \in DOMAIN t : t[i] = IF i < k THEN a[i] ELSE b[i - (k - 1)]
    <3>1. /\ t \in Seq(S)
          /\ \A i \in DOMAIN a : t[i] = a[i]
          /\ \A i \in DOMAIN t : i \notin DOMAIN a => t[i] = b[i - Len(a)]
      BY <2>1, <2>2, <2>3, JoinElements
    <3>2. Len(t) = Len(a) + Len(b)
      BY <2>1, <2>2, <2>3, JoinLength
    <3>3. DOMAIN t = 1 .. Len(t) /\ DOMAIN a = 1 .. Len(a)
      BY <2>1, <3>1
    <3> QED
      BY <1>1, <1>2, <2>1, <2>2, <3>1, <3>2, <3>3
  <2>5. ASSUME NEW i \in DOMAIN t PROVE t[i] = IF i < k THEN s[i] ELSE s[i + 1]
    <3>1. CASE i < k
      BY <1>1, <1>2, <2>1, <2>4, <3>1
    <3>2. CASE ~(i < k)
      <4>1. i - (k - 1) \in 1 .. Len(s) - k /\ i - (k - 1) + k = i + 1
        BY <1>1, <1>2, <2>4, <3>2
      <4> QED
        BY <2>2, <2>4, <3>2, <4>1
    <3> QED
      BY <3>1, <3>2
  <2> QED
    BY <2>4, <2>5
<1> HIDE DEF t
<1>7. ASSUME NEW x, Once(s, x) PROVE Once(t, x)
  BY <1>1, <1>2, <1>6, <1>7 DEF Once
<1>8. ToSet(t) \subseteq ToSet(s) /\ (Once(s, c) => c \notin ToSet(t))
  BY <1>1, <1>2, <1>6 DEF ToSet, Once
<1>9. ASSUME NEW j \in DOMAIN s, s[j] # c PROVE s[j] \in ToSet(t)
  <2>1. j # k
    BY <1>1, <1>9
  <2>2. CASE j < k
    BY <1>1, <1>2, <1>6, <2>2 DEF ToSet
  <2>3. CASE j > k
    <3>1. j - 1 \in DOMAIN t /\ t[j - 1] = s[j]
      BY <1>1, <1>2, <1>6, <2>3
    <3> QED
      BY <3>1 DEF ToSet
  <2> QED
    BY <1>1, <1>2, <2>1, <2>2, <2>3
<1>10. ToSet(s) \ {c} \subseteq ToSet(t)
  BY <1>9 DEF ToSet
<1> QED
  BY <1>6, <1>7, <1>8, <1>10 DEF t

(* One more at the end.                                                     *)
LEMMA AddOne ==
    ASSUME NEW S, NEW s \in Seq(S), NEW c \in S
    PROVE  /\ Append(s, c) \in Seq(S)
           /\ Len(Append(s, c)) = Len(s) + 1
           /\ ToSet(Append(s, c)) = ToSet(s) \cup {c}
           /\ \A x : Once(s, x) /\ x # c => Once(Append(s, c), x)
           /\ c \notin ToSet(s) => Once(Append(s, c), c)
<1> DEFINE t == Append(s, c)
<1>1. /\ t \in Seq(S) /\ Len(t) = Len(s) + 1
      /\ \A i \in DOMAIN t : i \in DOMAIN s \/ i = Len(s) + 1
      /\ \A i \in DOMAIN s : i \in DOMAIN t /\ t[i] = s[i]
      /\ t[Len(s) + 1] = c /\ Len(s) + 1 \in DOMAIN t
  OBVIOUS
<1> HIDE DEF t
<1>2. /\ \A x : Once(s, x) /\ x # c => Once(t, x)
      /\ c \notin ToSet(s) => Once(t, c)
  BY <1>1 DEF Once, ToSet
<1>3. ToSet(t) = ToSet(s) \cup {c}
  BY <1>1 DEF ToSet
<1> QED
  BY <1>1, <1>2, <1>3 DEF t

(* What handling message m does to the clients and players.                 *)
Effect(m) ==
    \A c \in Client :
       /\ c \in DOMAIN playerMap' <=> (c \in DOMAIN playerMap \/ m \in JoinOf(c)) /\ m \notin LeaveOf(c)
       /\ \/ client'[c].conn = client[c].conn
          \/ client[c].conn = "up" /\ client'[c].conn = "shut"
       /\ client'[c].busy = client[c].busy \/ m \in RequestOf(c)

Result(m) == /\ MapsType' /\ ListInv' /\ crash' # "player" /\ Effect(m)
             /\ wrong = {} => /\ crash' = "none"
                              /\ DOMAIN roomMap' = Handled(m, DOMAIN roomMap)

LEMMA HeadFacts ==
    ASSUME ChatInv, msgQueue # <<>>, NEW c \in Client
    PROVE  LET m == Head(msgQueue)
               q == Tail(msgQueue)
           IN  /\ m \in Message /\ q \in Seq(Message)
               /\ Ordered(q, JoinOf(c), OfClient(c)) /\ Ordered(q, OfClient(c), LeaveOf(c))
               /\ HoldsOne(q, RequestOf(c))
               /\ \A X : Holds(msgQueue, X) <=> m \in X \/ Holds(q, X)
               /\ m \in JoinOf(c) => ~Holds(q, JoinOf(c))
               /\ m \in OfClient(c) /\ m \notin JoinOf(c) => c \in DOMAIN playerMap
               /\ m \in LeaveOf(c) => ~Holds(q, OfClient(c))
               /\ m \in RequestOf(c) => ~Holds(q, RequestOf(c))
<1> DEFINE m == Head(msgQueue)
           q == Tail(msgQueue)
<1>1. /\ Ordered(msgQueue, JoinOf(c), OfClient(c)) /\ Ordered(msgQueue, OfClient(c), LeaveOf(c))
      /\ HoldsOne(msgQueue, RequestOf(c)) /\ msgQueue \in Seq(Message)
      /\ Holds(msgQueue, OfClient(c)) => c \in DOMAIN playerMap \/ Holds(msgQueue, JoinOf(c))
  BY ClientParts DEF QueueOK
<1>2. /\ m \in Message /\ q \in Seq(Message) /\ 1 \in DOMAIN msgQueue /\ m = msgQueue[1]
      /\ \A i \in DOMAIN q : i + 1 \in DOMAIN msgQueue /\ q[i] = msgQueue[i + 1] /\ i + 1 # 1
  BY <1>1, TailElements
<1>3. /\ Ordered(q, JoinOf(c), OfClient(c)) /\ Ordered(q, OfClient(c), LeaveOf(c))
      /\ m \in OfClient(c) => \A i \in DOMAIN msgQueue : msgQueue[i] \in JoinOf(c) => i = 1
      /\ m \in LeaveOf(c) => \A i \in DOMAIN msgQueue : msgQueue[i] \in OfClient(c) => i = 1
  BY <1>1, OrderedTail
<1>4. /\ HoldsOne(q, RequestOf(c))
      /\ m \in RequestOf(c) => ~Holds(q, RequestOf(c))
  BY <1>1, HoldsOneTail
<1>5. \A X : Holds(msgQueue, X) <=> m \in X \/ Holds(q, X)
  BY <1>1, HoldsTail
<1> HIDE DEF m, q
<1>6. m \in OfClient(c) => ~Holds(q, JoinOf(c))
  BY <1>2, <1>3 DEF Holds
<1>7. m \in LeaveOf(c) => ~Holds(q, OfClient(c))
  BY <1>2, <1>3 DEF Holds
<1>8. m \in OfClient(c) /\ m \notin JoinOf(c) => c \in DOMAIN playerMap
  BY <1>1, <1>5, <1>6
<1>9. m \in JoinOf(c) => m \in OfClient(c)
  BY Included
<1> QED
  BY <1>2, <1>3, <1>4, <1>5, <1>6, <1>7, <1>8, <1>9 DEF m, q

LEMMA ThreadClients ==
    ASSUME ChatInv, msgQueue # <<>>, msgQueue' = Tail(msgQueue), Effect(Head(msgQueue)),
           arrived' = arrived, NEW c \in Client
    PROVE  QueueOK(c)' /\ ClientOK(c)'
<1> DEFINE m == Head(msgQueue)
<1>1. /\ Ordered(msgQueue', JoinOf(c), OfClient(c)) /\ Ordered(msgQueue', OfClient(c), LeaveOf(c))
      /\ HoldsOne(msgQueue', RequestOf(c))
      /\ \A X : Holds(msgQueue, X) <=> m \in X \/ Holds(msgQueue', X)
      /\ m \in JoinOf(c) => ~Holds(msgQueue', JoinOf(c))
      /\ m \in LeaveOf(c) => ~Holds(msgQueue', OfClient(c))
      /\ m \in RequestOf(c) => ~Holds(msgQueue', RequestOf(c))
  BY HeadFacts
<1>2. /\ c \in DOMAIN playerMap' <=> (c \in DOMAIN playerMap \/ m \in JoinOf(c)) /\ m \notin LeaveOf(c)
      /\ \/ client'[c].conn = client[c].conn
         \/ client[c].conn = "up" /\ client'[c].conn = "shut"
      /\ client'[c].busy = client[c].busy \/ m \in RequestOf(c)
  BY DEF Effect
<1> HIDE DEF m
<1>3. /\ Holds(msgQueue, OfClient(c)) => c \in DOMAIN playerMap \/ Holds(msgQueue, JoinOf(c))
      /\ Holds(msgQueue, JoinOf(c)) => c \notin DOMAIN playerMap
  BY ClientParts DEF QueueOK
<1>4. /\ m \in JoinOf(c) => m \in OfClient(c)
      /\ m \in LeaveOf(c) => m \in OfClient(c)
      /\ m \in RequestOf(c) => m \in OfClient(c)
      /\ Holds(msgQueue', JoinOf(c)) => Holds(msgQueue', OfClient(c))
  BY Included
<1>5. QueueOK(c)'
  BY <1>1, <1>2, <1>3 DEF QueueOK
<1>6. ClientOK(c)'
  BY ClientParts, <1>1, <1>2, <1>4 DEF ClientOK
<1> QED
  BY <1>5, <1>6

LEMMA ThreadStep ==
    ASSUME ChatInv, msgQueue # <<>>, msgQueue' = Tail(msgQueue), Result(Head(msgQueue)),
           UNCHANGED <<battleVars, linkVars, thread, arrived, drops>>
    PROVE  ChatInv'
<1>1. MapsType' /\ ListInv' /\ crash' # "player" /\ Effect(Head(msgQueue))
  BY DEF Result
<1>2. QueueType'
  BY ClientParts DEF QueueType
<1>3. TypeOK'
  BY <1>1, <1>2, ClientParts, BattleTypeSame, LinkTypeSame, TypeJoined
<1>4. \A c \in Client : QueueOK(c)' /\ ClientOK(c)'
  BY <1>1, ThreadClients
<1>5. ClientInv'
  BY <1>1, <1>3, <1>4 DEF ClientInv
<1>6. MirrorInv'
  <2>1. SUFFICES ASSUME wrong' = {} PROVE MirrorInv'
    BY DEF MirrorInv
  <2>2. wrong = {} /\ UNCHANGED <<toChat, link, told>>
    BY <2>1 DEF linkVars
  <2> DEFINE R == RoomsOf(msgQueue, DOMAIN roomMap)
  <2>3. /\ InTurn(msgQueue, DOMAIN roomMap) /\ InTurn(toChat, R)
        /\ RoomsOf(toChat, R) = IF link THEN told ELSE {}
    BY <2>2, ClientParts DEF MirrorInv
  <2>4. crash' = "none" /\ DOMAIN roomMap' = Handled(Head(msgQueue), DOMAIN roomMap)
    BY <2>2 DEF Result
  <2>5. InTurn(msgQueue', DOMAIN roomMap')
    BY <2>3, <2>4, ClientParts, InTurnTail
  <2>6. RoomsOf(msgQueue', DOMAIN roomMap') = R
    BY <2>4, ClientParts, RoomsTail
  <2> HIDE DEF R
  <2>7. InTurn(toChat', RoomsOf(msgQueue', DOMAIN roomMap'))
    BY <2>2, <2>3, <2>6
  <2>8. RoomsOf(toChat', RoomsOf(msgQueue', DOMAIN roomMap')) = IF link' THEN told' ELSE {}
    BY <2>2, <2>3, <2>6
  <2> QED
    BY <2>4, <2>5, <2>7, <2>8 DEF MirrorInv
<1> QED
  BY <1>1, <1>2, <1>5, <1>6, ChatFrame

-----------------------------------------------------------------------------
(* What the thread does with each kind of message.                          *)

LEMMA AnsweredStep ==
    ASSUME MapsType, NEW c \in Client, client' = Answered(c)
    PROVE  /\ client' \in [Client -> ClientRec]
           /\ client'[c].busy = FALSE /\ client'[c].conn = client[c].conn
           /\ \A d \in Client : d # c => client'[d] = client[d]
  BY DEF MapsType, Answered, ClientRec

LEMMA DisconnectStep ==
    ASSUME NEW conns \in [Client -> ClientRec], NEW cs, client' = Disconnect(cs, conns)
    PROVE  /\ client' \in [Client -> ClientRec]
           /\ \A d \in Client : /\ client'[d].busy = conns[d].busy
                                /\ \/ client'[d].conn = conns[d].conn
                                   \/ conns[d].conn = "up" /\ client'[d].conn = "shut"
  BY DEF Disconnect, ClientRec

(* The message handled is one about client c, of a kind.                    *)
LEMMA HeadOf ==
    ASSUME ChatInv, msgQueue # <<>>,
           Head(msgQueue).type \in Requests \cup {"JOIN", "LEAVE"}
    PROVE  LET m == Head(msgQueue)
               c == m.client
           IN  /\ c \in Client /\ m \in Message /\ m \in OfClient(c)
               /\ m \in JoinOf(c) <=> m.type = "JOIN"
               /\ m \in LeaveOf(c) <=> m.type = "LEAVE"
               /\ m \in RequestOf(c) <=> m.type \in Requests
               /\ \A d \in Client : d # c => m \notin OfClient(d)
               /\ m.type # "JOIN" => c \in DOMAIN playerMap
               /\ m.type = "JOIN" => c \notin DOMAIN playerMap
               /\ Handled(m, DOMAIN roomMap) = DOMAIN roomMap
<1> DEFINE m == Head(msgQueue)
           c == m.client
<1>1. m \in Message
  BY ClientParts
<1>2. m.type \in {"JOIN", "LEAVE", "LOGIN", "ENTER", "CHAT"}
  BY DEF Requests
<1>3. c \in Client /\ m.room \in RoomID \cup {0}
  BY <1>1, <1>2, MessageParts
<1>4. /\ m \in OfClient(c)
      /\ m \in JoinOf(c) <=> m.type = "JOIN"
      /\ m \in LeaveOf(c) <=> m.type = "LEAVE"
      /\ m \in RequestOf(c) <=> m.type \in Requests
      /\ \A d \in Client : d # c => m \notin OfClient(d)
  BY <1>1, <1>2 DEF OfClient, JoinOf, LeaveOf, RequestOf, About, Requests
<1>5. /\ m \in OfClient(c) /\ m \notin JoinOf(c) => c \in DOMAIN playerMap
      /\ \A X : m \in X => Holds(msgQueue, X)
  BY <1>3, HeadFacts
<1>6. /\ Holds(msgQueue, JoinOf(c)) => c \notin DOMAIN playerMap
  BY <1>3, ClientParts DEF QueueOK
<1>7. Handled(m, DOMAIN roomMap) = DOMAIN roomMap
  BY <1>2, ClientParts, HandledNothing
<1> QED
  BY <1>1, <1>3, <1>4, <1>5, <1>6, <1>7

(* What changes no list: players keep their rooms, or are new.              *)
LEMMA ListsKept ==
    ASSUME ChatInv, UNCHANGED <<roomMap, again>>,
           \A c \in DOMAIN playerMap' :
              \/ c \in DOMAIN playerMap /\ playerMap'[c].bEnter = playerMap[c].bEnter
                                        /\ playerMap'[c].roomNo = playerMap[c].roomNo
              \/ c \notin DOMAIN playerMap /\ playerMap'[c].roomNo = 0,
           \A c \in DOMAIN playerMap : c \notin DOMAIN playerMap' =>
              ~playerMap[c].bEnter \/ playerMap[c].roomNo = 0
    PROVE  ListInv'
  BY ClientParts, Sizes DEF Members, ListInv, ListOK

LEMMA JoinResult ==
    ASSUME ChatInv, msgQueue # <<>>, crash = "none", Head(msgQueue).type = "JOIN",
           Join(Head(msgQueue).client)
    PROVE  Result(Head(msgQueue))
<1> DEFINE m == Head(msgQueue)
           c == m.client
<1>1. /\ c \in Client /\ m \in JoinOf(c) /\ m \notin LeaveOf(c)
      /\ \A d \in Client : d # c => m \notin OfClient(d)
      /\ c \notin DOMAIN playerMap /\ Handled(m, DOMAIN roomMap) = DOMAIN roomMap
  BY HeadOf
<1>2. PICK bEnter \in BOOLEAN :
        playerMap' = [d \in DOMAIN playerMap \cup {c} |->
                        IF d = c THEN [accountNo |-> 0, bEnter |-> bEnter, roomNo |-> 0] ELSE playerMap[d]]
  BY DEF Join
<1>3. UNCHANGED <<roomMap, connectToken, again, client, crash>>
  BY DEF Join
<1> HIDE DEF m, c
<1>4. /\ DOMAIN playerMap' = DOMAIN playerMap \cup {c}
      /\ playerMap'[c] = [accountNo |-> 0, bEnter |-> bEnter, roomNo |-> 0]
      /\ \A d \in DOMAIN playerMap : playerMap'[d] = playerMap[d]
  BY <1>1, <1>2
<1>5. MapsType'
  BY <1>4, <1>1, <1>3, ClientParts DEF PlayerRec, MapsType
<1>6. ListInv'
  BY <1>1, <1>3, <1>4, ListsKept
<1>7. Effect(m)
  <2>1. \A d \in Client : m \in JoinOf(d) \/ m \in LeaveOf(d) => m \in OfClient(d)
    BY Included
  <2> QED
    BY <1>1, <1>3, <1>4, <2>1 DEF Effect
<1> QED
  BY <1>1, <1>3, <1>5, <1>6, <1>7 DEF Result, m

(* A request after which the player is still there, in the same rooms.      *)
LEMMA RequestResult ==
    ASSUME ChatInv, msgQueue # <<>>, Head(msgQueue).type \in Requests, crash = "none",
           UNCHANGED <<roomMap, connectToken, again, crash>>,
           DOMAIN playerMap' = DOMAIN playerMap,
           \A c \in DOMAIN playerMap : /\ playerMap'[c] \in PlayerRec
                                       /\ playerMap'[c].bEnter = playerMap[c].bEnter
                                       /\ playerMap'[c].roomNo = playerMap[c].roomNo,
           client' \in [Client -> ClientRec],
           \A d \in Client : /\ client'[d].busy = client[d].busy \/ d = Head(msgQueue).client
                             /\ \/ client'[d].conn = client[d].conn
                                \/ client[d].conn = "up" /\ client'[d].conn = "shut"
    PROVE  Result(Head(msgQueue))
<1> DEFINE m == Head(msgQueue)
           c == m.client
<1>0. m.type # "JOIN" /\ m.type # "LEAVE"
  BY DEF Requests
<1>1. /\ c \in Client /\ m \notin JoinOf(c) /\ m \notin LeaveOf(c) /\ m \in RequestOf(c)
      /\ \A d \in Client : d # c => m \notin OfClient(d)
      /\ Handled(m, DOMAIN roomMap) = DOMAIN roomMap
  BY <1>0, HeadOf
<1>2. \A d \in Client : client'[d].busy = client[d].busy \/ d = c
  OBVIOUS
<1> HIDE DEF m, c
<1>3. MapsType'
  BY ClientParts DEF MapsType
<1>4. ListInv'
  BY ListsKept
<1>5. Effect(m)
  BY Included, <1>1, <1>2 DEF Effect
<1> QED
  BY <1>1, <1>3, <1>4, <1>5 DEF Result, m

LEMMA LoginResult ==
    ASSUME ChatInv, msgQueue # <<>>, crash = "none", Head(msgQueue).type = "LOGIN",
           Request_Player_Login(Head(msgQueue).client)
    PROVE  Result(Head(msgQueue))
<1> DEFINE c == Head(msgQueue).client
<1>0. Head(msgQueue).type \in Requests /\ Head(msgQueue).type # "JOIN"
  BY DEF Requests
<1>1. c \in Client /\ c \in DOMAIN playerMap
  BY <1>0, HeadOf
<1>2. /\ playerMap' = [playerMap EXCEPT ![c].accountNo = c] /\ client' = Answered(c)
      /\ UNCHANGED <<roomMap, connectToken, again, crash>>
  BY DEF Request_Player_Login
<1>3. /\ client' \in [Client -> ClientRec]
      /\ \A d \in Client : /\ client'[d].busy = client[d].busy \/ d = c
                           /\ client'[d].conn = client[d].conn
  BY <1>1, <1>2, ClientParts, AnsweredStep
<1>4. \A d \in DOMAIN playerMap : playerMap[d] \in PlayerRec
  BY ClientParts DEF MapsType
<1>5. /\ DOMAIN playerMap' = DOMAIN playerMap
      /\ \A d \in DOMAIN playerMap : /\ playerMap'[d] \in PlayerRec
                                     /\ playerMap'[d].bEnter = playerMap[d].bEnter
                                     /\ playerMap'[d].roomNo = playerMap[d].roomNo
  BY <1>1, <1>2, <1>4 DEF PlayerRec
<1> QED
  BY <1>0, <1>2, <1>3, <1>5, RequestResult

LEMMA SendChatResult ==
    ASSUME ChatInv, msgQueue # <<>>, crash = "none", Head(msgQueue).type = "CHAT",
           Request_Player_SendChat(Head(msgQueue).client)
    PROVE  Result(Head(msgQueue))
<1> DEFINE c == Head(msgQueue).client
<1>0. Head(msgQueue).type \in Requests
  BY DEF Requests
<1>1. c \in Client
  BY <1>0, HeadOf
<1>2. /\ UNCHANGED <<playerMap, roomMap, connectToken, again, crash>>
      /\ client' = Answered(c) \/ client' = Disconnect({c}, Answered(c))
  BY DEF Request_Player_SendChat, RoomGone
<1>3. /\ Answered(c) \in [Client -> ClientRec]
      /\ \A d \in Client : /\ Answered(c)[d].busy = client[d].busy \/ d = c
                           /\ Answered(c)[d].conn = client[d].conn
  BY <1>1, ClientParts DEF MapsType, Answered, ClientRec
<1>4. /\ client' \in [Client -> ClientRec]
      /\ \A d \in Client : /\ client'[d].busy = client[d].busy \/ d = c
                           /\ \/ client'[d].conn = client[d].conn
                              \/ client[d].conn = "up" /\ client'[d].conn = "shut"
  BY <1>3, DisconnectStep, <1>2
<1>5. \A d \in DOMAIN playerMap : playerMap[d] \in PlayerRec
  BY ClientParts DEF MapsType
<1> QED
  BY <1>0, <1>2, <1>4, <1>5, RequestResult

LEMMA RefuseResult ==
    ASSUME ChatInv, msgQueue # <<>>, crash = "none", Head(msgQueue).type = "ENTER",
           Request_Player_EnterRoom_Refuse(Head(msgQueue).client)
    PROVE  Result(Head(msgQueue))
  BY ClientParts, RequestResult DEF Requests, Request_Player_EnterRoom_Refuse, MapsType, chatVars

(* A player enters a room, in one already or not.                           *)
LEMMA EnterStep ==
    ASSUME ChatInv, NEW m, NEW c \in Client, NEW no \in DOMAIN roomMap, crash = "none",
           m \notin JoinOf(c), m \notin LeaveOf(c), m \in RequestOf(c),
           \A d \in Client : d # c => m \notin OfClient(d),
           Handled(m, DOMAIN roomMap) = DOMAIN roomMap,
           c \in DOMAIN playerMap, AddPlayer_Room(c, no), client' = Answered(c),
           UNCHANGED <<connectToken, crash>>
    PROVE  Result(m)
<1>2. no \in RoomID /\ no # 0 /\ roomMap[no] \in RoomRec /\ playerMap[c] \in PlayerRec
  BY ClientParts, Sizes DEF MapsType
<1>3. /\ roomMap' = [roomMap EXCEPT ![no] = [curUser |-> @.curUser + 1, playerList |-> Append(@.playerList, c)]]
      /\ playerMap' = [playerMap EXCEPT ![c].roomNo = no, ![c].bEnter = TRUE]
      /\ again' = again \cup ({c} \cap Listed(DOMAIN roomMap))
  BY DEF AddPlayer_Room
<1>4. /\ DOMAIN roomMap' = DOMAIN roomMap
      /\ roomMap'[no] = [curUser |-> roomMap[no].curUser + 1, playerList |-> Append(roomMap[no].playerList, c)]
      /\ \A n \in DOMAIN roomMap : n # no => roomMap'[n] = roomMap[n]
  BY <1>3
<1>5. /\ DOMAIN playerMap' = DOMAIN playerMap
      /\ playerMap'[c] \in PlayerRec /\ playerMap'[c].roomNo = no /\ playerMap'[c].bEnter = TRUE
      /\ \A d \in DOMAIN playerMap : d # c => playerMap'[d] = playerMap[d]
  BY <1>2, <1>3 DEF PlayerRec
<1>6. /\ client' \in [Client -> ClientRec]
      /\ client'[c].conn = client[c].conn
      /\ \A d \in Client : d # c => client'[d] = client[d]
  BY ClientParts DEF MapsType, Answered, ClientRec
<1>7. /\ again \subseteq again' /\ again' \subseteq Client
      /\ \A n \in DOMAIN roomMap : c \in ToSet(roomMap[n].playerList) => c \in again'
      /\ \A x : x \in again' => x \in again \/ x = c
  BY <1>3, ClientParts DEF Listed, MapsType
<1>8. ListOK(no)
  BY ClientParts DEF ListInv
<1> DEFINE l == roomMap[no].playerList
<1>9. l \in Seq(Client) /\ roomMap[no].curUser \in Int /\ roomMap[no].curUser = Len(l)
  BY <1>2, <1>8 DEF ListOK, RoomRec
<1>10. roomMap'[no].curUser = roomMap[no].curUser + 1 /\ roomMap'[no].playerList = Append(l, c)
  BY <1>4
<1>11. /\ Members(no) \subseteq ToSet(l) /\ ToSet(l) \ again \subseteq Members(no)
       /\ \A x : x \in again \/ Once(l, x)
       /\ c \in ToSet(l) => c \in again'
  BY <1>7, <1>8 DEF ListOK
<1> HIDE DEF l
<1>12. /\ Append(l, c) \in Seq(Client) /\ Len(Append(l, c)) = Len(l) + 1
       /\ ToSet(Append(l, c)) = ToSet(l) \cup {c}
       /\ \A x : Once(l, x) /\ x # c => Once(Append(l, c), x)
       /\ c \notin ToSet(l) => Once(Append(l, c), c)
  BY <1>9, AddOne
<1>13. roomMap'[no] \in RoomRec
  BY <1>4, <1>9, <1>12 DEF RoomRec, l
<1>14. /\ Members(no)' = Members(no) \cup {c}
       /\ \A n : n # no => Members(n)' = Members(n) \ {c}
  BY <1>5 DEF Members
<1>15. ListOK(no)'
  BY <1>7, <1>9, <1>10, <1>11, <1>12, <1>14 DEF ListOK
<1>16. ASSUME NEW n \in DOMAIN roomMap, n # no PROVE ListOK(n)'
  <2>1. ListOK(n)
    BY ClientParts DEF ListInv
  <2> QED
    BY <1>4, <1>7, <1>14, <1>16, <2>1 DEF ListOK
<1>17. ListInv'
  BY <1>4, <1>5, ClientParts, <1>15, <1>16 DEF ListInv
<1>18. MapsType'
  BY <1>4, <1>5, <1>6, <1>7, <1>13, ClientParts DEF MapsType
<1>19. Effect(m)
  BY <1>5, Included, <1>6 DEF Effect
<1> QED
  BY <1>4, <1>17, <1>18, <1>19 DEF Result

LEMMA EnterResult ==
    ASSUME ChatInv, msgQueue # <<>>, crash = "none", Head(msgQueue).type = "ENTER",
           Request_Player_EnterRoom(Head(msgQueue).client, Head(msgQueue).room)
    PROVE  Result(Head(msgQueue))
<1> DEFINE m == Head(msgQueue)
           c == m.client
           no == m.room
<1>0. m.type \in Requests /\ m.type # "JOIN" /\ m.type # "LEAVE"
  BY DEF Requests
<1>1. /\ c \in Client /\ m \notin JoinOf(c) /\ m \notin LeaveOf(c) /\ m \in RequestOf(c)
      /\ c \in DOMAIN playerMap
      /\ \A d \in Client : d # c => m \notin OfClient(d)
      /\ Handled(m, DOMAIN roomMap) = DOMAIN roomMap
  BY <1>0, HeadOf
<1>2. UNCHANGED <<connectToken, crash>>
  BY DEF Request_Player_EnterRoom
<1>3. CASE no \notin DOMAIN roomMap
  BY <1>3, <1>1, ClientParts, AnsweredStep, <1>0, <1>2, RequestResult DEF Request_Player_EnterRoom,
     MapsType
<1>4. CASE no \in DOMAIN roomMap
  BY <1>4, <1>1, <1>2, EnterStep DEF Request_Player_EnterRoom
<1> QED
  BY <1>3, <1>4

(* A player that is in a room goes, and the list of the room loses it.      *)
LEMMA LeaveStep ==
    ASSUME ChatInv, NEW c \in DOMAIN playerMap, NEW no \in DOMAIN roomMap,
           playerMap[c].bEnter, playerMap[c].roomNo = no,
           DeletePlayer_Room(c, no), Free_Player(c), UNCHANGED <<connectToken, again, client, crash>>
    PROVE  MapsType' /\ ListInv' /\ DOMAIN roomMap' = DOMAIN roomMap
<1>1. c \in Client /\ no \in RoomID /\ no # 0 /\ roomMap[no] \in RoomRec
  BY ClientParts, Sizes DEF MapsType
<1>2. roomMap' = [roomMap EXCEPT ![no] = [curUser |-> @.curUser - 1,
                                          playerList |-> RemoveFirst(@.playerList, c)]]
  BY DEF DeletePlayer_Room
<1>3. /\ DOMAIN roomMap' = DOMAIN roomMap
      /\ roomMap'[no].curUser = roomMap[no].curUser - 1
      /\ roomMap'[no].playerList = RemoveFirst(roomMap[no].playerList, c)
      /\ roomMap'[no] = [curUser |-> roomMap'[no].curUser, playerList |-> roomMap'[no].playerList]
      /\ \A n \in DOMAIN roomMap : n # no => roomMap'[n] = roomMap[n]
  BY <1>2
<1>4. /\ DOMAIN playerMap' = DOMAIN playerMap \ {c}
      /\ \A d \in DOMAIN playerMap : d # c => playerMap'[d] = playerMap[d]
  BY DEF Free_Player
<1>5. ListOK(no) /\ c \in Members(no)
  BY ClientParts DEF ListInv, Members
<1> DEFINE l == roomMap[no].playerList
<1>6. /\ l \in Seq(Client) /\ roomMap[no].curUser \in Int /\ roomMap[no].curUser = Len(l)
      /\ Members(no) \subseteq ToSet(l) /\ ToSet(l) \ again \subseteq Members(no)
      /\ \A x : x \in again \/ Once(l, x)
  BY <1>1, <1>5 DEF ListOK, RoomRec
<1>7. roomMap'[no].playerList = RemoveFirst(l, c)
  BY <1>3
<1> HIDE DEF l
<1>8. /\ RemoveFirst(l, c) \in Seq(Client) /\ Len(RemoveFirst(l, c)) = Len(l) - 1
      /\ ToSet(RemoveFirst(l, c)) \subseteq ToSet(l)
      /\ ToSet(l) \ {c} \subseteq ToSet(RemoveFirst(l, c))
      /\ \A x : Once(l, x) => Once(RemoveFirst(l, c), x)
      /\ Once(l, c) => c \notin ToSet(RemoveFirst(l, c))
  BY <1>5, <1>6, RemoveOne
<1>9. roomMap'[no] \in RoomRec
  BY <1>3, <1>6, <1>7, <1>8 DEF RoomRec
<1>10. Members(no)' = Members(no) \ {c}
  BY <1>4 DEF Members
<1>11. ListOK(no)'
  BY <1>3, <1>6, <1>7, <1>8, <1>10 DEF ListOK
<1>12. ASSUME NEW n \in DOMAIN roomMap, n # no PROVE ListOK(n)'
  BY <1>12, ClientParts, <1>4, <1>3 DEF ListInv, Members, ListOK
<1>13. ListInv'
  BY <1>3, <1>4, ClientParts, <1>11, <1>12 DEF ListInv
<1>14. MapsType'
  BY <1>3, <1>4, <1>9, ClientParts DEF MapsType
<1> QED
  BY <1>3, <1>13, <1>14

LEMMA LeaveResult ==
    ASSUME ChatInv, msgQueue # <<>>, crash = "none", Head(msgQueue).type = "LEAVE",
           Leave(Head(msgQueue).client)
    PROVE  Result(Head(msgQueue))
<1> DEFINE m == Head(msgQueue)
           c == m.client
<1>0. m.type # "JOIN" /\ m.type \notin Requests
  BY DEF Requests
<1>1. /\ c \in Client /\ m \notin JoinOf(c) /\ m \in LeaveOf(c) /\ c \in DOMAIN playerMap
      /\ \A d \in Client : d # c => m \notin OfClient(d)
      /\ Handled(m, DOMAIN roomMap) = DOMAIN roomMap
  BY <1>0, HeadOf
<1>2. /\ Free_Player(c) /\ UNCHANGED <<connectToken, again, client, crash>>
      /\ IF playerMap[c].bEnter THEN DeletePlayer_Room(c, playerMap[c].roomNo) ELSE UNCHANGED roomMap
  BY DEF Leave
<1> HIDE DEF m, c
<1>3. /\ DOMAIN playerMap' = DOMAIN playerMap \ {c}
      /\ \A d \in DOMAIN playerMap : d # c => playerMap'[d] = playerMap[d]
  BY <1>2 DEF Free_Player
<1>4. MapsType' /\ ListInv' /\ DOMAIN roomMap' = DOMAIN roomMap
  BY <1>1, ClientParts, <1>2, LeaveStep, Sizes, <1>3, ListsKept DEF ListInv, DeletePlayer_Room,
     MapsType
<1>5. Effect(m)
  BY <1>3, Included, <1>1, <1>2 DEF Effect
<1> QED
  BY <1>1, <1>2, <1>4, <1>5 DEF Result, m

-----------------------------------------------------------------------------
(* The messages of the battle server.                                       *)

(* They concern no client.                                                  *)
LEMMA NoClients ==
    ASSUME NEW m, m.type \in {"CREATE", "DELETE", "TOKEN", "DISCONNECTED"}, NEW c \in Client
    PROVE  m \notin JoinOf(c) /\ m \notin LeaveOf(c) /\ m \notin RequestOf(c)
  BY DEF JoinOf, LeaveOf, RequestOf, About, Requests

LEMMA ServerEffect ==
    ASSUME NEW m, m.type \in {"CREATE", "DELETE", "TOKEN", "DISCONNECTED"},
           DOMAIN playerMap' = DOMAIN playerMap,
           \A c \in Client : /\ client'[c].busy = client[c].busy
                             /\ \/ client'[c].conn = client[c].conn
                                \/ client[c].conn = "up" /\ client'[c].conn = "shut"
    PROVE  Effect(m)
  BY NoClients DEF Effect

LEMMA TokenResult ==
    ASSUME ChatInv, msgQueue # <<>>, crash = "none", Head(msgQueue).type = "TOKEN",
           Request_Server_ReissueToken
    PROVE  Result(Head(msgQueue))
<1> DEFINE m == Head(msgQueue)
<1>1. UNCHANGED <<roomMap, playerMap, again, client, crash>> /\ connectToken' = TRUE
  BY DEF Request_Server_ReissueToken
<1>2. Handled(m, DOMAIN roomMap) = DOMAIN roomMap
  BY ClientParts, HandledNothing
<1>3. MapsType' /\ ListInv'
  BY <1>1, ClientParts, ListSame DEF MapsType
<1>4. Effect(m)
  BY <1>1, ServerEffect
<1> QED
  BY <1>1, <1>2, <1>3, <1>4 DEF Result

(* The message thread has done what a correct queue asks for.               *)
LEMMA HeadFits ==
    ASSUME ChatInv, msgQueue # <<>>, wrong = {}
    PROVE  crash = "none" /\ Fits(Head(msgQueue), DOMAIN roomMap)
  BY ClientParts, InTurnTail DEF MirrorInv

(* A room that is new has nobody in it.                                     *)
LEMMA AllocStep ==
    ASSUME ChatInv, NEW no \in RoomID, no \notin DOMAIN roomMap, Alloc_Room(no),
           UNCHANGED <<playerMap, connectToken, again, client, crash>>
    PROVE  DOMAIN roomMap' = DOMAIN roomMap \cup {no} /\ MapsType' /\ ListInv'
<1>1. /\ DOMAIN roomMap' = DOMAIN roomMap \cup {no}
      /\ roomMap'[no] = [curUser |-> 0, playerList |-> <<>>]
      /\ \A n \in DOMAIN roomMap : roomMap'[n] = roomMap[n]
  BY DEF Alloc_Room
<1>2. roomMap'[no] \in RoomRec
  BY <1>1 DEF RoomRec
<1>3. MapsType'
  BY <1>1, <1>2, ClientParts DEF MapsType
<1>4. no # 0
  BY Sizes
<1>5. ListOK(no)'
  BY <1>4, ClientParts, <1>1 DEF ListInv, Members, Once, ToSet, ListOK
<1>6. ASSUME NEW n \in DOMAIN roomMap PROVE ListOK(n)'
  BY <1>1, <1>6, ClientParts DEF Members, ListInv, ListOK
<1>7. ListInv'
  BY <1>1, ClientParts, <1>5, <1>6 DEF ListInv
<1> QED
  BY <1>1, <1>3, <1>7

LEMMA CreateResult ==
    ASSUME ChatInv, msgQueue # <<>>, crash = "none", Head(msgQueue).type = "CREATE",
           Request_Server_CreateRoom(Head(msgQueue).room)
    PROVE  Result(Head(msgQueue))
<1> DEFINE m == Head(msgQueue)
           no == m.room
<1>1. m \in Message /\ no \in RoomID /\ m = Create(no)
  BY ClientParts, MessageParts
<1>2. UNCHANGED <<playerMap, connectToken, again, client>>
  BY DEF Request_Server_CreateRoom
<1>3. Effect(m)
  BY <1>2, ServerEffect
<1>4. /\ no \in DOMAIN roomMap => crash' = "create" /\ roomMap' = roomMap
      /\ no \notin DOMAIN roomMap => Alloc_Room(no) /\ crash' = crash
  BY DEF Request_Server_CreateRoom
<1>5. wrong = {} => no \notin DOMAIN roomMap
  BY <1>1, HeadFits DEF Fits
<1> HIDE DEF m, no
<1>6. CASE no \in DOMAIN roomMap
  BY <1>2, <1>4, <1>6, ClientParts, ListSame, <1>3, <1>5 DEF MapsType, Result, m
<1>7. CASE no \notin DOMAIN roomMap
  <2>1. /\ DOMAIN roomMap' = DOMAIN roomMap \cup {no}
        /\ MapsType' /\ ListInv'
    BY <1>1, <1>2, <1>4, <1>7, AllocStep
  <2>2. DOMAIN roomMap' = Handled(m, DOMAIN roomMap)
    BY ClientParts, <1>1, <2>1, Kinds DEF Handled
  <2> QED
    BY <1>3, <1>4, <1>7, <2>1, <2>2 DEF Result, m
<1> QED
  BY <1>6, <1>7

(* Rooms go: their players stay, in no room, and are disconnected.          *)
LEMMA ClearStep ==
    ASSUME ChatInv, NEW nos \in SUBSET DOMAIN roomMap, Clear_Rooms(nos), UNCHANGED <<connectToken, crash>>
    PROVE  /\ MapsType' /\ ListInv' /\ DOMAIN roomMap' = DOMAIN roomMap \ nos
           /\ DOMAIN playerMap' = DOMAIN playerMap
           /\ \A c \in Client : /\ client'[c].busy = client[c].busy
                                /\ \/ client'[c].conn = client[c].conn
                                   \/ client[c].conn = "up" /\ client'[c].conn = "shut"
<1>0. PICK heirs \in SUBSET Heirs(Listed(nos)) :
        /\ roomMap' = [no \in DOMAIN roomMap \ nos |-> roomMap[no]]
        /\ playerMap' = [c \in DOMAIN playerMap |->
                            IF c \in Listed(nos) \cup heirs THEN ClearEnter(playerMap[c]) ELSE playerMap[c]]
        /\ client' = Disconnect(Listed(nos) \cup heirs, client)
        /\ again' = again \cup heirs
  BY DEF Clear_Rooms
<1> DEFINE out == Listed(nos) \cup heirs
<1>1. /\ roomMap' = [no \in DOMAIN roomMap \ nos |-> roomMap[no]]
      /\ playerMap' = [c \in DOMAIN playerMap |-> IF c \in out THEN ClearEnter(playerMap[c]) ELSE playerMap[c]]
      /\ client' = Disconnect(out, client)
  BY <1>0
<1>2. \A no \in DOMAIN roomMap : ListOK(no)
  BY ClientParts DEF ListInv
<1>3. /\ \A no \in nos : Members(no) \subseteq out
      /\ \A c \in out \ again' : \E no \in nos : c \in Members(no)
      /\ again \subseteq again' /\ again' \subseteq Client
  BY <1>0, <1>2, ClientParts DEF Listed, Heirs, ListOK, MapsType
<1> HIDE DEF out
<1>4. /\ client' \in [Client -> ClientRec]
      /\ \A c \in Client : /\ client'[c].busy = client[c].busy
                           /\ \/ client'[c].conn = client[c].conn
                              \/ client[c].conn = "up" /\ client'[c].conn = "shut"
  BY ClientParts, <1>1, DisconnectStep DEF MapsType
<1>5. ASSUME NEW c \in DOMAIN playerMap
      PROVE  /\ playerMap'[c] \in PlayerRec
             /\ playerMap'[c].roomNo = playerMap[c].roomNo
             /\ playerMap'[c].bEnter = (playerMap[c].bEnter /\ c \notin out)
  BY ClientParts, <1>1 DEF MapsType, ClearEnter, PlayerRec
<1>6. /\ DOMAIN roomMap' = DOMAIN roomMap \ nos /\ DOMAIN playerMap' = DOMAIN playerMap
      /\ \A no \in DOMAIN roomMap \ nos : roomMap'[no] = roomMap[no]
  BY <1>1
<1>7. MapsType'
  BY <1>3, <1>4, <1>5, <1>6, ClientParts DEF MapsType
<1>8. ASSUME NEW no \in DOMAIN roomMap \ nos PROVE ListOK(no)'
  <2>1. \A c \in Members(no) : c \in out => c \in again'
    BY <1>3 DEF Members
  <2>2. Members(no)' = Members(no) \ out
    BY <1>5, <1>6 DEF Members
  <2> QED
    BY <1>2, <1>3, <1>6, <2>1, <2>2 DEF ListOK
<1>9. ASSUME NEW c \in DOMAIN playerMap', playerMap'[c].bEnter
      PROVE  playerMap'[c].roomNo \in DOMAIN roomMap' \cup {0}
  BY <1>5, <1>6, <1>9, ClientParts, <1>3 DEF ListInv, Members
<1>10. ListInv'
  BY <1>6, <1>8, <1>9 DEF ListInv
<1> QED
  BY <1>4, <1>6, <1>7, <1>10

LEMMA DeleteResult ==
    ASSUME ChatInv, msgQueue # <<>>, crash = "none", Head(msgQueue).type = "DELETE",
           Request_Server_DeleteRoom(Head(msgQueue).room)
    PROVE  Result(Head(msgQueue))
<1> DEFINE m == Head(msgQueue)
           no == m.room
<1>1. m \in Message /\ no \in RoomID /\ m = Delete(no)
  BY ClientParts, MessageParts
<1>2. /\ connectToken' = connectToken
      /\ no \in DOMAIN roomMap => Clear_Rooms({no}) /\ crash' = crash
      /\ no \notin DOMAIN roomMap => crash' = "delete" /\ UNCHANGED <<roomMap, playerMap, again, client>>
  BY DEF Request_Server_DeleteRoom
<1>3. wrong = {} => no \in DOMAIN roomMap
  BY <1>1, HeadFits DEF Fits
<1>4. m.type = "DELETE"
  OBVIOUS
<1> HIDE DEF m, no
<1>5. CASE no \in DOMAIN roomMap
  <2>1. /\ MapsType' /\ ListInv' /\ DOMAIN roomMap' = DOMAIN roomMap \ {no}
        /\ DOMAIN playerMap' = DOMAIN playerMap
        /\ \A c \in Client : /\ client'[c].busy = client[c].busy
                             /\ \/ client'[c].conn = client[c].conn
                                \/ client[c].conn = "up" /\ client'[c].conn = "shut"
    BY <1>2, <1>5, ClearStep
  <2>2. Effect(m)
    BY <1>4, <2>1, ServerEffect
  <2>3. DOMAIN roomMap' = Handled(m, DOMAIN roomMap)
    BY Kinds, ClientParts, <1>1, <2>1 DEF Ends, Handled
  <2> QED
    BY <1>2, <1>5, <2>1, <2>2, <2>3 DEF Result, m
<1>6. CASE no \notin DOMAIN roomMap
  <2>1. MapsType' /\ ListInv'
    BY <1>2, <1>6, ClientParts, ListSame DEF MapsType
  <2>2. Effect(m)
    BY <1>2, <1>4, <1>6, ServerEffect
  <2> QED
    BY <1>2, <1>3, <1>6, <2>1, <2>2 DEF Result, m
<1> QED
  BY <1>5, <1>6

LEMMA DisconnectedResult ==
    ASSUME ChatInv, msgQueue # <<>>, crash = "none", Head(msgQueue).type = "DISCONNECTED",
           Request_Server_Disconnected
    PROVE  Result(Head(msgQueue))
<1> DEFINE m == Head(msgQueue)
<1>1. m = [type |-> "DISCONNECTED"] /\ m.type = "DISCONNECTED"
  BY ClientParts, MessageParts
<1>2. Clear_Rooms(DOMAIN roomMap) /\ UNCHANGED <<connectToken, crash>>
  BY DEF Request_Server_Disconnected, Disconnected
<1> HIDE DEF m
<1>3. /\ MapsType' /\ ListInv' /\ DOMAIN roomMap' = {}
      /\ DOMAIN playerMap' = DOMAIN playerMap
      /\ \A c \in Client : /\ client'[c].busy = client[c].busy
                           /\ \/ client'[c].conn = client[c].conn
                              \/ client[c].conn = "up" /\ client'[c].conn = "shut"
  BY <1>2, ClearStep
<1>4. Effect(m)
  BY <1>1, <1>3, ServerEffect
<1>5. Handled(m, DOMAIN roomMap) = {}
  BY <1>1 DEF Create, Ends, Handled
<1> QED
  BY <1>2, <1>3, <1>4, <1>5 DEF Result, m

LEMMA PacketResult ==
    ASSUME ChatInv, msgQueue # <<>>, crash = "none",
           Head(msgQueue).type \in {"LOGIN", "ENTER", "CHAT", "LEAVE"}, Player_PacketProc(Head(msgQueue))
    PROVE  Result(Head(msgQueue))
<1> DEFINE m == Head(msgQueue)
<1>1. CASE m.type = "LOGIN" /\ Request_Player_Login(m.client)
  BY <1>1, LoginResult
<1>2. CASE m.type = "ENTER" /\ Request_Player_EnterRoom_Refuse(m.client)
  BY <1>2, RefuseResult
<1>3. CASE m.type = "ENTER" /\ Request_Player_EnterRoom(m.client, m.room)
  BY <1>3, EnterResult
<1>4. CASE m.type = "CHAT" /\ Request_Player_SendChat(m.client)
  BY <1>4, SendChatResult
<1>5. CASE m.type = "LEAVE" /\ Leave(m.client)
  BY <1>5, LeaveResult
<1> QED
  BY <1>1, <1>2, <1>3, <1>4, <1>5 DEF Player_PacketProc

LEMMA HandleResult ==
    ASSUME ChatInv, msgQueue # <<>>, crash = "none", Handle(Head(msgQueue))
    PROVE  Result(Head(msgQueue))
<1> DEFINE m == Head(msgQueue)
<1>1. CASE m.type = "JOIN" /\ Join(m.client)
  BY <1>1, JoinResult
<1>2. CASE /\ m.type \in {"LOGIN", "ENTER", "CHAT", "LEAVE"}
           /\ IF m.client \in DOMAIN playerMap THEN Player_PacketProc(m) ELSE NoPlayer(m)
  BY <1>2, HeadOf, PacketResult DEF Requests
<1>3. CASE m.type = "CREATE" /\ Request_Server_CreateRoom(m.room)
  BY <1>3, CreateResult
<1>4. CASE m.type = "DELETE" /\ Request_Server_DeleteRoom(m.room)
  BY <1>4, DeleteResult
<1>5. CASE m.type = "TOKEN" /\ Request_Server_ReissueToken
  BY <1>5, TokenResult
<1>6. CASE m.type = "DISCONNECTED" /\ Request_Server_Disconnected
  BY <1>6, DisconnectedResult
<1> QED
  BY <1>1, <1>2, <1>3, <1>4, <1>5, <1>6 DEF Handle

LEMMA Update_MessageThreadKeeps == ASSUME ChatInv, Update_MessageThread PROVE ChatInv'
  BY HandleResult, ThreadStep DEF Update_MessageThread

(* Only the thread's own state changes, or nothing.                         *)
LEMMA OnlyThread ==
    ASSUME ChatInv, thread' \in {"test", "drowsy", "asleep"},
           UNCHANGED <<battleVars, linkVars, chatVars, msgQueue, client, arrived, drops, crash>>
    PROVE  ChatInv'
  BY ClientParts, MapsTypeSame, BattleTypeSame, LinkTypeSame, TypeJoined, ListSame, MirrorSame,
     ChatFrame DEF chatVars, linkVars, QueueType, QueueOK, ClientOK, ClientInv

LEMMA MessageThreadKeeps == ASSUME ChatInv, MessageThread PROVE ChatInv'
  BY Update_MessageThreadKeeps, OnlyThread DEF Update_MessageThread_Empty,
     Update_MessageThread_Sleep, MessageThread

(* No queue holds anything: as at the start and after a restart.            *)
LEMMA NothingQueued ==
    /\ \A X : ~Holds(<<>>, X) /\ HoldsOne(<<>>, X)
    /\ \A X, Y : Ordered(<<>>, X, Y)
    /\ <<>> \in Seq(Message) /\ DOMAIN <<>> = {}
  BY DEF Holds, HoldsOne, Ordered

LEMMA RestartKeeps == ASSUME ChatInv, Restart PROVE ChatInv'
<1>1. /\ drops < MaxDrop /\ drops' = drops + 1 /\ link' = FALSE /\ toChat' = <<>>
      /\ roomMap' = <<>> /\ playerMap' = <<>> /\ connectToken' = FALSE
      /\ msgQueue' = <<>> /\ thread' = "test" /\ crash' = "none" /\ wrong' = {} /\ again' = {}
      /\ client' = [c \in Client |-> [conn |-> IF c <= arrived THEN "gone" ELSE "none",
                                      busy |-> FALSE]]
      /\ UNCHANGED <<battleVars, asked, told, arrived>>
  BY DEF Restart
<1>2. UNCHANGED <<room, curRoomID, auth, game, bLogin, login, peer>>
  BY <1>1 DEF battleVars
<1>3. arrived \in Nat /\ drops \in Nat
  BY ClientParts, Sizes DEF QueueType
<1>4. /\ client' \in [Client -> ClientRec]
      /\ \A c \in Client : /\ client'[c].conn = IF c <= arrived THEN "gone" ELSE "none"
                           /\ client'[c].conn \notin {"up", "shut"}
  BY <1>1 DEF ClientRec
<1>5. TypeOK'
  <2>1. BattleType' /\ LinkType'
    BY <1>1, NothingQueued, ClientParts, BattleTypeSame DEF LinkType
  <2>2. MapsType'
    BY <1>1, <1>4, NothingQueued DEF MapsType
  <2>3. QueueType'
    BY <1>1, <1>3, NothingQueued, ClientParts, Sizes DEF QueueType
  <2> QED
    BY <2>1, <2>2, <2>3, TypeJoined
<1>6. ASSUME NEW c \in Client PROVE QueueOK(c)' /\ ClientOK(c)'
  BY <1>1, NothingQueued, <1>3, <1>4, Sizes DEF QueueOK, ClientOK
<1>7. ClientInv'
  BY <1>1, <1>5, <1>6 DEF ClientInv
<1>8. ListInv'
  BY <1>1, NothingQueued DEF ListInv
<1>9. BattleInv'
  BY <1>2, ClientParts, RoomSame, <1>1, NothingQueued, <1>5 DEF PacketsOK, LinkOK, ToldOK,
     BattleInv
<1>10. MirrorInv'
  BY RoomsNone, <1>1, NothingQueued DEF MirrorInv
<1> QED
  BY <1>7, <1>8, <1>9, <1>10 DEF ChatInv

-----------------------------------------------------------------------------
(* The theorems.                                                            *)
LEMMA ChatInvInit == Init => ChatInv
<1> SUFFICES ASSUME Init PROVE ChatInv
  OBVIOUS
<1>1. /\ room = [s \in Slot |-> [status |-> "Close", roomNo |-> 0]]
      /\ curRoomID = 0 /\ auth = "idle" /\ game = 0
      /\ bLogin = FALSE /\ login = 0 /\ peer = FALSE
      /\ link = FALSE /\ asked = FALSE /\ toChat = <<>>
      /\ roomMap = <<>> /\ playerMap = <<>> /\ connectToken = FALSE
      /\ msgQueue = <<>> /\ thread = "test"
      /\ client = [c \in Client |-> [conn |-> "none", busy |-> FALSE]]
      /\ arrived = 0 /\ drops = 0 /\ crash = "none"
      /\ told = {} /\ wrong = {} /\ again = {}
  BY DEF Init
<1>2. \A s \in Slot : room[s].status = "Close" /\ room[s].roomNo = 0 /\ s # 0
  BY <1>1, Sizes
<1>3. TypeOK
  <2>0. 0 \in 0 .. MaxRoomID /\ 0 \in 0 .. MaxRoom + 1 /\ 0 \in 0 .. MaxClient /\ 0 \in 0 .. MaxDrop
    BY Sizes
  <2>1. BattleType
    BY <1>1, <2>0 DEF SlotRec, Room_Status, BattleType
  <2>2. LinkType /\ QueueType
    BY <1>1, <2>0, NothingQueued DEF LinkType, QueueType
  <2>3. MapsType
    BY <1>1, NothingQueued DEF MapsType, ClientRec
  <2> QED
    BY <2>1, <2>2, <2>3, TypeParts
<1>4. ASSUME NEW c \in Client PROVE QueueOK(c) /\ ClientOK(c)
  BY <1>1, NothingQueued DEF QueueOK, ClientOK
<1>5. ClientInv /\ ListInv
  BY <1>1, <1>3, <1>4, NothingQueued DEF ClientInv, ListInv
<1>6. BattleInv
  BY <1>1, <1>2, NothingQueued, <1>3 DEF RoomOK, LinkOK, PacketsOK, ToldOK, BattleInv
<1>7. MirrorInv
  BY RoomsNone, <1>1, NothingQueued DEF MirrorInv
<1> QED
  BY <1>5, <1>6, <1>7 DEF ChatInv

LEMMA ChatInvStep == ChatInv /\ [Next]_vars => ChatInv'
<1> SUFFICES ASSUME ChatInv, [Next]_vars PROVE ChatInv'
  OBVIOUS
<1>1. CASE Battle
  BY <1>1, BattleKeeps
<1>2. CASE Connect_Chat_LanClient
  BY <1>2, ConnectKeeps
<1>3. CASE Receive_BattleRequest
  BY <1>3, Receive_BattleRequestKeeps
<1>4. CASE OnLeaveServer
  BY <1>4, OnLeaveServerKeeps
<1>5. ASSUME NEW c \in Client, OnClientJoin(c) PROVE ChatInv'
  BY <1>5, OnClientJoinKeeps
<1>6. ASSUME NEW c \in Client, PeerClose(c) PROVE ChatInv'
  BY <1>6, PeerCloseKeeps
<1>7. ASSUME NEW c \in Client, OnClientLeave(c) PROVE ChatInv'
  BY <1>7, OnClientLeaveKeeps
<1>8. ASSUME NEW c \in Client, NEW type \in {"LOGIN", "ENTER", "CHAT"}, NEW no \in RoomID \cup {0},
             OnRecv(c, type, no)
      PROVE  ChatInv'
  BY <1>8, OnRecvKeeps DEF Requests
<1>9. CASE MessageThread
  BY <1>9, MessageThreadKeeps
<1>10. CASE Restart
  BY <1>10, RestartKeeps
<1>11. CASE UNCHANGED vars
  BY <1>11, ClientParts, OnlyThread DEF vars, QueueType
<1> QED
  BY <1>1, <1>2, <1>3, <1>4, <1>5, <1>6, <1>7, <1>8, <1>9, <1>10, <1>11 DEF Next

LEMMA ChatInvAlways == Spec => []ChatInv
  BY ChatInvInit, ChatInvStep, PTL DEF Spec

(* Whatever comes over the connections, in whatever order the links are     *)
(* lost and servers restarted: every packet and every leave in the queue    *)
(* finds its player, so Update_MessageThread never follows a null pointer.  *)
THEOREM PlayersAlwaysKnown == Spec => []PlayersKnown
<1>1. ChatInv => PlayersKnown
  <2> SUFFICES ASSUME ChatInv PROVE PlayersKnown
    OBVIOUS
  <2>1. SUFFICES ASSUME NEW i \in DOMAIN msgQueue,
                        msgQueue[i].type \in {"LOGIN", "ENTER", "CHAT", "LEAVE"}
                 PROVE  /\ \/ msgQueue[i].client \in DOMAIN playerMap
                           \/ \E j \in 1 .. i - 1 : msgQueue[j].type = "JOIN" /\ msgQueue[j].client = msgQueue[i].client
                        /\ ~\E j \in 1 .. i - 1 : msgQueue[j].type = "LEAVE" /\ msgQueue[j].client = msgQueue[i].client
    BY ClientParts DEF PlayersKnown, ClientInv
  <2> DEFINE m == msgQueue[i]
             c == m.client
  <2>2. /\ \A j \in DOMAIN msgQueue : j \in Int /\ msgQueue[j] \in Message
        /\ \A j \in 1 .. i - 1 : j \in DOMAIN msgQueue /\ j < i
        /\ \A j \in DOMAIN msgQueue : j < i => j \in 1 .. i - 1
    BY ClientParts
  <2>3. m \in Message /\ c \in Client
    BY <2>1, <2>2, MessageParts
  <2>4. m \in OfClient(c) /\ m.type # "JOIN"
    BY <2>1, <2>3 DEF OfClient, About, Requests
  <2>5. \A j \in DOMAIN msgQueue :
          /\ msgQueue[j] \in JoinOf(c) <=> msgQueue[j].type = "JOIN" /\ msgQueue[j].client = c
          /\ msgQueue[j].type = "LEAVE" /\ msgQueue[j].client = c => msgQueue[j] \in LeaveOf(c)
    BY <2>2 DEF JoinOf, LeaveOf, About
  <2> HIDE DEF m, c
  <2>6. QueueOK(c)
    BY <2>3, ClientParts
  <2>7. /\ Ordered(msgQueue, JoinOf(c), OfClient(c)) /\ Ordered(msgQueue, OfClient(c), LeaveOf(c))
        /\ c \in DOMAIN playerMap \/ Holds(msgQueue, JoinOf(c))
    BY <2>4, <2>6 DEF QueueOK, Holds, m
  <2>8. ASSUME NEW j \in DOMAIN msgQueue, msgQueue[j] \in JoinOf(c)
        PROVE  j \in 1 .. i - 1 /\ msgQueue[j].type = "JOIN" /\ msgQueue[j].client = c
    BY <2>4, <2>7, <2>8, <2>5, <2>2 DEF Ordered, m
  <2>9. ASSUME NEW j \in 1 .. i - 1 PROVE msgQueue[j] \notin LeaveOf(c)
    BY <2>2, <2>4, <2>7 DEF Ordered, m
  <2>10. c \in DOMAIN playerMap \/ \E j \in 1 .. i - 1 : msgQueue[j].type = "JOIN" /\ msgQueue[j].client = c
    BY <2>7, <2>8 DEF Holds
  <2>11. ~\E j \in 1 .. i - 1 : msgQueue[j].type = "LEAVE" /\ msgQueue[j].client = c
    BY <2>2, <2>5, <2>9
  <2> QED
    BY <2>10, <2>11 DEF c, m
<1> QED
  BY <1>1, ChatInvAlways, PTL

(* The count of a room and its list agree in every state, and every player  *)
(* marked as entered is in the list of its room; the entries are exactly    *)
(* these players, each once, but for clients that entered again while in a  *)
(* room and those with the memory a freed one of them left in a list --     *)
(* however rooms close under their players, links break and rooms are       *)
(* announced again.                                                         *)
THEOREM RoomListsAlwaysExact == Spec => []RoomListsExact
<1>1. ChatInv => RoomListsExact
  BY ClientParts DEF RoomListsExact, ListInv, ListOK, Members, Once
<1> QED
  BY <1>1, ChatInvAlways, PTL

(* As long as the battle server tells of no room twice and of no end of a   *)
(* room it has not told of, the chat server does not crash, will have       *)
(* exactly the rooms it was told of over this link, and these are the rooms *)
(* that wait or play and at most some that have ended -- with threads that  *)
(* open and close rooms, and a worker that goes through the slots, without  *)
(* a lock between them.                                                     *)
THEOREM RoomsAlwaysMirrored == Spec => []RoomsMirrored
<1>1. ChatInv => RoomsMirrored
  BY ClientParts, RoomsJoin DEF RoomsMirrored, MirrorInv, ToldOK, Live
<1> QED
  BY <1>1, ChatInvAlways, PTL

=============================================================================
