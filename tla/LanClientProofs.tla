-------------------------- MODULE LanClientProofs --------------------------
(* For every size of its buffer the ring is a queue of bytes: what is      *)
(* received is appended, what is moved over is removed from the front,     *)
(* wherever the two ends stand and whichever way the pieces wrap.  And for *)
(* every number of threads, links and calls references are counted         *)
(* exactly, packets are sent once, in order, and freed once, and what is   *)
(* received is the link's stream of packets, however it was cut.           *)
EXTENDS LanClient, Queues, FiniteSetTheorems, SequenceTheorems, TLAPS

(* A buffer of one place could hold nothing; the code takes 5000.          *)
Sized == BufferSize \in Nat /\ BufferSize >= 2

(* The bytes in use, in order.                                             *)
Contents(ring) == Peek(ring, GetUsedSize(ring))

(* The place i after place p.                                              *)
After(p, i) == IF p + i < BufferSize THEN p + i ELSE p + i - BufferSize

-----------------------------------------------------------------------------
(* Arithmetic of places.                                                   *)

(* Places are counted modulo the size.                                     *)
LEMMA ModSmall == ASSUME Sized, NEW x \in Nat, x < BufferSize PROVE x % BufferSize = x
  BY SMT DEF Sized

(* The same past the end of the buffer.                                    *)
LEMMA ModWrap == ASSUME Sized, NEW x \in Nat, BufferSize <= x, x < 2 * BufferSize
                 PROVE x % BufferSize = x - BufferSize
  BY SMT DEF Sized

(* The code's index arithmetic is that of After.                           *)
LEMMA AfterMod == ASSUME Sized, NEW p \in Place, NEW i \in 0 .. BufferSize - 1
                  PROVE (p + i) % BufferSize = After(p, i) /\ After(p, i) \in Place
  BY ModSmall, ModWrap, SMT DEF Sized, Place, After

(* Places after places.                                                    *)
LEMMA AfterAfter == ASSUME Sized, NEW p \in Place, NEW i \in Nat, NEW j \in Nat, i + j < BufferSize
                    PROVE  After(After(p, i), j) = After(p, i + j)
  BY SMT DEF Sized, Place, After

(* Offsets below the size give different places.                           *)
LEMMA AfterDistinct == ASSUME Sized, NEW p \in Place, NEW i \in Nat, NEW j \in Nat,
                              i < BufferSize, j < BufferSize, After(p, i) = After(p, j)
                       PROVE  i = j
  BY SMT DEF Sized, Place, After

(* The used and the free places are all but one. (GetUsedSize,             *)
(* GetEmptySize)                                                           *)
THEOREM Sizes ==
    ASSUME Sized, NEW ring \in Ring
    PROVE  /\ GetUsedSize(ring) \in Nat /\ GetEmptySize(ring) \in Nat
           /\ GetUsedSize(ring) + GetEmptySize(ring) = BufferSize - 1
  BY SMT DEF Sized, Ring, Place, GetUsedSize, GetEmptySize

(* The last used place.                                                    *)
LEMMA RearAfterFront ==
    ASSUME Sized, NEW ring \in Ring
    PROVE  ring.rear = After(ring.front, GetUsedSize(ring))
  BY SMT DEF Sized, Ring, Place, GetUsedSize, After

(* The free places follow it.                                              *)
LEMMA AfterRear ==
    ASSUME Sized, NEW ring \in Ring, NEW k \in Nat, GetUsedSize(ring) + k < BufferSize
    PROVE  After(ring.rear, k) = After(ring.front, GetUsedSize(ring) + k)
  BY Sizes, RearAfterFront, AfterAfter DEF Ring

(* The two pieces a reader takes are the used places in order.             *)
LEMMA ReadPlaces ==
    ASSUME Sized, NEW ring \in Ring, NEW i \in 1 .. GetUsedSize(ring)
    PROVE  ReadPlace(ring, i) = After(ring.front, i)
  <1>1. GetReadptr(ring) = After(ring.front, 1)
    BY AfterMod, SMT DEF GetReadptr, Ring, Sized, Place
  <1>2. QED
    BY <1>1, SMT DEF Sized, ReadPlace, GetConstantReadSize, GetUsedSize, Ring, Place, After

(* The two pieces a writer fills are the free places in order.             *)
LEMMA WritePlaces ==
    ASSUME Sized, NEW ring \in Ring, NEW i \in 1 .. GetEmptySize(ring)
    PROVE  WritePlace(ring, i) = After(ring.rear, i)
  <1>1. GetWriteptr(ring) = After(ring.rear, 1)
    BY AfterMod, SMT DEF GetWriteptr, Ring, Sized, Place
  <1>2. QED
    BY <1>1, SMT DEF Sized, WritePlace, GetConstantWriteSize, GetEmptySize, Ring, Place, After

(* The contents, byte by byte.                                             *)
LEMMA ContentsIs ==
    ASSUME Sized, NEW ring \in Ring
    PROVE  /\ Contents(ring) \in Seq(Byte)
           /\ Len(Contents(ring)) = GetUsedSize(ring)
           /\ \A i \in 1 .. GetUsedSize(ring) : Contents(ring)[i] = ring.buf[After(ring.front, i)]
  <1> DEFINE used == GetUsedSize(ring)
  <1>1. used \in Nat /\ used < BufferSize
    BY Sizes, SMT DEF Sized
  <1>2. Contents(ring) = [i \in 1 .. used |-> ring.buf[ReadPlace(ring, i)]]
    BY <1>1, SMT DEF Contents, Peek
  <1>3. \A i \in 1 .. used : ring.buf[ReadPlace(ring, i)] = ring.buf[After(ring.front, i)]
    BY ReadPlaces
  <1>4. \A i \in 1 .. used : After(ring.front, i) \in Place
    BY <1>1, AfterMod, SMT DEF Ring, Sized
  <1>5. \A i \in 1 .. used : ring.buf[ReadPlace(ring, i)] \in Byte
    BY <1>3, <1>4 DEF Ring
  <1> HIDE DEF used
  <1>6. Contents(ring) \in Seq(Byte) /\ Len(Contents(ring)) = used
    BY <1>1, <1>2, <1>5, SMT
  <1>7. \A i \in 1 .. used : Contents(ring)[i] = ring.buf[ReadPlace(ring, i)]
    BY <1>2
  <1>8. \A i \in 1 .. used : Contents(ring)[i] = ring.buf[After(ring.front, i)]
    BY <1>3, <1>7
  <1>9. QED
    BY <1>6, <1>8 DEF used

-----------------------------------------------------------------------------
(* Removing.                                                               *)

(* Moving the front over n bytes removes the first n. (MoveFrontforDelete) *)
THEOREM RemovesFirst ==
    ASSUME Sized, NEW ring \in Ring, NEW n \in 0 .. GetUsedSize(ring)
    PROVE  LET moved == MoveFrontforDelete(ring, n)
           IN  /\ moved \in Ring
               /\ Contents(moved) = SubSeq(Contents(ring), n + 1, GetUsedSize(ring))
  <1> DEFINE moved == MoveFrontforDelete(ring, n)
             used  == GetUsedSize(ring)
             rest  == SubSeq(Contents(ring), n + 1, used)
  <1>0. used \in Nat /\ used < BufferSize /\ n \in Nat /\ n <= used
    BY Sizes, SMT DEF Sized
  <1>1. moved = [ring EXCEPT !.front = After(ring.front, n)] /\ After(ring.front, n) \in Place
    BY <1>0, AfterMod, SMT DEF MoveFrontforDelete, Ring, Sized
  <1>2. /\ moved \in Ring /\ moved.front = After(ring.front, n)
        /\ moved.rear = ring.rear /\ moved.buf = ring.buf
    BY <1>1 DEF Ring
  <1>3. GetUsedSize(moved) = used - n
    BY <1>0, <1>2, RearAfterFront, SMT DEF Sized, Ring, Place, GetUsedSize, After
  <1>4. ASSUME NEW i \in 1 .. used - n
        PROVE  After(moved.front, i) = After(ring.front, n + i)
    BY <1>0, <1>2, SMT DEF Sized, Ring, Place, After
  <1>5. /\ Contents(ring) \in Seq(Byte) /\ Len(Contents(ring)) = used
        /\ \A i \in 1 .. used : Contents(ring)[i] = ring.buf[After(ring.front, i)]
    BY ContentsIs
  <1>6. /\ Contents(moved) \in Seq(Byte) /\ Len(Contents(moved)) = used - n
        /\ \A i \in 1 .. used - n : Contents(moved)[i] = ring.buf[After(moved.front, i)]
    BY <1>2, <1>3, ContentsIs
  <1> HIDE DEF moved, used
  <1>7. /\ rest \in Seq(Byte) /\ Len(rest) = used - n
        /\ \A i \in 1 .. used - n : rest[i] = Contents(ring)[n + i]
    BY <1>0, <1>5, SMT
  <1>8. ASSUME NEW i \in 1 .. used - n PROVE Contents(moved)[i] = rest[i]
    BY <1>0, <1>5, <1>7, <1>4, <1>6
  <1> HIDE DEF rest
  <1>9. Contents(moved) = rest
    BY <1>6, <1>7, <1>8, SeqEqual
  <1>10. QED
    BY <1>2, <1>9 DEF moved, used, rest

-----------------------------------------------------------------------------
(* Receiving.                                                              *)

(* A write of bytes that fit fills the free places in order and misses     *)
(* those in use.                                                           *)
LEMMA WriteIs ==
    ASSUME Sized, NEW ring \in Ring, NEW bytes \in Seq(Byte), Len(bytes) <= GetEmptySize(ring)
    PROVE  LET written == Write(ring, bytes)
           IN  /\ written \in Ring /\ written.front = ring.front /\ written.rear = ring.rear
               /\ \A k \in 1 .. Len(bytes) : written.buf[After(ring.rear, k)] = bytes[k]
               /\ \A i \in 1 .. GetUsedSize(ring) :
                     written.buf[After(ring.front, i)] = ring.buf[After(ring.front, i)]
  <1> DEFINE written == Write(ring, bytes)
             n       == Len(bytes)
             used    == GetUsedSize(ring)
             Hit(i, p) == WritePlace(ring, i) = p
             new(p)  == IF \E i \in DOMAIN bytes : Hit(i, p)
                        THEN bytes[CHOOSE i \in DOMAIN bytes : Hit(i, p)]
                        ELSE ring.buf[p]
  <1>1. /\ n \in Nat /\ used \in Nat /\ used + n < BufferSize
        /\ DOMAIN bytes = 1 .. n
    BY Sizes, SMT DEF Sized
  <1>2. \A i \in 1 .. n : Hit(i, After(ring.rear, i)) /\ WritePlace(ring, i) = After(ring.rear, i)
    BY <1>1, WritePlaces, Sizes, SMT
  <1>3. written = [ring EXCEPT !.buf = [p \in Place |-> new(p)]]
    BY DEF Write, Ring
  <1>4. \A p \in Place : new(p) \in Byte
    BY ElementOfSeq, <1>1 DEF Ring
  <1>5. /\ written \in Ring /\ written.front = ring.front /\ written.rear = ring.rear
        /\ \A p \in Place : written.buf[p] = new(p)
    BY <1>3, <1>4 DEF Ring
  <1>6. ASSUME NEW k \in 1 .. n PROVE written.buf[After(ring.rear, k)] = bytes[k]
    <2>1. After(ring.rear, k) \in Place
      BY <1>1, AfterMod, SMT DEF Ring, Sized
    <2>2. \A i \in 1 .. n : After(ring.rear, i) = After(ring.rear, k) => i = k
      BY <1>1, SMT DEF Ring, Place, After, Sized
    <2>3. \A i \in DOMAIN bytes : Hit(i, After(ring.rear, k)) => i = k
      BY <1>1, <1>2, <2>2
    <2>4. (CHOOSE i \in DOMAIN bytes : Hit(i, After(ring.rear, k))) = k
      BY <1>1, <1>2, <2>3
    <2>5. QED
      BY <1>1, <1>2, <1>5, <2>1, <2>4
  <1>7. ASSUME NEW i \in 1 .. used
        PROVE  written.buf[After(ring.front, i)] = ring.buf[After(ring.front, i)]
    <2>1. After(ring.front, i) \in Place
      BY <1>1, AfterMod, SMT DEF Ring, Sized
    <2>2. \A k \in 1 .. n : After(ring.rear, k) # After(ring.front, i)
      BY <1>1, AfterRear, AfterDistinct DEF Sized, Ring
    <2>3. ~ \E k \in DOMAIN bytes : Hit(k, After(ring.front, i))
      BY <1>1, <1>2, <2>2
    <2>4. QED
      BY <1>5, <2>1, <2>3
  <1>8. QED
    BY <1>5, <1>6, <1>7

(* Bytes that fit are appended to those in use, whichever pieces they      *)
(* arrive in, and change none of them. (recv_post, MoveRearforSave)        *)
THEOREM ReceiveAppends ==
    ASSUME Sized, NEW ring \in Ring, NEW bytes \in Seq(Byte), Len(bytes) <= GetEmptySize(ring)
    PROVE  LET grown == MoveRearforSave(Write(ring, bytes), Len(bytes))
           IN  /\ grown \in Ring
               /\ Contents(grown) = Contents(ring) \o bytes
  <1> DEFINE written  == Write(ring, bytes)
             n        == Len(bytes)
             used     == GetUsedSize(ring)
             grown == MoveRearforSave(written, n)
             all      == Contents(ring) \o bytes
  <1>1. n \in Nat /\ used \in Nat /\ used + n < BufferSize
    BY Sizes, SMT DEF Sized
  <1>2. /\ written \in Ring /\ written.front = ring.front /\ written.rear = ring.rear
        /\ \A k \in 1 .. n : written.buf[After(ring.rear, k)] = bytes[k]
        /\ \A i \in 1 .. used : written.buf[After(ring.front, i)] = ring.buf[After(ring.front, i)]
    BY WriteIs
  <1> HIDE DEF written
  <1>3. grown = [written EXCEPT !.rear = After(ring.rear, n)] /\ After(ring.rear, n) \in Place
    BY <1>1, <1>2, AfterMod, SMT DEF MoveRearforSave, Ring, Sized
  <1>4. /\ grown \in Ring /\ grown.front = ring.front
        /\ grown.rear = After(ring.rear, n) /\ grown.buf = written.buf
    BY <1>2, <1>3 DEF Ring
  <1>5. GetUsedSize(grown) = used + n
    <2>1. grown.rear = After(ring.front, used + n)
      BY <1>1, <1>4, RearAfterFront, AfterAfter, SMT DEF Ring
    <2>2. grown.rear = After(ring.front, GetUsedSize(grown))
      BY <1>4, RearAfterFront
    <2>3. GetUsedSize(grown) \in Nat /\ GetUsedSize(grown) < BufferSize
      BY <1>4, Sizes, SMT DEF Sized
    <2>4. QED
      BY <1>1, <2>1, <2>2, <2>3, AfterDistinct, SMT DEF Ring
  <1>6. /\ Contents(grown) \in Seq(Byte) /\ Len(Contents(grown)) = used + n
        /\ \A i \in 1 .. used + n : Contents(grown)[i] = written.buf[After(ring.front, i)]
    BY <1>4, <1>5, ContentsIs
  <1>7. /\ Contents(ring) \in Seq(Byte) /\ Len(Contents(ring)) = used
        /\ \A i \in 1 .. used : Contents(ring)[i] = ring.buf[After(ring.front, i)]
    BY ContentsIs
  <1>8. \A k \in 1 .. n : After(ring.front, used + k) = After(ring.rear, k)
    BY <1>1, AfterRear DEF Sized
  <1> HIDE DEF grown, used, n
  <1>9. /\ all \in Seq(Byte) /\ Len(all) = used + n
        /\ \A i \in 1 .. used + n :
              all[i] = IF i <= used THEN Contents(ring)[i] ELSE bytes[i - used]
    BY <1>7, ConcatProperties DEF n
  <1> HIDE DEF all
  <1>10. ASSUME NEW i \in 1 .. used + n PROVE Contents(grown)[i] = all[i]
    <2>1. CASE i <= used
      BY <1>1, <2>1, <1>2, <1>6, <1>7, <1>9
    <2>2. CASE ~ (i <= used)
      <3> DEFINE k == i - used
      <3>1. k \in 1 .. n /\ used + k = i
        BY <1>1, <2>2, SMT
      <3> HIDE DEF k
      <3>2. written.buf[After(ring.front, i)] = bytes[k]
        BY <1>2, <1>8, <3>1
      <3>3. QED
        BY <1>6, <1>9, <2>2, <3>2 DEF k
    <2>3. QED
      BY <2>1, <2>2
  <1>11. Contents(grown) = all
    BY <1>6, <1>9, <1>10, SeqEqual
  <1>12. QED
    BY <1>4, <1>11 DEF grown, all, written, n

-----------------------------------------------------------------------------
(* Programs.                                                               *)

(* What is left of a short program after its first step.                   *)
LEMMA TailIs ==
    ASSUME NEW a, NEW b, NEW c, NEW d
    PROVE  /\ Tail(<<a>>) = <<>>
           /\ Tail(<<a, b>>) = <<b>>
           /\ Tail(<<a, b, c>>) = <<b, c>>
           /\ Tail(<<a, b, c, d>>) = <<b, c, d>>
  OBVIOUS

(* Two short sequences joined, element by element.                         *)
LEMMA JoinOneOne == ASSUME NEW a, NEW b PROVE <<a>> \o <<b>> = <<a, b>>
<1> DEFINE u == <<a>> \o <<b>>
           S == {a, b}
<1>1. u \in Seq(S) /\ Len(u) = 2 /\ u[1] = a /\ u[2] = b
  OBVIOUS
<1>2. \A v \in Seq(S) : Len(v) = 2 /\ v[1] = a /\ v[2] = b => v = <<a, b>>
  OBVIOUS
<1> QED BY <1>1, <1>2

(* The same of two and one.                                                *)
LEMMA JoinTwoOne == ASSUME NEW a, NEW b, NEW c PROVE <<a, b>> \o <<c>> = <<a, b, c>>
<1> DEFINE u == <<a, b>> \o <<c>>
           S == {a, b, c}
<1>1. u \in Seq(S) /\ Len(u) = 3 /\ u[1] = a /\ u[2] = b /\ u[3] = c
  OBVIOUS
<1>2. \A v \in Seq(S) : Len(v) = 3 /\ v[1] = a /\ v[2] = b /\ v[3] = c => v = <<a, b, c>>
  OBVIOUS
<1> QED BY <1>1, <1>2

(* The same of three and one.                                              *)
LEMMA JoinThreeOne ==
    ASSUME NEW a, NEW b, NEW c, NEW d PROVE <<a, b, c>> \o <<d>> = <<a, b, c, d>>
<1> DEFINE u == <<a, b, c>> \o <<d>>
           S == {a, b, c, d}
<1>1. u \in Seq(S) /\ Len(u) = 4 /\ u[1] = a /\ u[2] = b /\ u[3] = c /\ u[4] = d
  OBVIOUS
<1>2. \A v \in Seq(S) : Len(v) = 4 /\ v[1] = a /\ v[2] = b /\ v[3] = c /\ v[4] = d
                          => v = <<a, b, c, d>>
  OBVIOUS
<1> QED BY <1>1, <1>2

(* Nothing added before or after.                                          *)
LEMMA JoinNone ==
    /\ \A a : <<a>> \o <<>> = <<a>> /\ <<>> \o <<a>> = <<a>>
    /\ \A a, b : <<a, b>> \o <<>> = <<a, b>> /\ <<>> \o <<a, b>> = <<a, b>>
    /\ \A a, b, c : <<a, b, c>> \o <<>> = <<a, b, c>> /\ <<>> \o <<a, b, c>> = <<a, b, c>>
    /\ <<>> \o <<>> = <<>>
  OBVIOUS

-----------------------------------------------------------------------------
(* What a thread has left to do.                                           *)

(* Steps of send_post and recv_post, and those at which a reference is     *)
(* held for what is to be posted.                                          *)
SendSteps == {"send_post", "claimed", "giveup", "post", "WSASend", "unsend"}
RecvSteps == {"recv_post", "WSARecv", "unrecv"}
PostSteps == {"WSASend", "WSARecv", "unsend", "unrecv"}

(* What is left to do of ReleaseSession, for the monitor thread with the   *)
(* login packet behind it (EndProgram).                                    *)
ReleaseProgram == {<<"release">>, <<"free", "reset", "off">>, <<"reset", "off">>, <<"off">>}
EndProgram ==
    {<<"release", "SendPacket">>, <<"free", "reset", "off", "SendPacket">>,
     <<"reset", "off", "SendPacket">>, <<"off", "SendPacket">>}

(* A worker with a completion; somebody in SendPacket; the monitor thread  *)
(* in Connect.                                                             *)
WorkerProgram ==
    {<<>>, <<"dec">>, <<"sent", "send_post", "dec">>} \cup ReleaseProgram
    \cup {<<x, "dec">> : x \in SendSteps \cup RecvSteps \cup {"packet", "sent"}}
CallProgram ==
    {<<>>, <<"SendPacket">>, <<"enqueue", "send_post">>, <<"sent">>, <<"sent", "release">>}
    \cup ReleaseProgram \cup {<<x>> : x \in SendSteps}
SetupProgram ==
    {<<"free", "reset", "connect">>, <<"reset", "connect">>, <<"connect">>,
     <<"connected", "bind", "recv_post", "SendPacket">>, <<"bind", "recv_post", "SendPacket">>}
    \cup {<<x, "SendPacket">> : x \in RecvSteps}

Program(t) == IF t \in Worker THEN WorkerProgram
              ELSE IF t \in Caller THEN CallProgram
              ELSE CallProgram \cup SetupProgram \cup EndProgram

ProgramsOK == DOMAIN thread = Thread /\ \A t \in Thread : thread[t] \in Program(t)

(* The first step of a program; who holds a reference for what it posts,   *)
(* or for the completion it has; who ends a link; who is at nothing.       *)
HeadIs(p, x) == p /= <<>> /\ Head(p) = x

Post(p)  == p /= <<>> /\ Head(p) \in PostSteps
Dec(p)   == "dec" \in ToSet(p)
Rel(p)   == p \in ReleaseProgram \cup EndProgram \cup {<<"sent", "release">>}
Waits(p) == p \in {<<>>, <<"SendPacket">>}

(* In the middle of a send; when it is done.                               *)
Sends(t, x) == IF t \in Worker THEN <<x, "dec">> ELSE <<x>>
SendEnds(t) == IF t \in Worker THEN <<"dec">> ELSE <<>>
(* The same of a receive.                                                  *)
Recvs(t, x) == IF t \in Worker THEN <<x, "dec">> ELSE <<x, "SendPacket">>
RecvEnds(t) == IF t \in Worker THEN <<"dec">> ELSE <<"SendPacket">>

(* Whether a short program still gives up the reference of a completion.   *)
LEMMA DecIs ==
    /\ ~Dec(<<>>)
    /\ \A a : Dec(<<a>>) <=> a = "dec"
    /\ \A a, b : Dec(<<a, b>>) <=> a = "dec" \/ b = "dec"
    /\ \A a, b, c : Dec(<<a, b, c>>) <=> a = "dec" \/ b = "dec" \/ c = "dec"
    /\ \A a, b, c, d : Dec(<<a, b, c, d>>) <=> a = "dec" \/ b = "dec" \/ c = "dec" \/ d = "dec"
  BY DEF Dec, ToSet

(* A thread in the middle of a send: its program is one it may have, it    *)
(* holds what it posts, and it neither ends a link nor begins one.         *)
LEMMA SendsKind ==
    ASSUME LanClientAssumption, NEW t \in Thread, NEW x \in SendSteps \cup {"sent"}
    PROVE  LET p == Sends(t, x)
           IN  /\ p \in Program(t) /\ HeadIs(p, x)
               /\ Dec(p) <=> t \in Worker
               /\ Post(p) <=> x \in {"WSASend", "unsend"}
               /\ ~Rel(p) /\ ~Waits(p) /\ p \notin SetupProgram
<1>1. CASE t \in Worker
  <2> DEFINE p == <<x, "dec">>
  <2>1. Sends(t, x) = p
    BY <1>1 DEF Sends
  <2>2. p \in Program(t)
    BY <1>1 DEF Program, WorkerProgram
  <2>3. Dec(p)
    BY DecIs
  <2>4. HeadIs(p, x) /\ ~Waits(p)
    BY DEF HeadIs, Waits
  <2>5. Post(p) <=> x \in {"WSASend", "unsend"}
    BY DEF Post, PostSteps, SendSteps
  <2>6. ~Rel(p)
    BY DEF Rel, ReleaseProgram, EndProgram, SendSteps
  <2>7. p \notin SetupProgram
    BY DEF SetupProgram, SendSteps
  <2> HIDE DEF p
  <2> QED
    BY <1>1, <2>1, <2>2, <2>3, <2>4, <2>5, <2>6, <2>7
<1>2. CASE t \notin Worker
  <2> DEFINE p == <<x>>
  <2>1. Sends(t, x) = p
    BY <1>2 DEF Sends
  <2>2. p \in Program(t)
    BY <1>2 DEF Program, CallProgram
  <2>3. ~Dec(p)
    BY DecIs DEF SendSteps
  <2>4. HeadIs(p, x) /\ ~Waits(p)
    BY DEF HeadIs, Waits, SendSteps
  <2>5. Post(p) <=> x \in {"WSASend", "unsend"}
    BY DEF Post, PostSteps, SendSteps
  <2>6. ~Rel(p)
    BY DEF Rel, ReleaseProgram, EndProgram, SendSteps
  <2>7. p \notin SetupProgram
    BY DEF SetupProgram, SendSteps
  <2> HIDE DEF p
  <2> QED
    BY <1>2, <2>1, <2>2, <2>3, <2>4, <2>5, <2>6, <2>7
<1> QED
  BY <1>1, <1>2

(* The same once its send is done.                                         *)
LEMMA SendEndsKind ==
    ASSUME LanClientAssumption, NEW t \in Thread
    PROVE  LET p == SendEnds(t)
           IN  /\ p \in Program(t) /\ (p /= <<>> => Head(p) = "dec")
               /\ Dec(p) <=> t \in Worker
               /\ ~Post(p) /\ ~Rel(p) /\ p \notin SetupProgram
<1>1. CASE t \in Worker
  BY DecIs, <1>1 DEF WorkerProgram, Post, PostSteps, Rel, ReleaseProgram, EndProgram, SetupProgram,
     SendEnds, Program
<1>2. CASE t \notin Worker
  BY <1>2, DecIs DEF CallProgram, Post, PostSteps, Rel, ReleaseProgram, EndProgram, SetupProgram,
     SendEnds, Program
<1> QED
  BY <1>1, <1>2

(* A thread in the middle of posting a receive: a worker, or the monitor   *)
(* thread at the end of Connect.                                           *)
LEMMA RecvsKind ==
    ASSUME LanClientAssumption, NEW t \in Worker \cup {monitor}, NEW x \in RecvSteps
    PROVE  LET p == Recvs(t, x)
           IN  /\ p \in Program(t) /\ HeadIs(p, x)
               /\ Dec(p) <=> t \in Worker
               /\ Post(p) <=> x \in {"WSARecv", "unrecv"}
               /\ ~Rel(p) /\ ~Waits(p) /\ (p \in SetupProgram <=> t = monitor)
<1>0. monitor \notin Worker \cup Caller
  BY DEF LanClientAssumption
<1>1. CASE t \in Worker
  <2> DEFINE p == <<x, "dec">>
  <2>1. Recvs(t, x) = p
    BY <1>1 DEF Recvs
  <2>2. p \in Program(t)
    BY <1>1 DEF Program, WorkerProgram
  <2>3. Dec(p)
    BY DecIs
  <2>4. HeadIs(p, x) /\ ~Waits(p)
    BY DEF HeadIs, Waits
  <2>5. Post(p) <=> x \in {"WSARecv", "unrecv"}
    BY DEF Post, PostSteps, RecvSteps
  <2>6. ~Rel(p)
    BY DEF Rel, ReleaseProgram, EndProgram, RecvSteps
  <2>7. p \notin SetupProgram
    BY DEF SetupProgram, RecvSteps
  <2> HIDE DEF p
  <2> QED
    BY <1>0, <1>1, <2>1, <2>2, <2>3, <2>4, <2>5, <2>6, <2>7
<1>2. CASE t = monitor
  <2> DEFINE p == <<x, "SendPacket">>
  <2>1. Recvs(t, x) = p
    BY <1>0, <1>2 DEF Recvs
  <2>2. p \in SetupProgram
    BY DEF SetupProgram
  <2>3. p \in Program(t)
    BY <1>0, <1>2, <2>2 DEF Program
  <2>4. ~Dec(p)
    BY DecIs DEF RecvSteps
  <2>5. HeadIs(p, x) /\ ~Waits(p)
    BY DEF HeadIs, Waits, RecvSteps
  <2>6. Post(p) <=> x \in {"WSARecv", "unrecv"}
    BY DEF Post, PostSteps, RecvSteps
  <2>7. ~Rel(p)
    BY DEF Rel, ReleaseProgram, EndProgram, RecvSteps
  <2> HIDE DEF p
  <2> QED
    BY <1>0, <1>2, <2>1, <2>2, <2>3, <2>4, <2>5, <2>6, <2>7
<1> QED
  BY <1>1, <1>2

(* The same once the receive is posted.                                    *)
LEMMA RecvEndsKind ==
    ASSUME LanClientAssumption, NEW t \in Worker \cup {monitor}
    PROVE  LET p == RecvEnds(t)
           IN  /\ p \in Program(t) /\ p /= <<>> /\ Head(p) \in {"dec", "SendPacket"}
               /\ Dec(p) <=> t \in Worker
               /\ ~Post(p) /\ ~Rel(p) /\ p \notin SetupProgram
<1>0. monitor \notin Worker \cup Caller
  BY DEF LanClientAssumption
<1>1. CASE t \in Worker
  BY <1>1, SendEndsKind DEF RecvEnds, SendEnds, Thread
<1>2. CASE t = monitor
  BY DecIs, <1>0, <1>2 DEF CallProgram, Post, PostSteps, Rel, ReleaseProgram, EndProgram,
     SetupProgram, RecvEnds, Program
<1> QED
  BY <1>1, <1>2

-----------------------------------------------------------------------------
(* From step to step.                                                      *)

(* Only thread t does something.                                           *)
OneThread(t) == DOMAIN thread' = Thread /\ \A u \in Thread \ {t} : thread'[u] = thread[u]

(* A step that replaces the first step of one program.                     *)
LEMMA ThenIs ==
    ASSUME DOMAIN thread = Thread, NEW t \in Thread, NEW s, Then(t, s)
    PROVE  OneThread(t) /\ thread'[t] = s \o Tail(thread[t])
  BY DEF OneThread, Then

(* Who is at a step of send_post, and what is left after it.               *)
LEMMA AtSend ==
    ASSUME NEW t \in Thread, thread[t] \in Program(t), NEW x \in SendSteps, At(t, x)
    PROVE  thread[t] = Sends(t, x) /\ Tail(thread[t]) = SendEnds(t)
<1>1. CASE t \in Worker
  <2>1. thread[t] = <<x, "dec">>
    BY <1>1 DEF At, Program, WorkerProgram, CallProgram, SetupProgram, EndProgram, ReleaseProgram, SendSteps, RecvSteps
  <2> QED
    BY <1>1, <2>1, TailIs DEF Sends, SendEnds
<1>2. CASE t \notin Worker
  <2>1. thread[t] = <<x>>
    BY <1>2 DEF At, Program, WorkerProgram, CallProgram, SetupProgram, EndProgram, ReleaseProgram, SendSteps, RecvSteps
  <2> QED
    BY <1>2, <2>1, TailIs DEF Sends, SendEnds
<1> QED
  BY <1>1, <1>2

(* send_post goes on, or is done.                                          *)
LEMMA SendThen ==
    ASSUME DOMAIN thread = Thread, NEW t \in Thread, Tail(thread[t]) = SendEnds(t)
    PROVE  /\ \A y : Then(t, <<y>>) => OneThread(t) /\ thread'[t] = Sends(t, y)
           /\ Done(t) => OneThread(t) /\ thread'[t] = SendEnds(t)
<1>1. ASSUME NEW y, Then(t, <<y>>) PROVE OneThread(t) /\ thread'[t] = Sends(t, y)
  <2>1. OneThread(t) /\ thread'[t] = <<y>> \o SendEnds(t)
    BY <1>1, ThenIs
  <2>2. <<y>> \o <<"dec">> = <<y, "dec">>
    BY JoinOneOne
  <2>3. <<y>> \o <<>> = <<y>>
    BY JoinNone
  <2> QED
    BY <2>1, <2>2, <2>3 DEF Sends, SendEnds
<1>2. ASSUME Done(t) PROVE OneThread(t) /\ thread'[t] = SendEnds(t)
  BY <1>2, ThenIs, JoinNone DEF Done, SendEnds
<1> QED
  BY <1>1, <1>2

(* Who is at send_complete: a send has failed, or a worker has the         *)
(* completion of one.                                                      *)
LEMMA AtSent ==
    ASSUME DOMAIN thread = Thread, NEW t \in Thread, thread[t] \in Program(t), At(t, "sent"), Done(t)
    PROVE  /\ OneThread(t)
           /\ \/ thread[t] = Sends(t, "sent") /\ thread'[t] = SendEnds(t)
              \/ /\ t \in Worker
                 /\ thread[t] = <<"sent", "send_post", "dec">> /\ thread'[t] = Sends(t, "send_post")
              \/ /\ t \notin Worker
                 /\ thread[t] = <<"sent", "release">> /\ thread'[t] = <<"release">>
<1>0. OneThread(t) /\ thread'[t] = <<>> \o Tail(thread[t])
  BY ThenIs DEF Done
<1>1. CASE t \in Worker
  <2>1. thread[t] = <<"sent", "send_post", "dec">> \/ thread[t] = <<"sent", "dec">>
    BY <1>1 DEF At, Program, WorkerProgram, CallProgram, SetupProgram, EndProgram, ReleaseProgram, SendSteps, RecvSteps
  <2>2. CASE thread[t] = <<"sent", "send_post", "dec">>
    BY <1>0, <1>1, <2>2, TailIs, JoinNone DEF Sends
  <2>3. CASE thread[t] = <<"sent", "dec">>
    BY <1>0, <1>1, <2>3, TailIs, JoinNone DEF Sends, SendEnds
  <2> QED
    BY <2>1, <2>2, <2>3
<1>2. CASE t \notin Worker
  <2>1. thread[t] = <<"sent">> \/ thread[t] = <<"sent", "release">>
    BY <1>2 DEF At, Program, WorkerProgram, CallProgram, SetupProgram, EndProgram, ReleaseProgram, SendSteps, RecvSteps
  <2>2. CASE thread[t] = <<"sent">>
    BY <1>0, <1>2, <2>2, TailIs, JoinNone DEF Sends, SendEnds
  <2>3. CASE thread[t] = <<"sent", "release">>
    BY <1>0, <1>2, <2>3, TailIs, JoinNone
  <2> QED
    BY <2>1, <2>2, <2>3
<1> QED
  BY <1>1, <1>2

(* Who is at a step of recv_post, and what is left after it.               *)
LEMMA AtRecv ==
    ASSUME LanClientAssumption, NEW t \in Thread, thread[t] \in Program(t),
           NEW x \in RecvSteps, At(t, x)
    PROVE  /\ t \in Worker \cup {monitor}
           /\ thread[t] = Recvs(t, x) /\ Tail(thread[t]) = RecvEnds(t)
<1>1. CASE t \in Worker
  <2>1. thread[t] = <<x, "dec">>
    BY <1>1 DEF At, Program, WorkerProgram, CallProgram, SetupProgram, EndProgram, ReleaseProgram, SendSteps, RecvSteps
  <2> QED
    BY <1>1, <2>1, TailIs DEF Recvs, RecvEnds
<1>2. CASE t \notin Worker
  <2>1. thread[t] = <<x, "SendPacket">> /\ t \notin Caller
    BY <1>2 DEF At, Program, WorkerProgram, CallProgram, SetupProgram, EndProgram, ReleaseProgram, SendSteps, RecvSteps
  <2> QED
    BY <1>2, <2>1, TailIs DEF Recvs, RecvEnds, Thread
<1> QED
  BY <1>1, <1>2

(* recv_post goes on, or is done.                                          *)
LEMMA RecvThen ==
    ASSUME DOMAIN thread = Thread, NEW t \in Thread, Tail(thread[t]) = RecvEnds(t)
    PROVE  /\ \A y : Then(t, <<y>>) => OneThread(t) /\ thread'[t] = Recvs(t, y)
           /\ Done(t) => OneThread(t) /\ thread'[t] = RecvEnds(t)
<1>1. ASSUME NEW y, Then(t, <<y>>) PROVE OneThread(t) /\ thread'[t] = Recvs(t, y)
  BY <1>1, ThenIs, JoinOneOne DEF Recvs, RecvEnds
<1>2. ASSUME Done(t) PROVE OneThread(t) /\ thread'[t] = RecvEnds(t)
  BY <1>2, ThenIs, JoinNone DEF Done, RecvEnds
<1> QED
  BY <1>1, <1>2

(* recv_complete is a worker's.                                            *)
LEMMA AtPacket ==
    ASSUME DOMAIN thread = Thread, NEW t \in Thread, thread[t] \in Program(t), At(t, "packet")
    PROVE  /\ t \in Worker /\ thread[t] = <<"packet", "dec">>
           /\ Then(t, <<"recv_post">>) => OneThread(t) /\ thread'[t] = Recvs(t, "recv_post")
           /\ Done(t) => OneThread(t) /\ thread'[t] = RecvEnds(t)
<1>1. t \in Worker /\ thread[t] = <<"packet", "dec">>
  BY DEF At, Program, WorkerProgram, CallProgram, SetupProgram, EndProgram, ReleaseProgram, SendSteps, RecvSteps
<1>2. Tail(thread[t]) = RecvEnds(t)
  BY <1>1, TailIs DEF RecvEnds
<1> QED
  BY <1>1, <1>2, RecvThen

(* The last step of a completion is a worker's.                            *)
LEMMA AtDec ==
    ASSUME NEW t \in Thread, thread[t] \in Program(t), At(t, "dec")
    PROVE  t \in Worker /\ thread[t] = <<"dec">> /\ Tail(thread[t]) = <<>>
<1>1. t \in Worker /\ thread[t] = <<"dec">>
  BY DEF At, Program, WorkerProgram, CallProgram, SetupProgram, EndProgram, ReleaseProgram, SendSteps, RecvSteps
<1> QED
  BY <1>1, TailIs

(* SendPacket and Enqueue.                                                 *)
LEMMA AtCall ==
    ASSUME LanClientAssumption, DOMAIN thread = Thread, NEW t \in Thread, thread[t] \in Program(t)
    PROVE  /\ At(t, "SendPacket") => /\ t \notin Worker /\ thread[t] = <<"SendPacket">>
                                     /\ Done(t) => OneThread(t) /\ thread'[t] = <<>>
                                     /\ Then(t, <<"enqueue", "send_post">>) =>
                                           OneThread(t) /\ thread'[t] = <<"enqueue", "send_post">>
           /\ At(t, "enqueue") => /\ t \notin Worker /\ thread[t] = <<"enqueue", "send_post">>
                                  /\ Done(t) => OneThread(t) /\ thread'[t] = Sends(t, "send_post")
<1>1. ASSUME At(t, "SendPacket")
      PROVE  /\ t \notin Worker /\ thread[t] = <<"SendPacket">>
             /\ Done(t) => OneThread(t) /\ thread'[t] = <<>>
             /\ Then(t, <<"enqueue", "send_post">>) =>
                   OneThread(t) /\ thread'[t] = <<"enqueue", "send_post">>
  <2>1. t \notin Worker /\ thread[t] = <<"SendPacket">>
    BY <1>1 DEF At, Program, WorkerProgram, CallProgram, SetupProgram, EndProgram, ReleaseProgram, SendSteps, RecvSteps
  <2>2. Tail(thread[t]) = <<>>
    BY <2>1, TailIs
  <2> QED
    BY <2>1, <2>2, ThenIs, JoinNone DEF Done
<1>2. ASSUME At(t, "enqueue")
      PROVE  /\ t \notin Worker /\ thread[t] = <<"enqueue", "send_post">>
             /\ Done(t) => OneThread(t) /\ thread'[t] = Sends(t, "send_post")
  <2>1. t \notin Worker /\ thread[t] = <<"enqueue", "send_post">>
    BY <1>2 DEF At, Program, WorkerProgram, CallProgram, SetupProgram, EndProgram, ReleaseProgram, SendSteps, RecvSteps
  <2>2. Tail(thread[t]) = <<"send_post">>
    BY <2>1, TailIs
  <2> QED
    BY <2>1, <2>2, ThenIs, JoinNone DEF Done, Sends
<1> QED
  BY <1>1, <1>2

(* The end of a link, and what comes after it if the monitor thread is at  *)
(* it.                                                                     *)
LEMMA AtRelease ==
    ASSUME LanClientAssumption, NEW t \in Thread, thread[t] \in Program(t),
           NEW x \in {"release", "off"}, At(t, x)
    PROVE  \/ thread[t] = <<x>> /\ Tail(thread[t]) = <<>>
           \/ t = monitor /\ thread[t] = <<x, "SendPacket">> /\ Tail(thread[t]) = <<"SendPacket">>
<1>1. CASE t \in Worker
  <2>1. thread[t] = <<x>>
    BY <1>1 DEF At, Program, WorkerProgram, CallProgram, SetupProgram, EndProgram, ReleaseProgram, SendSteps, RecvSteps
  <2> QED
    BY <2>1, TailIs
<1>2. CASE t \notin Worker /\ t \in Caller
  <2>1. thread[t] = <<x>>
    BY <1>2 DEF At, Program, WorkerProgram, CallProgram, SetupProgram, EndProgram, ReleaseProgram, SendSteps, RecvSteps
  <2> QED
    BY <2>1, TailIs
<1>3. CASE t \notin Worker /\ t \notin Caller
  <2>1. t = monitor
    BY <1>3 DEF Thread
  <2>2. thread[t] = <<x>> \/ thread[t] = <<x, "SendPacket">>
    BY <1>3 DEF At, Program, WorkerProgram, CallProgram, SetupProgram, EndProgram, ReleaseProgram, SendSteps, RecvSteps
  <2>3. CASE thread[t] = <<x>>
    BY <2>3, TailIs
  <2>4. CASE thread[t] = <<x, "SendPacket">>
    BY <2>1, <2>4, TailIs
  <2> QED
    BY <2>2, <2>3, <2>4
<1> QED
  BY <1>1, <1>2, <1>3

(* FreeSendQueuePacket and InitializeSession come at the end of a link,    *)
(* and at the beginning of the next.                                       *)
LEMMA AtFree ==
    ASSUME LanClientAssumption, NEW t \in Thread, thread[t] \in Program(t)
    PROVE  /\ At(t, "free") =>
                 \/ thread[t] = <<"free", "reset", "off">> /\ Tail(thread[t]) = <<"reset", "off">>
                 \/ /\ t = monitor /\ thread[t] = <<"free", "reset", "off", "SendPacket">>
                    /\ Tail(thread[t]) = <<"reset", "off", "SendPacket">>
                 \/ /\ t = monitor /\ thread[t] = <<"free", "reset", "connect">>
                    /\ Tail(thread[t]) = <<"reset", "connect">>
           /\ At(t, "reset") =>
                 \/ thread[t] = <<"reset", "off">> /\ Tail(thread[t]) = <<"off">>
                 \/ /\ t = monitor /\ thread[t] = <<"reset", "off", "SendPacket">>
                    /\ Tail(thread[t]) = <<"off", "SendPacket">>
                 \/ /\ t = monitor /\ thread[t] = <<"reset", "connect">>
                    /\ Tail(thread[t]) = <<"connect">>
<1>1. ASSUME At(t, "free")
      PROVE  \/ thread[t] = <<"free", "reset", "off">>
             \/ t = monitor /\ thread[t] = <<"free", "reset", "off", "SendPacket">>
             \/ t = monitor /\ thread[t] = <<"free", "reset", "connect">>
  BY <1>1 DEF Thread, At, Program, WorkerProgram, CallProgram, SetupProgram, EndProgram, ReleaseProgram, SendSteps, RecvSteps
<1>2. ASSUME At(t, "reset")
      PROVE  \/ thread[t] = <<"reset", "off">>
             \/ t = monitor /\ thread[t] = <<"reset", "off", "SendPacket">>
             \/ t = monitor /\ thread[t] = <<"reset", "connect">>
  BY <1>2 DEF Thread, At, Program, WorkerProgram, CallProgram, SetupProgram, EndProgram, ReleaseProgram, SendSteps, RecvSteps
<1>9. /\ Tail(<<"free", "reset", "off">>) = <<"reset", "off">>
      /\ Tail(<<"free", "reset", "off", "SendPacket">>) = <<"reset", "off", "SendPacket">>
      /\ Tail(<<"free", "reset", "connect">>) = <<"reset", "connect">>
      /\ Tail(<<"reset", "off">>) = <<"off">>
      /\ Tail(<<"reset", "off", "SendPacket">>) = <<"off", "SendPacket">>
      /\ Tail(<<"reset", "connect">>) = <<"connect">>
  BY TailIs
<1> QED
  BY <1>1, <1>2, <1>9

(* Connect.                                                                *)
LEMMA AtSetup ==
    ASSUME LanClientAssumption, thread[monitor] \in Program(monitor)
    PROVE  /\ At(monitor, "connect") => thread[monitor] = <<"connect">> /\ Tail(thread[monitor]) = <<>>
           /\ At(monitor, "connected") =>
                 /\ thread[monitor] = <<"connected", "bind", "recv_post", "SendPacket">>
                 /\ Tail(thread[monitor]) = <<"bind", "recv_post", "SendPacket">>
           /\ At(monitor, "bind") =>
                 /\ thread[monitor] = <<"bind", "recv_post", "SendPacket">>
                 /\ Tail(thread[monitor]) = <<"recv_post", "SendPacket">>
<1>1. monitor \notin Worker \cup Caller
  BY DEF LanClientAssumption
<1>2. At(monitor, "connect") => thread[monitor] = <<"connect">>
  BY <1>1 DEF At, Program, WorkerProgram, CallProgram, SetupProgram, EndProgram, ReleaseProgram, SendSteps, RecvSteps
<1>3. At(monitor, "connected") => thread[monitor] = <<"connected", "bind", "recv_post", "SendPacket">>
  BY <1>1 DEF At, Program, WorkerProgram, CallProgram, SetupProgram, EndProgram, ReleaseProgram, SendSteps, RecvSteps
<1>4. At(monitor, "bind") => thread[monitor] = <<"bind", "recv_post", "SendPacket">>
  BY <1>1 DEF At, Program, WorkerProgram, CallProgram, SetupProgram, EndProgram, ReleaseProgram, SendSteps, RecvSteps
<1>9. /\ Tail(<<"connect">>) = <<>>
      /\ Tail(<<"connected", "bind", "recv_post", "SendPacket">>) = <<"bind", "recv_post", "SendPacket">>
      /\ Tail(<<"bind", "recv_post", "SendPacket">>) = <<"recv_post", "SendPacket">>
  BY TailIs
<1> QED
  BY <1>2, <1>3, <1>4, <1>9

-----------------------------------------------------------------------------
(* References.                                                             *)

(* Two sets that agree on all but one element.                             *)
LEMMA CountStep ==
    ASSUME NEW A, NEW B, NEW x, IsFiniteSet(A), A \ {x} = B \ {x}
    PROVE  /\ IsFiniteSet(B)
           /\ Cardinality(A) \in Nat /\ Cardinality(B) \in Nat
           /\ Cardinality(B) = Cardinality(A) + One(x \in B) - One(x \in A)
           /\ Cardinality(A) >= One(x \in A)
<1> DEFINE C == A \ {x}
<1>1. IsFiniteSet(C) /\ Cardinality(C) = Cardinality(A) - One(x \in A)
  BY FS_RemoveElement, FS_CardinalityType DEF One
<1>2. x \notin C
  OBVIOUS
<1>3. B = C \/ B = C \cup {x}
  OBVIOUS
<1>4. B = C <=> x \notin B
  OBVIOUS
<1> HIDE DEF C
<1>5. IsFiniteSet(C \cup {x}) /\ Cardinality(C \cup {x}) = Cardinality(C) + 1
  BY <1>1, <1>2, FS_AddElement
<1>6. Cardinality(A) \in Nat /\ Cardinality(C) \in Nat
  BY <1>1, FS_CardinalityType
<1>7. CASE x \in B
  <2>1. B = C \cup {x}
    BY <1>3, <1>4, <1>7
  <2> QED
    BY <1>1, <1>5, <1>6, <1>7, <2>1 DEF One
<1>8. CASE x \notin B
  BY <1>4, <1>8, <1>1, <1>6 DEF One
<1> QED
  BY <1>7, <1>8

(* The programs of all threads, the count of references, the monitor       *)
(* thread in Connect, and the thread that ends a link.                     *)
RefInv ==
    /\ crash = FALSE /\ ProgramsOK /\ posted \in [{"recv", "send"} -> Nat]
    /\ IsFiniteSet(Posting) /\ IsFiniteSet(Completers)
    /\ ioCount = posted["recv"] + posted["send"] + Refs
    /\ thread[monitor] \in SetupProgram =>
          /\ posted["recv"] = 0 /\ posted["send"] = 0 /\ clientOn
          /\ \A t \in Thread \ {monitor} : Waits(thread[t])
    /\ ~clientOn => ioCount = 0 /\ \A t \in Thread : ~Rel(thread[t])
    /\ \A t \in Thread : Rel(thread[t]) => ioCount = 0
    /\ \A t, u \in Thread : Rel(thread[t]) /\ Rel(thread[u]) => t = u
    /\ ioCount > 0 => bound
    /\ thread[monitor] = <<"recv_post", "SendPacket">> => bound

(* Who holds a reference, in terms of programs.                            *)
LEMMA RefsAre ==
    /\ Posting = {t \in Thread : Post(thread[t])}
    /\ Posting' = {t \in Thread : Post(thread'[t])}
    /\ Completers = {t \in Thread : Dec(thread[t])}
    /\ Completers' = {t \in Thread : Dec(thread'[t])}
  BY DEF Posting, Completers, Post, Dec, PostSteps

(* A step of one thread changes the references held by what it does to     *)
(* this thread's program.                                                  *)
LEMMA RefsStep ==
    ASSUME IsFiniteSet(Posting), IsFiniteSet(Completers), NEW t \in Thread, OneThread(t)
    PROVE  /\ IsFiniteSet(Posting') /\ IsFiniteSet(Completers')
           /\ Refs \in Nat /\ Refs' \in Nat
           /\ Refs' = Refs + One(Post(thread'[t])) - One(Post(thread[t]))
                           + One(Dec(thread'[t])) - One(Dec(thread[t]))
           /\ Refs >= One(Post(thread[t])) + One(Dec(thread[t]))
<1>1. Posting \ {t} = Posting' \ {t} /\ Completers \ {t} = Completers' \ {t}
  BY RefsAre DEF OneThread
<1>2. /\ t \in Posting <=> Post(thread[t])
      /\ t \in Posting' <=> Post(thread'[t])
      /\ t \in Completers <=> Dec(thread[t])
      /\ t \in Completers' <=> Dec(thread'[t])
  BY RefsAre
<1> DEFINE P == Posting   PP == Posting'   C == Completers   CC == Completers'
<1>3. /\ IsFiniteSet(PP) /\ Cardinality(P) \in Nat /\ Cardinality(PP) \in Nat
      /\ Cardinality(PP) = Cardinality(P) + One(t \in PP) - One(t \in P)
      /\ Cardinality(P) >= One(t \in P)
  BY <1>1, CountStep
<1>4. /\ IsFiniteSet(CC) /\ Cardinality(C) \in Nat /\ Cardinality(CC) \in Nat
      /\ Cardinality(CC) = Cardinality(C) + One(t \in CC) - One(t \in C)
      /\ Cardinality(C) >= One(t \in C)
  BY <1>1, CountStep
<1>5. Refs = Cardinality(P) + Cardinality(C) /\ Refs' = Cardinality(PP) + Cardinality(CC)
  BY DEF Refs
<1>6. /\ One(t \in P) = One(Post(thread[t])) /\ One(t \in PP) = One(Post(thread'[t]))
      /\ One(t \in C) = One(Dec(thread[t])) /\ One(t \in CC) = One(Dec(thread'[t]))
  BY <1>2 DEF One
<1> DEFINE a == One(t \in P)   b == One(t \in PP)   c == One(t \in C)   d == One(t \in CC)
           p == Cardinality(P)   q == Cardinality(PP)   r == Cardinality(C)   s == Cardinality(CC)
<1>7. a \in {0, 1} /\ b \in {0, 1} /\ c \in {0, 1} /\ d \in {0, 1}
  BY DEF One
<1>8. /\ p \in Nat /\ q \in Nat /\ r \in Nat /\ s \in Nat
      /\ q = p + b - a /\ s = r + d - c /\ p >= a /\ r >= c
  BY <1>3, <1>4
<1>9. Refs = p + r /\ Refs' = q + s
  BY <1>5
<1>10. /\ a = One(Post(thread[t])) /\ b = One(Post(thread'[t]))
       /\ c = One(Dec(thread[t])) /\ d = One(Dec(thread'[t]))
  BY <1>6
<1>11. IsFiniteSet(Posting') /\ IsFiniteSet(Completers')
  BY <1>3, <1>4
<1> HIDE DEF P, PP, C, CC, a, b, c, d, p, q, r, s
<1>12. p + r \in Nat /\ q + s \in Nat /\ q + s = p + r + b - a + d - c /\ p + r >= a + c
  BY <1>7, <1>8
<1> QED
  BY <1>9, <1>10, <1>11, <1>12

(* References that nobody holds.                                           *)
LEMMA NoRefs ==
    ASSUME IsFiniteSet(Posting), IsFiniteSet(Completers)
    PROVE  /\ Refs \in Nat
           /\ Refs = 0 <=> \A t \in Thread : ~Post(thread[t]) /\ ~Dec(thread[t])
  BY FS_CardinalityType, FS_EmptySet, RefsAre DEF Refs

(* The monitor thread in Connect: it ends no link, and holds a reference   *)
(* only for the first receive.                                             *)
LEMMA SetupKind ==
    ASSUME NEW p \in SetupProgram
    PROVE  /\ ~Rel(p) /\ ~Dec(p) /\ ~Waits(p)
           /\ Post(p) => p \in {<<"WSARecv", "SendPacket">>, <<"unrecv", "SendPacket">>}
  BY DecIs DEF SetupProgram, RecvSteps, Rel, ReleaseProgram, EndProgram, Waits, Post, PostSteps

(* Who ends a link holds no reference.                                     *)
LEMMA RelKind ==
    ASSUME NEW p, Rel(p)
    PROVE  ~Post(p) /\ ~Dec(p) /\ ~Waits(p) /\ p \notin SetupProgram /\ p /= <<>>
  BY SetupKind, DecIs DEF Rel, ReleaseProgram, EndProgram, Post, PostSteps, Waits

(* Nor does who is at nothing.                                             *)
LEMMA WaitsKind ==
    ASSUME NEW p, Waits(p)
    PROVE  ~Post(p) /\ ~Dec(p) /\ ~Rel(p) /\ p \notin SetupProgram
  BY DecIs, SetupKind, RelKind DEF Waits, Post, PostSteps

(* A step of one thread that keeps the balance of the count.               *)
LEMMA RefNext ==
    ASSUME LanClientAssumption, RefInv, NEW t \in Thread, OneThread(t), thread'[t] \in Program(t), crash' = FALSE,
           posted' \in [{"recv", "send"} -> Nat], clientOn' = clientOn, ioCount' \in Int,
           ioCount' - posted'["recv"] - posted'["send"] - One(Post(thread'[t])) - One(Dec(thread'[t]))
             = ioCount - posted["recv"] - posted["send"] - One(Post(thread[t])) - One(Dec(thread[t])),
           ioCount' = ioCount \/ ioCount > 0 \/ thread[monitor] \in SetupProgram,
           t = monitor /\ thread'[t] \in SetupProgram =>
               thread[t] \in SetupProgram /\ posted'["recv"] = 0 /\ posted'["send"] = 0,
           t /= monitor /\ thread[monitor] \in SetupProgram => posted' = posted /\ Waits(thread'[t]),
           Rel(thread'[t]) => ioCount' = 0 /\ (Rel(thread[t]) \/ ioCount > 0),
           ioCount' > 0 => bound',
           thread'[monitor] = <<"recv_post", "SendPacket">> => bound'
    PROVE  RefInv'
<1>1. ProgramsOK'
  BY DEF RefInv, ProgramsOK, OneThread, Program
<1>2. IsFiniteSet(Posting') /\ IsFiniteSet(Completers') /\ ioCount' = posted'["recv"] + posted'["send"] + Refs'
  <2> DEFINE r == Refs   rr == Refs'
             a == One(Post(thread'[t]))   b == One(Dec(thread'[t]))
             c == One(Post(thread[t]))    d == One(Dec(thread[t]))
  <2>1. /\ IsFiniteSet(Posting') /\ IsFiniteSet(Completers')
        /\ r \in Nat /\ rr \in Nat /\ rr = r + a - c + b - d
    BY RefsStep DEF RefInv
  <2>2. \A x : One(x) \in {0, 1}
    BY DEF One
  <2>3. a \in Int /\ b \in Int /\ c \in Int /\ d \in Int
    BY <2>2
  <2>4. ioCount = posted["recv"] + posted["send"] + r
    BY DEF RefInv
  <2>5. /\ posted["recv"] \in Nat /\ posted["send"] \in Nat
        /\ posted'["recv"] \in Nat /\ posted'["send"] \in Nat
    BY DEF RefInv
  <2>6. ioCount' - posted'["recv"] - posted'["send"] - a - b = ioCount - posted["recv"] - posted["send"] - c - d
    OBVIOUS
  <2> DEFINE io == ioCount   jo == ioCount'
             p == posted["recv"]   q == posted["send"]   pp == posted'["recv"]   qq == posted'["send"]
  <2>7. /\ io = p + q + r /\ jo - pp - qq - a - b = io - p - q - c - d /\ jo \in Int
        /\ p \in Nat /\ q \in Nat /\ pp \in Nat /\ qq \in Nat
    BY <2>4, <2>5, <2>6
  <2> HIDE DEF r, rr, a, b, c, d, io, jo, p, q, pp, qq
  <2>8. jo = pp + qq + rr
    BY <2>1, <2>3, <2>7
  <2> QED
    BY <2>1, <2>8 DEF rr, jo, pp, qq
<1>3. monitor \in Thread
  BY DEF Thread
<1>4. ASSUME thread'[monitor] \in SetupProgram
      PROVE  /\ posted'["recv"] = 0 /\ posted'["send"] = 0 /\ clientOn'
             /\ \A u \in Thread \ {monitor} : Waits(thread'[u])
  BY <1>3, <1>4 DEF OneThread, RefInv
<1>5. ioCount \in Nat
  BY NoRefs DEF RefInv
<1>6. \A u \in Thread : u /= t /\ Rel(thread[u]) => thread[monitor] \notin SetupProgram
  BY <1>3, RelKind, SetupKind, WaitsKind DEF RefInv
<1>7. \A u \in Thread : Rel(thread'[u]) => ioCount' = 0
  <2> SUFFICES ASSUME NEW u \in Thread, Rel(thread'[u]), u /= t PROVE ioCount' = 0
    OBVIOUS
  <2>1. Rel(thread[u]) /\ ioCount = 0
    BY DEF OneThread, RefInv
  <2> QED
    BY <2>1, <1>6
<1>8. ~clientOn' => ioCount' = 0 /\ \A u \in Thread : ~Rel(thread'[u])
  <2> SUFFICES ASSUME ~clientOn PROVE ioCount' = 0 /\ \A u \in Thread : ~Rel(thread'[u])
    OBVIOUS
  <2>1. ioCount = 0 /\ \A u \in Thread : ~Rel(thread[u])
    BY DEF RefInv
  <2>2. thread[monitor] \notin SetupProgram
    BY DEF RefInv
  <2>3. ~(ioCount > 0)
    BY <2>1
  <2>4. ioCount' = 0
    BY <2>1, <2>2, <2>3
  <2>5. ~Rel(thread'[t])
    BY <2>1, <2>3
  <2>6. ASSUME NEW u \in Thread PROVE ~Rel(thread'[u])
    BY <2>5, <2>1 DEF OneThread
  <2> QED
    BY <2>4, <2>6
<1>9. \A u, v \in Thread : Rel(thread'[u]) /\ Rel(thread'[v]) => u = v
  <2> SUFFICES ASSUME NEW u \in Thread, Rel(thread'[u]), u /= t, Rel(thread'[t]) PROVE FALSE
    BY DEF RefInv, OneThread
  <2>1. Rel(thread[u])
    BY DEF OneThread
  <2>2. ioCount = 0
    BY <2>1 DEF RefInv
  <2>3. Rel(thread[t])
    BY <2>2, <1>5
  <2> QED
    BY <2>1, <2>3 DEF RefInv
<1> QED
  BY <1>1, <1>2, <1>4, <1>7, <1>8, <1>9 DEF RefInv

(* A step that leaves the count of references, and what is posted.         *)
LEMMA RefQuiet ==
    ASSUME LanClientAssumption, RefInv, NEW t \in Thread, OneThread(t), thread'[t] \in Program(t),
           UNCHANGED <<ioCount, posted, crash, clientOn>>, bound' = bound \/ bound',
           Post(thread'[t]) <=> Post(thread[t]), Dec(thread'[t]) <=> Dec(thread[t]),
           Rel(thread'[t]) => Rel(thread[t]),
           t = monitor /\ thread'[t] \in SetupProgram => thread[t] \in SetupProgram,
           t /= monitor /\ thread[monitor] \in SetupProgram => Waits(thread'[t]),
           t = monitor /\ thread'[t] = <<"recv_post", "SendPacket">> => bound'
    PROVE  RefInv'
<1>1. One(Post(thread'[t])) = One(Post(thread[t])) /\ One(Dec(thread'[t])) = One(Dec(thread[t]))
  BY DEF One
<1>2. Refs \in Nat /\ posted["recv"] \in Nat /\ posted["send"] \in Nat
  BY NoRefs DEF RefInv
<1>3. ioCount \in Nat
  BY <1>2 DEF RefInv
<1>4. thread[monitor] \in SetupProgram => posted["recv"] = 0 /\ posted["send"] = 0
  BY DEF RefInv
<1>5. Rel(thread[t]) => ioCount = 0
  BY DEF RefInv
<1>6. thread'[monitor] = <<"recv_post", "SendPacket">> => bound'
  BY DEF RefInv, OneThread, Thread
<1>7. ioCount' > 0 => bound'
  BY DEF RefInv
<1>8. /\ crash' = FALSE /\ posted' \in [{"recv", "send"} -> Nat] /\ clientOn' = clientOn
      /\ ioCount' \in Int /\ ioCount' = ioCount /\ posted' = posted
  BY <1>3 DEF RefInv
<1>9. ioCount' - posted'["recv"] - posted'["send"] - One(Post(thread'[t])) - One(Dec(thread'[t]))
         = ioCount - posted["recv"] - posted["send"] - One(Post(thread[t])) - One(Dec(thread[t]))
  BY <1>1, <1>8
<1>10. /\ t = monitor /\ thread'[t] \in SetupProgram =>
             thread[t] \in SetupProgram /\ posted'["recv"] = 0 /\ posted'["send"] = 0
       /\ t /= monitor /\ thread[monitor] \in SetupProgram => posted' = posted /\ Waits(thread'[t])
       /\ Rel(thread'[t]) => ioCount' = 0 /\ (Rel(thread[t]) \/ ioCount > 0)
  BY <1>4, <1>5, <1>8
<1> QED
  BY <1>6, <1>7, <1>8, <1>9, <1>10, RefNext

(* While the monitor thread is in Connect nobody else is at anything.      *)
LEMMA OthersWait ==
    ASSUME RefInv, NEW t \in Thread, t /= monitor, ~Waits(thread[t])
    PROVE  thread[monitor] \notin SetupProgram
  BY DEF RefInv

(* Programs that threads may have.                                         *)
LEMMA RelProgram ==
    ASSUME LanClientAssumption, NEW t
    PROVE  /\ \A p \in ReleaseProgram : p \in Program(t) /\ Rel(p)
           /\ t = monitor => \A p \in EndProgram : p \in Program(t) /\ Rel(p)
           /\ t = monitor => \A p \in SetupProgram : p \in Program(t)
           /\ t \notin Worker => \A p \in CallProgram : p \in Program(t)
  BY DEF LanClientAssumption, Program, WorkerProgram, CallProgram, Rel

(* ReleaseSession: the first to set bDisconnectNow goes on, anyone else    *)
(* has done.                                                               *)
LEMMA ReleaseRefs ==
    ASSUME LanClientAssumption, RefInv, NEW t \in Thread, ReleaseSession(t)
    PROVE  RefInv'
<1>1. DOMAIN thread = Thread /\ thread[t] \in Program(t) /\ At(t, "release")
  BY DEF RefInv, ProgramsOK, ReleaseSession
<1>2. /\ UNCHANGED <<ioCount, posted, crash, clientOn, bound>>
      /\ Then(t, <<>>) \/ Then(t, <<"free", "reset", "off">>)
  BY DEF ReleaseSession, Done
<1>3. OneThread(t) /\ (thread'[t] = <<>> \o Tail(thread[t]) \/ thread'[t] = <<"free", "reset", "off">> \o Tail(thread[t]))
  BY <1>1, <1>2, ThenIs
<1>4. CASE thread[t] = <<"release">> /\ Tail(thread[t]) = <<>>
  <2>1. thread'[t] = <<>> \/ thread'[t] = <<"free", "reset", "off">>
    BY <1>3, <1>4, JoinNone
  <2>2. Rel(thread[t])
    BY <1>4, RelProgram DEF ReleaseProgram
  <2>3. /\ ~Post(thread[t]) /\ ~Dec(thread[t]) /\ ~Waits(thread[t])
    BY <2>2, RelKind
  <2>4. thread'[t] \in Program(t) /\ ~Post(thread'[t]) /\ ~Dec(thread'[t]) /\ thread'[t] \notin SetupProgram
    BY WaitsKind, RelProgram, RelKind, <2>1 DEF Waits, Program, WorkerProgram, CallProgram,
       ReleaseProgram
  <2>5. thread'[t] /= <<"recv_post", "SendPacket">>
    <3>1. <<>> /= <<"recv_post", "SendPacket">> /\ <<"free", "reset", "off">> /= <<"recv_post", "SendPacket">>
      OBVIOUS
    <3> QED
      BY <2>1, <3>1
  <2> QED
    BY <1>2, <1>3, <2>2, <2>3, <2>4, <2>5, OthersWait, RefQuiet
<1>5. CASE t = monitor /\ thread[t] = <<"release", "SendPacket">> /\ Tail(thread[t]) = <<"SendPacket">>
  <2>1. thread'[t] = <<"SendPacket">> \/ thread'[t] = <<"free", "reset", "off", "SendPacket">>
    BY <1>3, <1>5, JoinNone, JoinThreeOne
  <2>2. Rel(thread[t])
    BY <1>5, RelProgram DEF EndProgram
  <2>3. /\ ~Post(thread[t]) /\ ~Dec(thread[t]) /\ ~Waits(thread[t])
    BY <2>2, RelKind
  <2>4. thread'[t] \in Program(t) /\ ~Post(thread'[t]) /\ ~Dec(thread'[t]) /\ thread'[t] \notin SetupProgram
    BY <1>5, WaitsKind, RelProgram, RelKind, <2>1 DEF LanClientAssumption, Waits, CallProgram,
       EndProgram
  <2>5. thread'[t] /= <<"recv_post", "SendPacket">>
    BY <2>1
  <2> QED
    BY <1>2, <1>3, <1>5, <2>2, <2>3, <2>4, <2>5, RefQuiet
<1> QED
  BY <1>1, <1>4, <1>5, AtRelease

(* FreeSendQueuePacket and InitializeSession: the count they set to 0 is   *)
(* 0.                                                                      *)
LEMMA FreeRefs ==
    ASSUME LanClientAssumption, RefInv, NEW t \in Thread, FreeSendQueuePacket(t) \/ InitializeSession(t)
    PROVE  RefInv'
<1>1. DOMAIN thread = Thread /\ thread[t] \in Program(t)
  BY DEF RefInv, ProgramsOK
<1>2. /\ UNCHANGED <<posted, crash, clientOn, bound>> /\ Then(t, <<>>)
      /\ \/ At(t, "free") /\ ioCount' = ioCount
         \/ At(t, "reset") /\ ioCount' = 0
  BY DEF FreeSendQueuePacket, InitializeSession, Done, sockVars
<1>3. OneThread(t) /\ thread'[t] = <<>> \o Tail(thread[t])
  BY <1>1, <1>2, ThenIs
<1>4. ASSUME Rel(thread[t]), thread'[t] \in ReleaseProgram \/ (t = monitor /\ thread'[t] \in EndProgram) PROVE RefInv'
  <2>1. Rel(thread'[t]) /\ thread'[t] \in Program(t)
    BY <1>4, RelProgram
  <2>2. /\ ~Post(thread[t]) /\ ~Dec(thread[t]) /\ ~Waits(thread[t])
        /\ ~Post(thread'[t]) /\ ~Dec(thread'[t]) /\ thread'[t] \notin SetupProgram
    BY <1>4, <2>1, RelKind
  <2>3. ioCount = 0
    BY <1>4 DEF RefInv
  <2>4. ioCount' = ioCount
    BY <1>2, <2>3
  <2>5. t = monitor => thread'[t] /= <<"recv_post", "SendPacket">>
    BY <1>4 DEF ReleaseProgram, EndProgram
  <2> QED
    BY <1>2, <1>3, <1>4, <2>1, <2>2, <2>4, <2>5, OthersWait, RefQuiet
<1>5. ASSUME t = monitor, thread[t] \in SetupProgram, thread'[t] \in SetupProgram,
             ~Post(thread[t]), ~Post(thread'[t]), thread'[t] /= <<"recv_post", "SendPacket">>
      PROVE  RefInv'
  <2>1. ~Dec(thread[t]) /\ ~Rel(thread'[t]) /\ ~Dec(thread'[t])
    BY <1>5, SetupKind
  <2>2. \A u \in Thread : ~Post(thread[u]) /\ ~Dec(thread[u])
    BY <1>5, <2>1, WaitsKind DEF RefInv
  <2>3. ioCount = 0
    BY <1>5, <2>2, NoRefs DEF RefInv
  <2>4. thread'[t] \in Program(t)
    BY <1>5, RelProgram
  <2> QED
    BY <1>2, <1>3, <1>5, <2>1, <2>3, <2>4, RefQuiet
<1>6. CASE At(t, "free")
  <2>1. CASE thread[t] = <<"free", "reset", "off">> /\ Tail(thread[t]) = <<"reset", "off">>
    BY <1>3, <2>1, JoinNone, <1>4 DEF ReleaseProgram, Rel
  <2>2. CASE t = monitor /\ thread[t] = <<"free", "reset", "off", "SendPacket">> /\ Tail(thread[t]) = <<"reset", "off", "SendPacket">>
    BY <1>3, <1>4, <2>2, JoinNone, RelProgram DEF EndProgram
  <2>3. CASE t = monitor /\ thread[t] = <<"free", "reset", "connect">> /\ Tail(thread[t]) = <<"reset", "connect">>
    BY <1>3, <2>3, JoinNone, <1>5 DEF SetupProgram, Post, PostSteps
  <2> QED
    BY <1>1, <1>6, <2>1, <2>2, <2>3, AtFree
<1>7. CASE At(t, "reset")
  <2>1. CASE thread[t] = <<"reset", "off">> /\ Tail(thread[t]) = <<"off">>
    BY <1>3, <2>1, JoinNone, <1>4 DEF ReleaseProgram, Rel
  <2>2. CASE t = monitor /\ thread[t] = <<"reset", "off", "SendPacket">> /\ Tail(thread[t]) = <<"off", "SendPacket">>
    BY <1>3, <1>4, <2>2, JoinNone, RelProgram DEF EndProgram
  <2>3. CASE t = monitor /\ thread[t] = <<"reset", "connect">> /\ Tail(thread[t]) = <<"connect">>
    BY <1>3, <2>3, JoinNone, <1>5 DEF SetupProgram, Post, PostSteps
  <2> QED
    BY <1>1, <1>7, <2>1, <2>2, <2>3, AtFree
<1> QED
  BY <1>2, <1>6, <1>7

(* Who is inside SendPacket, or has taken a completion.                    *)
LEMMA SendKinds ==
    ASSUME LanClientAssumption, NEW t \in Thread, thread[t] \in Program(t), NEW x \in SendSteps, At(t, x)
    PROVE  /\ thread[t] = Sends(t, x) /\ Tail(thread[t]) = SendEnds(t)
           /\ Dec(thread[t]) <=> t \in Worker
           /\ Post(thread[t]) <=> x \in {"WSASend", "unsend"}
           /\ ~Rel(thread[t]) /\ ~Waits(thread[t]) /\ thread[t] \notin SetupProgram
  BY AtSend, SendsKind

(* What Connect is not at.                                                 *)
LEMMA NotSetup ==
    ASSUME NEW p, p \notin SetupProgram PROVE p /= <<"recv_post", "SendPacket">>
  BY DEF SetupProgram, RecvSteps

(* SendPacket up to the queue. While the monitor thread is in Connect      *)
(* nobody gets past the test of bDisconnectNow, or is late.                *)
LEMMA CallRefs ==
    ASSUME LanClientAssumption, RefInv, NEW t \in Thread, late' = FALSE, SendPacket(t) \/ Enqueue(t)
    PROVE  RefInv'
<1>1. DOMAIN thread = Thread /\ thread[t] \in Program(t)
  BY DEF RefInv, ProgramsOK
<1>2. /\ UNCHANGED <<ioCount, posted, crash, clientOn, bound>>
  BY DEF SendPacket, Enqueue, sockVars
<1>3. CASE SendPacket(t)
  <2>1. At(t, "SendPacket") /\ (Then(t, <<"enqueue", "send_post">>) \/ Done(t))
    BY <1>3 DEF SendPacket
  <2>2. t \notin Worker /\ thread[t] = <<"SendPacket">> /\ OneThread(t)
        /\ (thread'[t] = <<>> \/ thread'[t] = <<"enqueue", "send_post">>)
    BY <1>1, <2>1, AtCall
  <2>3. ~Post(thread[t]) /\ ~Dec(thread[t])
    BY <2>2, WaitsKind DEF Waits
  <2>4. thread'[t] \in Program(t) /\ ~Rel(thread'[t]) /\ ~Post(thread'[t]) /\ ~Dec(thread'[t]) /\ thread'[t] \notin SetupProgram
    <3>1. CASE thread'[t] = <<>>
      BY <2>2, <3>1, WaitsKind, RelProgram DEF Waits, CallProgram
    <3>2. CASE thread'[t] = <<"enqueue", "send_post">>
      BY <3>2, DecIs, <2>2, RelProgram DEF Post, PostSteps, Rel, ReleaseProgram, EndProgram,
         SetupProgram, RecvSteps, CallProgram
    <3> QED
      BY <2>2, <3>1, <3>2
  <2>5. t /= monitor /\ thread[monitor] \in SetupProgram => Waits(thread'[t])
    <3>1. ASSUME t /= monitor, thread[monitor] \in SetupProgram, Then(t, <<"enqueue", "send_post">>) PROVE FALSE
      <4>1. thread[monitor] /= <<>>
        BY <3>1, SetupKind DEF Waits
      <4>2. Tail(thread[t]) = <<>>
        BY <2>2, TailIs
      <4>3. ~Done(t)
        BY <1>1, <2>1, <3>1, AtCall
      <4>4. late'
        BY <1>3, <3>1, <4>1, <4>3 DEF SendPacket
      <4> QED
        BY <4>4
    <3>2. Done(t) => Waits(thread'[t])
      BY <1>1, <2>1, AtCall DEF Waits
    <3> QED
      BY <2>1, <3>1, <3>2
  <2> QED
    BY <1>2, <2>2, <2>3, <2>4, <2>5, NotSetup, RefQuiet
<1>4. CASE Enqueue(t)
  <2>1. At(t, "enqueue") /\ Done(t)
    BY <1>4 DEF Enqueue
  <2>2. t \notin Worker /\ thread[t] = <<"enqueue", "send_post">> /\ OneThread(t) /\ thread'[t] = Sends(t, "send_post")
    BY <1>1, <2>1, AtCall
  <2>3. ~Post(thread[t]) /\ ~Waits(thread[t])
    BY <2>2 DEF Post, PostSteps, Waits
  <2>4. ~Dec(thread[t])
    BY <2>2, DecIs
  <2>5. /\ thread'[t] \in Program(t) /\ ~Dec(thread'[t]) /\ ~Post(thread'[t])
        /\ ~Rel(thread'[t]) /\ thread'[t] \notin SetupProgram
    BY <2>2, SendsKind DEF SendSteps
  <2> QED
    BY <1>2, <2>2, <2>3, <2>4, <2>5, OthersWait, NotSetup, RefQuiet
<1> QED
  BY <1>3, <1>4

(* send_post up to the reference, and what fails after it.                 *)
LEMMA ClaimRefs ==
    ASSUME LanClientAssumption, RefInv, NEW t \in Thread,
           Send_Post_Claim(t) \/ Send_Post_Take(t) \/ Send_Post_GiveUp(t)
    PROVE  RefInv'
<1>1. DOMAIN thread = Thread /\ thread[t] \in Program(t)
  BY DEF RefInv, ProgramsOK
<1>2. UNCHANGED <<ioCount, posted, crash, clientOn, bound>>
  BY DEF Send_Post_Claim, Send_Post_Take, Send_Post_GiveUp, sockVars
<1>3. /\ \E x \in SendSteps \ {"WSASend", "unsend"} : At(t, x)
      /\ Done(t) \/ \E y \in SendSteps \ {"WSASend", "unsend"} : Then(t, <<y>>)
  BY DEF Send_Post_Claim, Send_Post_Take, Send_Post_GiveUp, SendSteps
<1>4. /\ Tail(thread[t]) = SendEnds(t) /\ (Dec(thread[t]) <=> t \in Worker)
      /\ ~Post(thread[t]) /\ ~Rel(thread[t]) /\ ~Waits(thread[t])
  BY <1>1, <1>3, SendKinds
<1>5. /\ OneThread(t)
      /\ thread'[t] = SendEnds(t) \/ \E y \in SendSteps \ {"WSASend", "unsend"} : thread'[t] = Sends(t, y)
  BY <1>1, <1>3, <1>4, SendThen
<1>6. /\ thread'[t] \in Program(t) /\ (Dec(thread'[t]) <=> t \in Worker) /\ ~Post(thread'[t])
      /\ ~Rel(thread'[t]) /\ thread'[t] \notin SetupProgram
  BY <1>5, SendsKind, SendEndsKind
<1> QED
  BY <1>2, <1>4, <1>5, <1>6, OthersWait, NotSetup, RefQuiet

(* A reference more: for a send, which somebody holds one during; for a    *)
(* receive, by a worker or when the link is new.                           *)
LEMMA RefMore ==
    ASSUME LanClientAssumption, RefInv, NEW t \in Thread, OneThread(t), thread'[t] \in Program(t),
           UNCHANGED <<posted, crash, clientOn, bound>>, ioCount' = ioCount + 1,
           ~Post(thread[t]), Post(thread'[t]), Dec(thread'[t]) <=> Dec(thread[t]), ~Rel(thread'[t]),
           ioCount > 0 \/ thread[monitor] = <<"recv_post", "SendPacket">>,
           t = monitor /\ thread'[t] \in SetupProgram => thread[t] \in SetupProgram,
           t /= monitor => ~Waits(thread[t])
    PROVE  RefInv'
<1>1. One(Post(thread'[t])) = 1 /\ One(Post(thread[t])) = 0 /\ One(Dec(thread'[t])) = One(Dec(thread[t]))
  BY DEF One
<1>2. One(Dec(thread[t])) \in {0, 1}
  BY DEF One
<1>3. Refs \in Nat /\ posted["recv"] \in Nat /\ posted["send"] \in Nat
  BY NoRefs DEF RefInv
<1>4. ioCount \in Nat
  BY <1>3 DEF RefInv
<1>5. thread[monitor] \in SetupProgram => posted["recv"] = 0 /\ posted["send"] = 0
  BY DEF RefInv
<1>6. bound'
  BY DEF RefInv
<1>7. /\ crash' = FALSE /\ posted' \in [{"recv", "send"} -> Nat] /\ clientOn' = clientOn
      /\ ioCount' \in Int /\ posted' = posted
      /\ (ioCount' = ioCount \/ ioCount > 0 \/ thread[monitor] \in SetupProgram)
  <2>1. <<"recv_post", "SendPacket">> \in SetupProgram
    BY DEF SetupProgram, RecvSteps
  <2> QED
    BY <1>4, <2>1 DEF RefInv
<1>8. ioCount' - posted'["recv"] - posted'["send"] - One(Post(thread'[t])) - One(Dec(thread'[t]))
         = ioCount - posted["recv"] - posted["send"] - One(Post(thread[t])) - One(Dec(thread[t]))
  <2> DEFINE p == posted["recv"]   q == posted["send"]   d == One(Dec(thread[t]))
  <2>1. p \in Nat /\ q \in Nat /\ d \in Nat
    BY <1>2, <1>3
  <2>2. /\ posted'["recv"] = p /\ posted'["send"] = q /\ One(Dec(thread'[t])) = d
        /\ One(Post(thread'[t])) = 1 /\ One(Post(thread[t])) = 0 /\ ioCount' = ioCount + 1
    BY <1>1, <1>7
  <2> HIDE DEF p, q, d
  <2>3. ioCount' - p - q - 1 - d = ioCount - p - q - 0 - d
    BY <1>4, <2>1, <2>2
  <2> QED
    BY <2>2, <2>3 DEF p, q, d
<1>9. /\ t = monitor /\ thread'[t] \in SetupProgram =>
             thread[t] \in SetupProgram /\ posted'["recv"] = 0 /\ posted'["send"] = 0
      /\ t /= monitor /\ thread[monitor] \in SetupProgram => posted' = posted /\ Waits(thread'[t])
      /\ Rel(thread'[t]) => ioCount' = 0 /\ (Rel(thread[t]) \/ ioCount > 0)
  BY <1>5, <1>7, OthersWait
<1> QED
  BY <1>6, <1>7, <1>8, <1>9, RefNext

(* The reference of a send: somebody holds one already, or it is late.     *)
LEMMA RefSends ==
    ASSUME LanClientAssumption, RefInv, NEW t \in Thread, late' = FALSE, Send_Post_Ref(t)
    PROVE  RefInv'
<1>1. DOMAIN thread = Thread /\ thread[t] \in Program(t)
  BY DEF RefInv, ProgramsOK
<1>2. /\ UNCHANGED <<posted, crash, clientOn, bound>> /\ ioCount' = ioCount + 1 /\ ioCount /= 0
      /\ At(t, "post") /\ Then(t, <<"WSASend">>)
  BY DEF Send_Post_Ref, sockVars
<1>3. ioCount > 0
  BY NoRefs, <1>2 DEF RefInv
<1>4. /\ Tail(thread[t]) = SendEnds(t) /\ (Dec(thread[t]) <=> t \in Worker)
      /\ ~Post(thread[t]) /\ ~Waits(thread[t])
  BY <1>1, <1>2, SendKinds DEF SendSteps
<1>5. OneThread(t) /\ thread'[t] = Sends(t, "WSASend")
  BY <1>1, <1>2, <1>4, SendThen
<1>6. /\ thread'[t] \in Program(t) /\ (Dec(thread'[t]) <=> t \in Worker) /\ Post(thread'[t])
      /\ ~Rel(thread'[t]) /\ thread'[t] \notin SetupProgram
  BY <1>5, SendsKind DEF SendSteps
<1> QED
  BY <1>2, <1>3, <1>4, <1>5, <1>6, RefMore

(* The reference of a receive: a worker's completion holds one already, or *)
(* the link is new.                                                        *)
LEMMA RefRecvs ==
    ASSUME LanClientAssumption, RefInv, NEW t \in Thread, Recv_Post(t)
    PROVE  RefInv'
<1>1. DOMAIN thread = Thread /\ thread[t] \in Program(t)
  BY DEF RefInv, ProgramsOK
<1>2. /\ UNCHANGED <<posted, crash, clientOn, bound>> /\ ioCount' = ioCount + 1
      /\ At(t, "recv_post") /\ Then(t, <<"WSARecv">>)
  BY DEF Recv_Post, sockVars, sendVars, recvVars
<1>3. /\ t \in Worker \cup {monitor}
      /\ thread[t] = Recvs(t, "recv_post") /\ Tail(thread[t]) = RecvEnds(t)
  BY <1>1, <1>2, AtRecv DEF RecvSteps
<1>4. /\ (Dec(thread[t]) <=> t \in Worker) /\ ~Post(thread[t]) /\ ~Waits(thread[t])
      /\ thread[t] \in SetupProgram <=> t = monitor
  BY <1>3, RecvsKind DEF RecvSteps
<1>5. OneThread(t) /\ thread'[t] = Recvs(t, "WSARecv")
  BY <1>1, <1>2, <1>3, RecvThen
<1>6. /\ thread'[t] \in Program(t) /\ (Dec(thread'[t]) <=> t \in Worker) /\ Post(thread'[t])
      /\ ~Rel(thread'[t])
  BY <1>3, <1>5, RecvsKind DEF RecvSteps
<1>7. ioCount > 0 \/ thread[monitor] = <<"recv_post", "SendPacket">>
  BY <1>4, NoRefs, <1>3 DEF RefInv, LanClientAssumption, Recvs
<1> QED
  BY <1>2, <1>4, <1>5, <1>6, <1>7, RefMore

(* A reference less: the last one is the last one of all.                  *)
LEMMA UnrefIs ==
    ASSUME RefInv, NEW t \in Thread, Post(thread[t]) \/ Dec(thread[t]), NEW s, Unref(t, s)
    PROVE  /\ ioCount \in Nat /\ ioCount > 0 /\ ioCount' = ioCount - 1 /\ crash' = FALSE
           /\ Post(thread[t]) /\ Dec(thread[t]) => ioCount > 1
           /\ \/ ioCount = 1 /\ Then(t, s \o <<"release">>)
              \/ ioCount > 1 /\ Then(t, s \o <<>>)
<1> DEFINE r == Refs   p == posted["recv"]   q == posted["send"]
<1>1. r \in Nat /\ r >= One(Post(thread[t])) + One(Dec(thread[t]))
  <2> DEFINE P == Posting   C == Completers
  <2>2. /\ t \in P <=> Post(thread[t])
        /\ t \in C <=> Dec(thread[t])
    BY RefsAre
  <2>3. /\ Cardinality(P) \in Nat /\ Cardinality(P) >= One(t \in P)
        /\ Cardinality(C) \in Nat /\ Cardinality(C) >= One(t \in C)
    BY CountStep DEF RefInv
  <2>4. One(t \in P) = One(Post(thread[t])) /\ One(t \in C) = One(Dec(thread[t]))
    BY <2>2 DEF One
  <2>5. r = Cardinality(P) + Cardinality(C)
    BY DEF Refs
  <2>6. One(Post(thread[t])) \in {0, 1} /\ One(Dec(thread[t])) \in {0, 1}
    BY DEF One
  <2> HIDE DEF r, P, C
  <2> QED
    BY <2>3, <2>4, <2>5, <2>6
<1>2. p \in Nat /\ q \in Nat /\ ioCount = p + q + r
  BY DEF RefInv
<1>3. /\ One(Post(thread[t])) + One(Dec(thread[t])) >= 1
      /\ Post(thread[t]) /\ Dec(thread[t]) => One(Post(thread[t])) + One(Dec(thread[t])) = 2
      /\ One(Post(thread[t])) + One(Dec(thread[t])) \in Nat
  BY DEF One
<1> HIDE DEF r, p, q
<1>4. ioCount \in Nat /\ ioCount > 0
  BY <1>1, <1>2, <1>3
<1>5. Post(thread[t]) /\ Dec(thread[t]) => ioCount > 1
  <2> SUFFICES ASSUME One(Post(thread[t])) + One(Dec(thread[t])) = 2 PROVE ioCount > 1
    BY <1>3
  <2>1. r >= 2
    BY <1>1
  <2> QED
    BY <1>1, <1>2, <2>1
<1>6. ioCount' = ioCount - 1 /\ crash' = FALSE
  <2> DEFINE below == ioCount - 1 < 0
  <2>1. below = FALSE
    BY <1>4
  <2>2. crash' = below /\ ioCount' = ioCount - 1
    BY Zenon DEF Unref
  <2> HIDE DEF below
  <2> QED
    BY <2>1, <2>2
<1>7. CASE ioCount = 1
  BY <1>7, <1>4, <1>5, <1>6 DEF NoneLeft, Unref
<1>8. CASE ioCount > 1
  <2>1. ~NoneLeft /\ ioCount /= 1
    BY <1>4, <1>8 DEF NoneLeft
  <2>2. Then(t, s \o <<>>)
    BY <2>1 DEF Unref
  <2> QED
    BY <1>4, <1>6, <1>8, <2>1, <2>2
<1>9. ioCount = 1 \/ ioCount > 1
  BY <1>4
<1> QED
  BY <1>7, <1>8, <1>9

(* A reference less, given up by a thread that held it.                    *)
LEMMA RefLess ==
    ASSUME LanClientAssumption, RefInv, NEW t \in Thread, OneThread(t), thread'[t] \in Program(t),
           UNCHANGED <<posted, clientOn, bound>>, crash' = FALSE,
           ioCount \in Nat, ioCount > 0, ioCount' = ioCount - 1,
           One(Post(thread'[t])) + One(Dec(thread'[t]))
             = One(Post(thread[t])) + One(Dec(thread[t])) - 1,
           Rel(thread'[t]) => ioCount = 1,
           ~Waits(thread[t]), thread'[t] \notin SetupProgram
    PROVE  RefInv'
<1>1. bound'
  BY DEF RefInv
<1>2. posted["recv"] \in Nat /\ posted["send"] \in Nat
  BY DEF RefInv
<1>3. /\ posted' \in [{"recv", "send"} -> Nat] /\ clientOn' = clientOn /\ posted' = posted
      /\ ioCount' \in Int
  BY DEF RefInv
<1>4. ioCount' - posted'["recv"] - posted'["send"] - One(Post(thread'[t])) - One(Dec(thread'[t]))
         = ioCount - posted["recv"] - posted["send"] - One(Post(thread[t])) - One(Dec(thread[t]))
  <2> DEFINE p == posted["recv"]   q == posted["send"]
             a == One(Post(thread'[t]))   b == One(Dec(thread'[t]))
             c == One(Post(thread[t]))    d == One(Dec(thread[t]))
  <2>1. a \in {0, 1} /\ b \in {0, 1} /\ c \in {0, 1} /\ d \in {0, 1}
    BY DEF One
  <2>2. a + b = c + d - 1 /\ p \in Nat /\ q \in Nat
    BY <1>2
  <2>3. posted'["recv"] = p /\ posted'["send"] = q
    OBVIOUS
  <2> HIDE DEF p, q, a, b, c, d
  <2>4. ioCount - 1 - p - q - a - b = ioCount - p - q - c - d
    BY <2>1, <2>2
  <2> QED
    BY <2>3, <2>4 DEF p, q, a, b, c, d
<1>5. /\ t = monitor /\ thread'[t] \in SetupProgram =>
             thread[t] \in SetupProgram /\ posted'["recv"] = 0 /\ posted'["send"] = 0
      /\ t /= monitor /\ thread[monitor] \in SetupProgram => posted' = posted /\ Waits(thread'[t])
      /\ Rel(thread'[t]) => ioCount' = 0 /\ (Rel(thread[t]) \/ ioCount > 0)
  BY OthersWait
<1> QED
  BY <1>1, <1>3, <1>4, <1>5, RefNext

(* WSASend failed: who drops the last reference frees the packets first,   *)
(* then releases.                                                          *)
LEMMA SendFailRefs ==
    ASSUME LanClientAssumption, RefInv, NEW t \in Thread, Send_Post_Fail(t)
    PROVE  RefInv'
<1>1. DOMAIN thread = Thread /\ thread[t] \in Program(t)
  BY DEF RefInv, ProgramsOK
<1>2. UNCHANGED <<posted, clientOn, bound>> /\ At(t, "unsend") /\ Unref(t, <<"sent">>)
  BY DEF Send_Post_Fail, sockVars
<1>3. /\ thread[t] = Sends(t, "unsend") /\ Tail(thread[t]) = SendEnds(t)
      /\ Dec(thread[t]) <=> t \in Worker
      /\ Post(thread[t]) /\ ~Waits(thread[t])
  BY <1>1, <1>2, SendKinds DEF SendSteps
<1>4. /\ ioCount \in Nat /\ ioCount > 0 /\ ioCount' = ioCount - 1 /\ crash' = FALSE
      /\ Dec(thread[t]) => ioCount > 1
      /\ \/ ioCount = 1 /\ Then(t, <<"sent">> \o <<"release">>)
         \/ ioCount > 1 /\ Then(t, <<"sent">> \o <<>>)
  BY <1>2, <1>3, UnrefIs
<1>5. CASE ioCount > 1 /\ Then(t, <<"sent">> \o <<>>)
  <2>1. Then(t, <<"sent">>)
    BY <1>5, JoinNone
  <2>2. OneThread(t) /\ thread'[t] = Sends(t, "sent")
    BY <1>1, <1>3, <2>1, SendThen
  <2>3. /\ thread'[t] \in Program(t) /\ ~Post(thread'[t]) /\ (Dec(thread'[t]) <=> t \in Worker)
        /\ ~Rel(thread'[t]) /\ thread'[t] \notin SetupProgram
    BY <2>2, SendsKind
  <2>4. One(Post(thread'[t])) + One(Dec(thread'[t])) = One(Post(thread[t])) + One(Dec(thread[t])) - 1
    BY <1>3, <2>3 DEF One
  <2> QED
    BY <1>2, <1>3, <1>4, <2>2, <2>3, <2>4, RefLess
<1>6. CASE ioCount = 1 /\ Then(t, <<"sent">> \o <<"release">>)
  <2>1. t \notin Worker
    BY <1>3, <1>4, <1>6
  <2>2. Then(t, <<"sent", "release">>)
    BY <1>6, JoinOneOne
  <2>3. OneThread(t) /\ thread'[t] = <<"sent", "release">>
    BY <1>1, <1>3, <2>1, <2>2, ThenIs, JoinNone DEF SendEnds
  <2>4. Rel(thread'[t]) /\ thread'[t] \in Program(t)
    BY <2>1, <2>3, RelProgram DEF Rel, CallProgram
  <2>5. ~Post(thread'[t]) /\ ~Dec(thread'[t]) /\ thread'[t] \notin SetupProgram
    BY <2>4, RelKind
  <2>6. One(Post(thread'[t])) + One(Dec(thread'[t])) = One(Post(thread[t])) + One(Dec(thread[t])) - 1
    BY <1>3, <2>1, <2>5 DEF One
  <2> QED
    BY <1>2, <1>3, <1>4, <1>6, <2>3, <2>4, <2>5, <2>6, RefLess
<1> QED
  BY <1>4, <1>5, <1>6

(* WSARecv failed.                                                         *)
LEMMA RecvFailRefs ==
    ASSUME LanClientAssumption, RefInv, NEW t \in Thread, Recv_Post_Fail(t)
    PROVE  RefInv'
<1>1. DOMAIN thread = Thread /\ thread[t] \in Program(t)
  BY DEF RefInv, ProgramsOK
<1>2. UNCHANGED <<posted, clientOn, bound>> /\ At(t, "unrecv") /\ Unref(t, <<>>)
  BY DEF Recv_Post_Fail, sockVars
<1>3. /\ t \in Worker \cup {monitor}
      /\ thread[t] = Recvs(t, "unrecv") /\ Tail(thread[t]) = RecvEnds(t)
  BY <1>1, <1>2, AtRecv DEF RecvSteps
<1>4. /\ (Dec(thread[t]) <=> t \in Worker) /\ Post(thread[t]) /\ ~Waits(thread[t])
  BY <1>3, RecvsKind DEF RecvSteps
<1>5. /\ ioCount \in Nat /\ ioCount > 0 /\ ioCount' = ioCount - 1 /\ crash' = FALSE
      /\ Dec(thread[t]) => ioCount > 1
      /\ \/ ioCount = 1 /\ Then(t, <<>> \o <<"release">>)
         \/ ioCount > 1 /\ Then(t, <<>> \o <<>>)
  BY <1>2, <1>4, UnrefIs
<1>6. CASE ioCount > 1 /\ Then(t, <<>> \o <<>>)
  <2>1. Done(t)
    BY <1>6, JoinNone DEF Done
  <2>2. OneThread(t) /\ thread'[t] = RecvEnds(t)
    BY <1>1, <1>3, <2>1, RecvThen
  <2>3. /\ thread'[t] \in Program(t) /\ ~Post(thread'[t]) /\ (Dec(thread'[t]) <=> t \in Worker)
        /\ ~Rel(thread'[t]) /\ thread'[t] \notin SetupProgram
    BY <1>3, <2>2, RecvEndsKind
  <2>4. One(Post(thread'[t])) + One(Dec(thread'[t])) = One(Post(thread[t])) + One(Dec(thread[t])) - 1
    BY <1>4, <2>3 DEF One
  <2> QED
    BY <1>2, <1>4, <1>5, <2>2, <2>3, <2>4, RefLess
<1>7. CASE ioCount = 1 /\ Then(t, <<>> \o <<"release">>)
  <2>1. t \notin Worker /\ t = monitor
    BY <1>3, <1>4, <1>5, <1>7
  <2>2. Then(t, <<"release">>)
    BY <1>7, JoinNone
  <2>3. OneThread(t) /\ thread'[t] = <<"release", "SendPacket">>
    BY <1>1, <1>3, <2>1, <2>2, ThenIs, JoinOneOne DEF RecvEnds
  <2>4. Rel(thread'[t]) /\ thread'[t] \in Program(t)
    BY <2>1, <2>3, RelProgram DEF EndProgram
  <2>5. ~Post(thread'[t]) /\ ~Dec(thread'[t]) /\ thread'[t] \notin SetupProgram
    BY <2>4, RelKind
  <2>6. One(Post(thread'[t])) + One(Dec(thread'[t])) = One(Post(thread[t])) + One(Dec(thread[t])) - 1
    BY <1>4, <2>1, <2>5 DEF One
  <2> QED
    BY <1>2, <1>4, <1>5, <1>7, <2>3, <2>4, <2>5, <2>6, RefLess
<1> QED
  BY <1>5, <1>6, <1>7

(* The end of a completion.                                                *)
LEMMA DecRefs ==
    ASSUME LanClientAssumption, RefInv, NEW t \in Thread, Update_WorkerThread_Dec(t)
    PROVE  RefInv'
<1>1. DOMAIN thread = Thread /\ thread[t] \in Program(t)
  BY DEF RefInv, ProgramsOK
<1>2. UNCHANGED <<posted, clientOn, bound>> /\ At(t, "dec") /\ Unref(t, <<>>)
  BY DEF Update_WorkerThread_Dec, sockVars
<1>3. t \in Worker /\ thread[t] = <<"dec">> /\ Tail(thread[t]) = <<>>
  BY <1>1, <1>2, AtDec
<1>4. Dec(thread[t]) /\ ~Post(thread[t]) /\ ~Waits(thread[t])
  BY <1>3, DecIs DEF Post, PostSteps, Waits
<1>5. /\ ioCount \in Nat /\ ioCount > 0 /\ ioCount' = ioCount - 1 /\ crash' = FALSE
      /\ \/ ioCount = 1 /\ Then(t, <<>> \o <<"release">>)
         \/ ioCount > 1 /\ Then(t, <<>> \o <<>>)
  BY <1>2, <1>4, UnrefIs
<1>6. ASSUME thread'[t] \in Program(t), ~Post(thread'[t]), ~Dec(thread'[t])
      PROVE  One(Post(thread'[t])) + One(Dec(thread'[t])) = One(Post(thread[t])) + One(Dec(thread[t])) - 1
  BY <1>4, <1>6 DEF One
<1>7. CASE ioCount > 1 /\ Then(t, <<>> \o <<>>)
  <2>1. OneThread(t) /\ thread'[t] = <<>>
    BY <1>1, <1>3, <1>7, ThenIs, JoinNone
  <2>2. /\ thread'[t] \in Program(t) /\ ~Post(thread'[t]) /\ ~Dec(thread'[t])
        /\ ~Rel(thread'[t]) /\ thread'[t] \notin SetupProgram
    BY <1>3, <2>1, WaitsKind DEF Waits, Program, WorkerProgram
  <2> QED
    BY <1>2, <1>4, <1>5, <1>6, <2>1, <2>2, RefLess
<1>8. CASE ioCount = 1 /\ Then(t, <<>> \o <<"release">>)
  <2>1. OneThread(t) /\ thread'[t] = <<"release">>
    BY <1>1, <1>3, <1>8, ThenIs, JoinNone
  <2>2. Rel(thread'[t]) /\ thread'[t] \in Program(t)
    BY <2>1, RelProgram DEF ReleaseProgram
  <2>3. ~Post(thread'[t]) /\ ~Dec(thread'[t]) /\ thread'[t] \notin SetupProgram
    BY <2>2, RelKind
  <2> QED
    BY <1>2, <1>4, <1>5, <1>6, <1>8, <2>1, <2>2, <2>3, RefLess
<1> QED
  BY <1>5, <1>7, <1>8

(* send_complete.                                                          *)
LEMMA SentRefs ==
    ASSUME LanClientAssumption, RefInv, NEW t \in Thread, Send_Complete(t)
    PROVE  RefInv'
<1>1. DOMAIN thread = Thread /\ thread[t] \in Program(t)
  BY DEF RefInv, ProgramsOK
<1>2. UNCHANGED <<ioCount, posted, crash, clientOn, bound>> /\ At(t, "sent") /\ Done(t)
  BY DEF Send_Complete, sockVars
<1>3. OneThread(t)
  BY <1>1, <1>2, AtSent
<1>4. ASSUME thread[t] = Sends(t, "sent"), thread'[t] = SendEnds(t) PROVE RefInv'
  BY <1>4, SendsKind, SendEndsKind, <1>2, <1>3, OthersWait, NotSetup, RefQuiet
<1>5. ASSUME t \in Worker, thread[t] = <<"sent", "send_post", "dec">>, thread'[t] = Sends(t, "send_post")
      PROVE  RefInv'
  <2>1. Dec(thread[t]) /\ ~Post(thread[t]) /\ ~Waits(thread[t])
    BY <1>5, DecIs DEF Post, PostSteps, Waits
  <2>2. /\ thread'[t] \in Program(t) /\ Dec(thread'[t]) /\ ~Post(thread'[t])
        /\ ~Rel(thread'[t]) /\ thread'[t] \notin SetupProgram
    BY <1>5, SendsKind DEF SendSteps
  <2> QED
    BY <1>2, <1>3, <2>1, <2>2, OthersWait, NotSetup, RefQuiet
<1>6. ASSUME thread[t] = <<"sent", "release">>, thread'[t] = <<"release">> PROVE RefInv'
  BY <1>6, RelProgram, RelKind, <1>2, <1>3, OthersWait, NotSetup, RefQuiet DEF Rel, ReleaseProgram
<1> QED
  BY <1>1, <1>2, <1>4, <1>5, <1>6, AtSent

(* What is posted takes over the reference of the thread that posts it.    *)
LEMMA PostRefs ==
    ASSUME LanClientAssumption, RefInv, NEW t \in Thread, OneThread(t), thread'[t] \in Program(t),
           UNCHANGED <<ioCount, crash, clientOn, bound>>,
           NEW kind \in {"recv", "send"}, posted' = [posted EXCEPT ![kind] = @ + 1],
           Post(thread[t]), ~Post(thread'[t]), Dec(thread'[t]) <=> Dec(thread[t]), ~Rel(thread'[t]),
           ~Waits(thread[t]), thread'[t] \notin SetupProgram
    PROVE  RefInv'
<1>1. /\ One(Post(thread[t])) = 1 /\ One(Post(thread'[t])) = 0
      /\ One(Dec(thread'[t])) = One(Dec(thread[t])) /\ One(Dec(thread[t])) \in Nat
  BY DEF One
<1>2. posted \in [{"recv", "send"} -> Nat] /\ posted' \in [{"recv", "send"} -> Nat]
  BY DEF RefInv
<1>3. ioCount \in Nat
  BY <1>2, NoRefs DEF RefInv
<1>4. /\ posted["recv"] \in Nat /\ posted["send"] \in Nat
      /\ posted'["recv"] \in Nat /\ posted'["send"] \in Nat
      /\ posted'["recv"] + posted'["send"] = posted["recv"] + posted["send"] + 1
  BY <1>2
<1>5. ioCount' - posted'["recv"] - posted'["send"] - One(Post(thread'[t])) - One(Dec(thread'[t]))
         = ioCount - posted["recv"] - posted["send"] - One(Post(thread[t])) - One(Dec(thread[t]))
  <2> DEFINE p == posted["recv"]   q == posted["send"]   pp == posted'["recv"]   qq == posted'["send"]
             d == One(Dec(thread[t]))
  <2>1. p \in Nat /\ q \in Nat /\ pp \in Nat /\ qq \in Nat /\ d \in Nat /\ pp + qq = p + q + 1
    BY <1>1, <1>4
  <2> HIDE DEF p, q, pp, qq, d
  <2>2. ioCount - pp - qq - 0 - d = ioCount - p - q - 1 - d
    BY <1>3, <2>1
  <2> QED
    BY <1>1, <2>2 DEF p, q, pp, qq, d
<1>6. thread[monitor] \in SetupProgram => t = monitor
  BY OthersWait
<1>7. ioCount' > 0 => bound'
  BY DEF RefInv
<1>8. thread'[monitor] = <<"recv_post", "SendPacket">> => bound'
  BY NotSetup DEF OneThread, Thread, RefInv
<1>9. ioCount' \in Int /\ crash' = FALSE
  BY <1>3 DEF RefInv
<1> QED
  BY <1>2, <1>5, <1>6, <1>7, <1>8, <1>9, RefNext

(* WSASend: who has a reference for it knows that the socket is bound.     *)
LEMMA WSASendRefs ==
    ASSUME LanClientAssumption, RefInv, NEW t \in Thread, Send_Post(t)
    PROVE  RefInv'
<1>1. DOMAIN thread = Thread /\ thread[t] \in Program(t)
  BY DEF RefInv, ProgramsOK
<1>2. UNCHANGED <<ioCount, crash, clientOn, bound>> /\ At(t, "WSASend")
  BY DEF Send_Post, sockVars
<1>3. /\ thread[t] = Sends(t, "WSASend") /\ Tail(thread[t]) = SendEnds(t)
      /\ Dec(thread[t]) <=> t \in Worker
      /\ Post(thread[t]) /\ ~Waits(thread[t])
  BY <1>1, <1>2, SendKinds DEF SendSteps
<1>4. bound
  BY <1>3, NoRefs DEF RefInv
<1>5. CASE posted' = [posted EXCEPT !["send"] = @ + 1] /\ Done(t)
  BY <1>1, <1>3, <1>5, SendThen, SendEndsKind, <1>2, PostRefs
<1>6. CASE posted' = posted /\ Then(t, <<"unsend">>)
  <2>1. OneThread(t) /\ thread'[t] = Sends(t, "unsend")
    BY <1>1, <1>3, <1>6, SendThen
  <2>2. /\ thread'[t] \in Program(t) /\ (Dec(thread'[t]) <=> t \in Worker) /\ Post(thread'[t])
        /\ ~Rel(thread'[t]) /\ thread'[t] \notin SetupProgram
    BY <2>1, SendsKind DEF SendSteps
  <2> QED
    BY <1>2, <1>3, <1>6, <2>1, <2>2, OthersWait, NotSetup, RefQuiet
<1> QED
  BY <1>4, <1>5, <1>6 DEF Send_Post

(* WSARecv.                                                                *)
LEMMA WSARecvRefs ==
    ASSUME LanClientAssumption, RefInv, NEW t \in Thread, WSARecv(t)
    PROVE  RefInv'
<1>1. DOMAIN thread = Thread /\ thread[t] \in Program(t)
  BY DEF RefInv, ProgramsOK
<1>2. UNCHANGED <<ioCount, crash, clientOn, bound>> /\ At(t, "WSARecv")
  BY DEF WSARecv, sockVars
<1>3. /\ t \in Worker \cup {monitor}
      /\ thread[t] = Recvs(t, "WSARecv") /\ Tail(thread[t]) = RecvEnds(t)
  BY <1>1, <1>2, AtRecv DEF RecvSteps
<1>4. /\ (Dec(thread[t]) <=> t \in Worker) /\ Post(thread[t]) /\ ~Waits(thread[t])
      /\ thread[t] \in SetupProgram <=> t = monitor
  BY <1>3, RecvsKind DEF RecvSteps
<1>5. CASE posted' = [posted EXCEPT !["recv"] = @ + 1] /\ Done(t)
  BY <1>1, <1>3, <1>5, RecvThen, RecvEndsKind, <1>2, <1>4, PostRefs
<1>6. CASE posted' = posted /\ Then(t, <<"unrecv">>)
  BY <1>1, <1>3, <1>6, RecvThen, RecvsKind, <1>2, <1>4, OthersWait, RefQuiet DEF RecvSteps,
     LanClientAssumption, Recvs
<1> QED
  BY <1>5, <1>6 DEF WSARecv

(* recv_complete.                                                          *)
LEMMA PacketRefs ==
    ASSUME LanClientAssumption, RefInv, NEW t \in Thread, Recv_Complete(t)
    PROVE  RefInv'
<1>1. DOMAIN thread = Thread /\ thread[t] \in Program(t)
  BY DEF RefInv, ProgramsOK
<1>2. /\ UNCHANGED <<ioCount, posted, crash, clientOn, bound>> /\ At(t, "packet")
      /\ Then(t, <<"recv_post">>) \/ Done(t) \/ UNCHANGED thread
  BY DEF Recv_Complete, sockVars
<1>3. t \in Worker /\ thread[t] = <<"packet", "dec">>
  BY <1>1, <1>2, AtPacket
<1>4. Dec(thread[t]) /\ ~Post(thread[t]) /\ ~Rel(thread[t]) /\ ~Waits(thread[t])
      /\ thread[t] \notin SetupProgram
  BY <1>3, DecIs DEF Post, PostSteps, Rel, ReleaseProgram, EndProgram, Waits, SetupProgram, RecvSteps
<1>5. /\ OneThread(t)
      /\ \/ thread'[t] = Recvs(t, "recv_post") \/ thread'[t] = RecvEnds(t)
         \/ thread'[t] = thread[t]
  BY <1>1, <1>2, AtPacket DEF OneThread
<1>6. t /= monitor
  BY <1>3 DEF LanClientAssumption
<1>7. thread'[t] \in Program(t) /\ Dec(thread'[t]) /\ ~Post(thread'[t]) /\ ~Rel(thread'[t])
  BY <1>3, RecvsKind, RecvEndsKind, <1>1, <1>4, <1>5 DEF RecvSteps
<1> QED
  BY <1>2, <1>4, <1>5, <1>6, <1>7, OthersWait, RefQuiet

-----------------------------------------------------------------------------
(* The end of a link and the beginning of the next.                        *)

(* A thread that has nothing to do after the step.                         *)
LEMMA WaitsProgram ==
    ASSUME LanClientAssumption, NEW t \in Thread
    PROVE  <<>> \in Program(t) /\ (t \notin Worker => <<"SendPacket">> \in Program(t))
  BY DEF Program, WorkerProgram, CallProgram

(* The client is off: no reference is left, and no thread at work.         *)
LEMMA OffRefs ==
    ASSUME LanClientAssumption, RefInv, NEW t \in Thread, OneThread(t), thread'[t] \in Program(t),
           UNCHANGED <<ioCount, posted, crash, bound>>, clientOn' = FALSE,
           Rel(thread[t]) \/ (t = monitor /\ thread[t] \in SetupProgram),
           ~Post(thread[t]), Waits(thread'[t])
    PROVE  RefInv'
<1>1. ProgramsOK'
  BY DEF RefInv, ProgramsOK, OneThread, Program
<1>2. monitor \in Thread
  BY DEF Thread
<1>3. thread[monitor] \in SetupProgram => t = monitor
  BY <1>2, RelKind, WaitsKind, SetupKind DEF RefInv
<1>4. ~Dec(thread[t])
  BY RelKind, SetupKind
<1>5. ioCount = 0
  <2>1. CASE Rel(thread[t])
    BY <2>1 DEF RefInv
  <2>2. CASE t = monitor /\ thread[t] \in SetupProgram
    <3>1. \A u \in Thread : ~Post(thread[u]) /\ ~Dec(thread[u])
      BY <1>4, <2>2, WaitsKind DEF RefInv
    <3> QED
      BY <2>2, <3>1, NoRefs DEF RefInv
  <2> QED
    BY <2>1, <2>2
<1>6. ~Post(thread'[t]) /\ ~Dec(thread'[t]) /\ ~Rel(thread'[t]) /\ thread'[t] \notin SetupProgram
  BY WaitsKind
<1>7. IsFiniteSet(Posting') /\ IsFiniteSet(Completers') /\ Refs' = Refs
  BY <1>4, <1>6, RefsStep DEF One, RefInv
<1>8. \A u \in Thread : ~Rel(thread'[u])
  BY <1>6, WaitsKind DEF OneThread, RefInv
<1>9. thread'[monitor] \notin SetupProgram
  BY <1>2, <1>3, <1>6 DEF OneThread
<1> QED
  BY <1>1, <1>5, <1>7, <1>8, <1>9, NotSetup DEF RefInv

(* The end of ReleaseSession.                                              *)
LEMMA SwitchOffRefs ==
    ASSUME LanClientAssumption, RefInv, NEW t \in Thread, SwitchOff(t)
    PROVE  RefInv'
<1>1. DOMAIN thread = Thread /\ thread[t] \in Program(t) /\ At(t, "off") /\ Done(t)
  BY DEF RefInv, ProgramsOK, SwitchOff
<1>2. UNCHANGED <<ioCount, posted, crash, bound>> /\ clientOn' = FALSE
  BY DEF SwitchOff, sockVars
<1>3. OneThread(t) /\ thread'[t] = <<>> \o Tail(thread[t])
  BY <1>1, ThenIs DEF Done
<1>4. \/ thread[t] = <<"off">> /\ Tail(thread[t]) = <<>>
      \/ t = monitor /\ thread[t] = <<"off", "SendPacket">> /\ Tail(thread[t]) = <<"SendPacket">>
  BY <1>1, AtRelease
<1>5. Rel(thread[t])
  BY <1>4, RelProgram DEF ReleaseProgram, EndProgram
<1>6. thread'[t] = <<>> \/ (t = monitor /\ thread'[t] = <<"SendPacket">>)
  BY <1>3, <1>4, JoinNone
<1>7. thread'[t] \in Program(t) /\ Waits(thread'[t])
  BY <1>6, WaitsProgram DEF LanClientAssumption, Waits
<1>8. ~Post(thread[t])
  BY <1>5, RelKind
<1> QED
  BY <1>2, <1>3, <1>5, <1>7, <1>8, OffRefs

(* Connect begins when the client is off: there is no reference, and no    *)
(* caller is inside SendPacket unless it is late.                          *)
LEMMA ConnectRefs ==
    ASSUME LanClientAssumption, RefInv, late' = FALSE, Connect
    PROVE  RefInv'
<1>0. monitor \in Thread /\ monitor \notin Worker \cup Caller
  BY DEF LanClientAssumption, Thread
<1>1. /\ UNCHANGED <<ioCount, posted, crash>> /\ clientOn' = TRUE /\ ~clientOn
      /\ thread[monitor] = <<>> /\ crash = FALSE
      /\ thread' = [thread EXCEPT ![monitor] = <<"free", "reset", "connect">>]
      /\ \A c \in Caller : ~Inside(c)
  BY DEF Connect
<1>2. ioCount = 0 /\ \A t \in Thread : ~Rel(thread[t])
  BY <1>1 DEF RefInv
<1>3. posted["recv"] = 0 /\ posted["send"] = 0 /\ Refs = 0
  BY NoRefs, <1>2 DEF RefInv
<1>4. \A t \in Thread : ~Post(thread[t]) /\ ~Dec(thread[t])
  BY <1>3, NoRefs DEF RefInv
<1>5. ASSUME NEW t \in Thread PROVE Waits(thread[t])
  <2>1. thread[t] \in Program(t) /\ DOMAIN thread = Thread
    BY DEF RefInv, ProgramsOK
  <2>2. CASE t \in Worker
    BY <2>1, <2>2, DecIs, <1>2, <1>4 DEF Program, WorkerProgram, Rel, Waits
  <2>3. CASE t \in Caller
    BY <1>1, <2>3, <2>1, AtCall DEF Inside, Waits
  <2>4. CASE t = monitor
    BY <1>1, <2>4 DEF Waits
  <2> QED
    BY <2>2, <2>3, <2>4 DEF Thread
<1>6. /\ OneThread(monitor) /\ thread'[monitor] = <<"free", "reset", "connect">>
  BY <1>0, <1>1 DEF OneThread, RefInv, ProgramsOK
<1>7. /\ <<"free", "reset", "connect">> \in SetupProgram
      /\ ~Post(<<"free", "reset", "connect">>)
      /\ <<"free", "reset", "connect">> /= <<"recv_post", "SendPacket">>
  BY DEF SetupProgram, Post, PostSteps
<1>8. thread'[monitor] \in Program(monitor) /\ ~Dec(thread'[monitor]) /\ ~Rel(thread'[monitor])
  BY <1>6, <1>7, RelProgram, SetupKind
<1>9. ProgramsOK'
  BY <1>6, <1>8 DEF RefInv, ProgramsOK, OneThread, Program
<1>10. \A t \in Thread : ~Post(thread'[t]) /\ ~Dec(thread'[t]) /\ ~Rel(thread'[t])
  BY <1>2, <1>4, <1>6, <1>7, <1>8 DEF OneThread
<1>11. Posting' = {} /\ Completers' = {}
  BY <1>10, RefsAre
<1>12. IsFiniteSet(Posting') /\ IsFiniteSet(Completers') /\ Refs' = 0
  BY FS_EmptySet, <1>11 DEF Refs
<1>13. \A t \in Thread \ {monitor} : Waits(thread'[t])
  BY <1>5, <1>6 DEF OneThread
<1> QED
  BY <1>1, <1>2, <1>3, <1>6, <1>7, <1>9, <1>10, <1>12, <1>13 DEF RefInv

(* Nothing added to four steps.                                            *)
LEMMA JoinFourNone ==
    ASSUME NEW a, NEW b, NEW c, NEW d PROVE <<a, b, c, d>> \o <<>> = <<a, b, c, d>>
  OBVIOUS

(* The steps of Connect that keep the client on.                           *)
LEMMA ConnectingRefs ==
    ASSUME LanClientAssumption, RefInv, Connect_Connected \/ Connect_Enable \/ Connect_Bind
    PROVE  RefInv'
<1>0. monitor \in Thread /\ monitor \notin Worker \cup Caller
  BY DEF LanClientAssumption, Thread
<1>1. DOMAIN thread = Thread /\ thread[monitor] \in Program(monitor)
  BY <1>0 DEF RefInv, ProgramsOK
<1>2. UNCHANGED <<ioCount, posted, crash, clientOn>> /\ (bound' = bound \/ bound')
  BY DEF Connect_Connected, Connect_Enable, Connect_Bind, sockVars
<1>3. ASSUME thread[monitor] \in SetupProgram, ~Post(thread[monitor]),
             OneThread(monitor), thread'[monitor] \in SetupProgram, ~Post(thread'[monitor]),
             thread'[monitor] = <<"recv_post", "SendPacket">> => bound'
      PROVE  RefInv'
  BY <1>0, <1>3, SetupKind, RelProgram, <1>2, RefQuiet
<1>4. /\ <<"connect">> \in SetupProgram /\ ~Post(<<"connect">>)
      /\ <<"connected", "bind", "recv_post", "SendPacket">> \in SetupProgram
      /\ ~Post(<<"connected", "bind", "recv_post", "SendPacket">>)
      /\ <<"bind", "recv_post", "SendPacket">> \in SetupProgram
      /\ ~Post(<<"bind", "recv_post", "SendPacket">>)
      /\ <<"recv_post", "SendPacket">> \in SetupProgram
      /\ ~Post(<<"recv_post", "SendPacket">>)
  BY DEF SetupProgram, RecvSteps, Post, PostSteps
<1>5. CASE Connect_Connected
  <2>1. At(monitor, "connect") /\ Then(monitor, <<"connected", "bind", "recv_post", "SendPacket">>)
    BY <1>5 DEF Connect_Connected
  <2>2. thread[monitor] = <<"connect">> /\ Tail(thread[monitor]) = <<>>
    BY <1>1, <2>1, AtSetup
  <2>3. OneThread(monitor) /\ thread'[monitor] = <<"connected", "bind", "recv_post", "SendPacket">>
    BY <1>0, <1>1, <2>1, <2>2, ThenIs, JoinFourNone
  <2>4. thread'[monitor] /= <<"recv_post", "SendPacket">>
    BY <2>3
  <2> QED
    BY <1>3, <1>4, <2>2, <2>3, <2>4
<1>6. CASE Connect_Enable
  <2>1. At(monitor, "connected") /\ Then(monitor, <<>>)
    BY <1>6 DEF Connect_Enable, Done
  <2>2. /\ thread[monitor] = <<"connected", "bind", "recv_post", "SendPacket">>
        /\ Tail(thread[monitor]) = <<"bind", "recv_post", "SendPacket">>
    BY <1>1, <2>1, AtSetup
  <2>3. OneThread(monitor) /\ thread'[monitor] = <<"bind", "recv_post", "SendPacket">>
    <3>1. OneThread(monitor) /\ thread'[monitor] = <<>> \o Tail(thread[monitor])
      BY <1>0, <1>1, <2>1, ThenIs
    <3> QED
      BY <2>2, <3>1, JoinNone
  <2>4. thread'[monitor] /= <<"recv_post", "SendPacket">>
    BY <2>3
  <2> QED
    BY <1>3, <1>4, <2>2, <2>3, <2>4
<1>7. CASE Connect_Bind
  <2>1. At(monitor, "bind") /\ Then(monitor, <<>>) /\ bound'
    BY <1>7 DEF Connect_Bind, Done
  <2>2. /\ thread[monitor] = <<"bind", "recv_post", "SendPacket">>
        /\ Tail(thread[monitor]) = <<"recv_post", "SendPacket">>
    BY <1>1, <2>1, AtSetup
  <2>3. OneThread(monitor) /\ thread'[monitor] = <<"recv_post", "SendPacket">>
    BY <1>0, <1>1, <2>1, <2>2, ThenIs, JoinNone
  <2> QED
    BY <1>3, <1>4, <2>1, <2>2, <2>3
<1> QED
  BY <1>5, <1>6, <1>7

(* connect failed.                                                         *)
LEMMA ConnectFailedRefs ==
    ASSUME LanClientAssumption, RefInv, Connect_Failed
    PROVE  RefInv'
<1>0. monitor \in Thread /\ monitor \notin Worker \cup Caller
  BY DEF LanClientAssumption, Thread
<1>1. DOMAIN thread = Thread /\ thread[monitor] \in Program(monitor)
  BY <1>0 DEF RefInv, ProgramsOK
<1>2. /\ UNCHANGED <<ioCount, posted, crash, bound>> /\ clientOn' = FALSE
      /\ At(monitor, "connect") /\ Then(monitor, <<>>)
  BY DEF Connect_Failed, Done, sockVars
<1>3. thread[monitor] = <<"connect">> /\ Tail(thread[monitor]) = <<>>
  BY <1>1, <1>2, AtSetup
<1>4. OneThread(monitor) /\ thread'[monitor] = <<>>
  BY <1>0, <1>1, <1>2, <1>3, ThenIs, JoinNone
<1>5. <<"connect">> \in SetupProgram /\ ~Post(<<"connect">>)
  BY DEF SetupProgram, Post, PostSteps
<1>6. Waits(thread'[monitor]) /\ thread'[monitor] \in Program(monitor)
  BY <1>0, <1>4, WaitsProgram DEF Waits
<1> QED
  BY <1>0, <1>2, <1>3, <1>4, <1>5, <1>6, OffRefs

-----------------------------------------------------------------------------
(* Calls and completions.                                                  *)

(* Somebody calls SendPacket.                                              *)
LEMMA CallerRefs ==
    ASSUME LanClientAssumption, RefInv, NEW c \in Caller, Call(c)
    PROVE  RefInv'
  BY WaitsKind, WaitsProgram, RefQuiet DEF LanClientAssumption, Thread, Call, sockVars, OneThread,
     RefInv, ProgramsOK, Waits

(* A worker takes over the reference of what completes.                    *)
LEMMA CompleteRefs ==
    ASSUME LanClientAssumption, RefInv, NEW w \in Worker, Completing(w)
    PROVE  RefInv'
<1>1. w \in Thread /\ w /= monitor /\ monitor \in Thread
  BY DEF LanClientAssumption, Thread
<1>2. /\ UNCHANGED <<ioCount, crash, clientOn, bound>> /\ thread[w] = <<>>
      /\ \E kind \in {"recv", "send"} : Complete(w, kind)
      /\ \/ thread' = [thread EXCEPT ![w] = <<"packet", "dec">>]
         \/ thread' = [thread EXCEPT ![w] = <<"sent", "send_post", "dec">>]
         \/ thread' = [thread EXCEPT ![w] = <<"dec">>]
  BY DEF Completing, Complete_Recv, Complete_Send, Complete_None, Complete, sockVars
<1>3. PICK kind \in {"recv", "send"} : posted[kind] > 0 /\ posted' = [posted EXCEPT ![kind] = @ - 1]
  BY <1>2 DEF Complete
<1>4. /\ OneThread(w)
      /\ thread'[w] \in {<<"packet", "dec">>, <<"sent", "send_post", "dec">>, <<"dec">>}
  BY <1>1, <1>2 DEF OneThread, RefInv, ProgramsOK
<1>5. ~Post(thread[w]) /\ ~Dec(thread[w]) /\ Dec(thread'[w])
  BY <1>2, <1>4, WaitsKind, DecIs DEF Waits
<1>6. ~Post(thread'[w]) /\ ~Rel(thread'[w]) /\ thread'[w] \in Program(w)
  BY <1>4 DEF Post, PostSteps, Rel, ReleaseProgram, EndProgram, Program, WorkerProgram
<1>7. /\ One(Post(thread[w])) = 0 /\ One(Post(thread'[w])) = 0
      /\ One(Dec(thread[w])) = 0 /\ One(Dec(thread'[w])) = 1
  BY <1>5, <1>6 DEF One
<1>8. posted \in [{"recv", "send"} -> Nat] /\ posted' \in [{"recv", "send"} -> Nat]
  BY <1>3 DEF RefInv
<1>9. /\ posted["recv"] \in Nat /\ posted["send"] \in Nat
      /\ posted'["recv"] \in Nat /\ posted'["send"] \in Nat
      /\ posted'["recv"] + posted'["send"] = posted["recv"] + posted["send"] - 1
  BY <1>3, <1>8
<1>10. ioCount \in Nat /\ ioCount > 0
  BY NoRefs, <1>9 DEF RefInv
<1>11. ioCount' - posted'["recv"] - posted'["send"] - One(Post(thread'[w])) - One(Dec(thread'[w]))
         = ioCount - posted["recv"] - posted["send"] - One(Post(thread[w])) - One(Dec(thread[w]))
  <2> DEFINE p == posted["recv"]   q == posted["send"]   pp == posted'["recv"]   qq == posted'["send"]
  <2>1. p \in Nat /\ q \in Nat /\ pp \in Nat /\ qq \in Nat /\ pp + qq = p + q - 1
    BY <1>9
  <2> HIDE DEF p, q, pp, qq
  <2>2. ioCount - pp - qq - 0 - 1 = ioCount - p - q - 0 - 0
    BY <1>10, <2>1
  <2>3. ioCount' = ioCount
    BY <1>2
  <2> QED
    BY <1>7, <2>2, <2>3 DEF p, q, pp, qq
<1>12. thread[monitor] \notin SetupProgram
  BY <1>3, <1>9 DEF RefInv
<1>13. /\ bound' /\ ioCount' \in Int /\ crash' = FALSE /\ clientOn' = clientOn /\ ioCount' = ioCount
  BY <1>2, <1>10 DEF RefInv
<1> QED
  BY <1>1, <1>4, <1>6, <1>8, <1>11, <1>12, <1>13, RefNext

(* A step that concerns no reference.                                      *)
LEMMA SameRefs ==
    ASSUME RefInv, UNCHANGED <<ioCount, posted, crash, clientOn, bound, thread>>
    PROVE  RefInv'
  BY DEF RefInv, ProgramsOK, Refs, Posting, Completers

-----------------------------------------------------------------------------
(* Unless a SendPacket was overtaken.                                      *)
LanInv == late \in BOOLEAN /\ (~late => RefInv)

(* Nothing is under way at first.                                          *)
LEMMA LanInit == ASSUME LanClientAssumption, Init PROVE LanInv
<1>1. monitor \in Thread
  BY DEF Thread
<1>2. \A t \in Thread : thread[t] = <<>> /\ Waits(thread[t]) /\ thread[t] \in Program(t)
  BY WaitsProgram DEF Init, Waits
<1>3. \A t \in Thread : ~Post(thread[t]) /\ ~Dec(thread[t]) /\ ~Rel(thread[t])
                           /\ thread[t] \notin SetupProgram
  BY <1>2, WaitsKind
<1>4. Posting = {} /\ Completers = {}
  BY <1>3, RefsAre
<1>5. IsFiniteSet(Posting) /\ IsFiniteSet(Completers) /\ Refs = 0
  BY FS_EmptySet, <1>4 DEF Refs
<1>6. posted \in [{"recv", "send"} -> Nat] /\ posted["recv"] = 0 /\ posted["send"] = 0
  BY DEF Init
<1>7. crash = FALSE /\ ProgramsOK /\ ioCount = 0
  BY <1>2 DEF Init, ProgramsOK
<1> QED
  <2>1. ioCount = posted["recv"] + posted["send"] + Refs
    BY <1>5, <1>6, <1>7
  <2>2. thread[monitor] \notin SetupProgram /\ thread[monitor] /= <<"recv_post", "SendPacket">>
    BY <1>1, <1>3, NotSetup
  <2>3. RefInv
    BY <1>3, <1>5, <1>6, <1>7, <2>1, <2>2 DEF RefInv
  <2> QED
    BY <2>3 DEF LanInv, Init

(* What was late stays so.                                                 *)
LEMMA LateStays == ASSUME LanInv, [Next]_vars PROVE late' \in BOOLEAN /\ (late => late')
<1>1. CASE UNCHANGED vars
  BY <1>1 DEF LanInv, vars
<1>2. ASSUME NEW t \in Thread, Step(t) PROVE late' \in BOOLEAN /\ (late => late')
  <2>1. late' = late \/ SendPacket(t) \/ Send_Post_Ref(t)
    BY <1>2 DEF Step, ReleaseSession, FreeSendQueuePacket, InitializeSession, SwitchOff, Enqueue,
                Send_Post_Claim, Send_Post_Take, Send_Post_GiveUp, Send_Post, Send_Post_Fail,
                Send_Complete, Recv_Post, WSARecv, Recv_Post_Fail, Recv_Complete,
                Update_WorkerThread_Dec
  <2>2. CASE SendPacket(t)
    BY <2>2 DEF SendPacket, LanInv
  <2>3. CASE Send_Post_Ref(t)
    BY <2>3, Zenon DEF Send_Post_Ref, LanInv
  <2> QED
    BY <2>1, <2>2, <2>3 DEF LanInv
<1>3. ASSUME Connecting PROVE late' \in BOOLEAN /\ (late => late')
  BY <1>3 DEF Connect, LanInv, Connecting, Connect_Connected, Connect_Failed, Connect_Enable,
     Connect_Bind
<1>4. ASSUME NEW w \in Worker, Completing(w) PROVE late' = late
  BY <1>4 DEF Completing, Complete_Recv, Complete_Send, Complete_None
<1>5. ASSUME NEW c \in Caller, Call(c) PROVE late' = late
  BY <1>5 DEF Call
<1>6. CASE Cut
  BY <1>6 DEF Cut, LanInv
<1> QED
  BY <1>1, <1>2, <1>3, <1>4, <1>5, <1>6 DEF Next, LanInv

(* Every step keeps the count, unless it makes late true.                  *)
LEMMA RefStep ==
    ASSUME LanClientAssumption, RefInv, late' = FALSE, [Next]_vars
    PROVE  RefInv'
<1>1. CASE UNCHANGED vars
  BY <1>1, SameRefs DEF vars, sockVars
<1>2. ASSUME NEW t \in Thread, Step(t) PROVE RefInv'
  BY <1>2, ReleaseRefs, FreeRefs, SwitchOffRefs, CallRefs, ClaimRefs, RefSends, WSASendRefs,
     SendFailRefs, SentRefs, RefRecvs, WSARecvRefs, RecvFailRefs, PacketRefs, DecRefs DEF Step
<1>3. ASSUME Connecting PROVE RefInv'
  BY <1>3, ConnectRefs, ConnectingRefs, ConnectFailedRefs DEF Connecting
<1>4. CASE Cut
  BY <1>4, SameRefs DEF Cut
<1> QED
  BY <1>1, <1>2, <1>3, <1>4, CompleteRefs, CallerRefs DEF Next

(* The count of references is what is under way and what threads hold.     *)
THEOREM IoCountIsExact == Spec => []IoCountExact
<1>1. Init => LanInv
  BY LanInit, LanClientAssumption
<1>2. LanInv /\ [Next]_vars => LanInv'
  BY LateStays, RefStep, LanClientAssumption DEF LanInv
<1>3. LanInv => IoCountExact
  BY DEF LanInv, RefInv, IoCountExact
<1> QED
  BY <1>1, <1>2, <1>3, PTL DEF Spec

-----------------------------------------------------------------------------
(* One sender.                                                             *)

(* Who has bSend; who has posted nothing yet; who is at the end of a link. *)
HoldSteps  == {"claimed", "giveup", "post", "WSASend", "unsend", "sent"}
ClaimSteps == {"claimed", "giveup", "post"}

Hold(p)  == p /= <<>> /\ Head(p) \in HoldSteps
Claim(p) == p /= <<>> /\ Head(p) \in ClaimSteps
Clear(p) == p /= <<>> /\ Head(p) \in {"free", "reset"}
Off(p)   == HeadIs(p, "off")

(* From Connect until InitializeSession has reset bSend.                   *)
Alive == clientOn /\ \A t \in Thread : ~Off(thread[t])

(* With bSend one thread, or one send under way, or nobody, if its         *)
(* completion says that the connection is gone; without it nobody.         *)
OneSender ==
    /\ ~bSend => /\ posted["send"] = 0 /\ sendPacketSize = 0
                 /\ \A t \in Thread : ~Hold(thread[t])
    /\ \A t, u \in Thread : Hold(thread[t]) /\ Hold(thread[u]) => t = u
    /\ \A t \in Thread : Hold(thread[t]) => posted["send"] = 0
    /\ posted["send"] \in {0, 1}

SendInv ==
    /\ sendPacketSize \in Nat
    /\ Alive => OneSender
    /\ ~Alive => sendPacketSize = 0 /\ (disconnectNow \/ \A t \in Thread : Waits(thread[t]))
    /\ \A t \in Thread : Rel(thread[t]) /\ Clear(thread[t]) => disconnectNow
    /\ \A t \in Thread : Claim(thread[t]) => sendPacketSize = 0
    /\ thread[monitor] \in SetupProgram => sendPacketSize = 0
    /\ sendPacketSize > 0 /\ posted["send"] = 0 /\ (\A t \in Thread : ~Hold(thread[t]))
          => conn \in {"cut", "closed"}

(* A program that does not begin with any of these.                        *)
Bare(p) == ~Hold(p) /\ ~Claim(p) /\ ~Clear(p) /\ ~Off(p) /\ p \notin SetupProgram

(* What comes second in a program, other than at the end of a link and at  *)
(* its beginning.                                                          *)
Plain == {"send_post", "dec", "SendPacket", "release"}

(* A program that begins with one of these is bare.                        *)
LEMMA PlainBare == ASSUME NEW p, p = <<>> \/ Head(p) \in Plain PROVE Bare(p)
<1>1. CASE p = <<>>
  BY <1>1 DEF Bare, Hold, Claim, Clear, Off, HeadIs, SetupProgram, RecvSteps
<1>2. CASE p /= <<>> /\ Head(p) \in Plain
  <2>1. ~Hold(p) /\ ~Claim(p) /\ ~Clear(p) /\ ~Off(p)
    BY <1>2 DEF Hold, Claim, Clear, Off, HeadIs, Plain, HoldSteps, ClaimSteps
  <2>2. p \notin SetupProgram
    BY <1>2 DEF SetupProgram, RecvSteps, Plain
  <2> QED
    BY <2>1, <2>2 DEF Bare
<1> QED
  BY <1>1, <1>2

(* The second step of each program.                                        *)
LEMMA SecondStep ==
    ASSUME NEW t, NEW p \in Program(t), p /= <<>>, Head(p) \notin {"free", "reset", "connected", "bind"}
    PROVE  Tail(p) = <<>> \/ Head(Tail(p)) \in Plain
<1> DEFINE Two == {<<x, "dec">> : x \in SendSteps \cup RecvSteps \cup {"packet", "sent"}}
                    \cup {<<x, "SendPacket">> : x \in RecvSteps \cup {"release", "off"}}
                    \cup {<<"sent", "release">>, <<"enqueue", "send_post">>}
           One1 == {<<x>> : x \in SendSteps \cup {"dec", "release", "off", "SendPacket", "sent", "connect"}}
<1>1. p \in Two \cup One1 \cup {<<"sent", "send_post", "dec">>}
  BY DEF Program, WorkerProgram, CallProgram, SetupProgram, EndProgram, ReleaseProgram
<1>2. CASE p \in One1
  BY <1>2, TailIs
<1>3. CASE p = <<"sent", "send_post", "dec">>
  BY <1>3, TailIs DEF Plain
<1>4. CASE p \in Two
  BY <1>4, TailIs DEF Plain
<1> QED
  BY <1>1, <1>2, <1>3, <1>4

(* Programs are sequences of steps.                                        *)
Steps == SendSteps \cup RecvSteps
         \cup {"release", "free", "reset", "off", "connect", "connected", "bind", "SendPacket",
               "enqueue", "sent", "packet", "dec"}

(* Short sequences of a set's elements.                                    *)
LEMMA ShortSeq ==
    ASSUME NEW S
    PROVE  /\ <<>> \in Seq(S)
           /\ \A a \in S : <<a>> \in Seq(S)
           /\ \A a, b \in S : <<a, b>> \in Seq(S)
           /\ \A a, b, c \in S : <<a, b, c>> \in Seq(S)
           /\ \A a, b, c, d \in S : <<a, b, c, d>> \in Seq(S)
  OBVIOUS

(* What a thread has left is a sequence of them.                           *)
LEMMA ProgramIsSeq == ASSUME NEW t, NEW p \in Program(t) PROVE p \in Seq(Steps)
<1>1. /\ \A x \in SendSteps \cup RecvSteps : x \in Steps
      /\ \A x \in {"release", "free", "reset", "off", "connect", "connected", "bind", "SendPacket",
               "enqueue", "sent", "packet", "dec"} : x \in Steps
      /\ "recv_post" \in Steps /\ "send_post" \in Steps
  BY DEF Steps, RecvSteps, SendSteps
<1> HIDE DEF Steps
<1>3. ReleaseProgram \cup EndProgram \subseteq Seq(Steps)
  BY <1>1, ShortSeq DEF ReleaseProgram, EndProgram
<1>4. {<<x, "dec">> : x \in SendSteps \cup RecvSteps \cup {"packet", "sent"}} \subseteq Seq(Steps)
  <2> SUFFICES ASSUME NEW x \in SendSteps \cup RecvSteps \cup {"packet", "sent"}
               PROVE  <<x, "dec">> \in Seq(Steps)
    OBVIOUS
  <2>1. x \in Steps /\ "dec" \in Steps
    BY <1>1
  <2> QED
    BY <2>1, ShortSeq
<1>5. {<<x, "SendPacket">> : x \in RecvSteps} \subseteq Seq(Steps)
  <2> SUFFICES ASSUME NEW x \in RecvSteps PROVE <<x, "SendPacket">> \in Seq(Steps)
    OBVIOUS
  <2>1. x \in Steps /\ "SendPacket" \in Steps
    BY <1>1
  <2> QED
    BY <2>1, ShortSeq
<1>6. {<<x>> : x \in SendSteps} \subseteq Seq(Steps)
  BY <1>1, ShortSeq
<1>7. WorkerProgram \subseteq Seq(Steps)
  <2>1. {<<>>, <<"dec">>, <<"sent", "send_post", "dec">>} \subseteq Seq(Steps)
    BY <1>1, ShortSeq
  <2> QED
    BY <1>3, <1>4, <2>1 DEF WorkerProgram
<1>8. CallProgram \subseteq Seq(Steps)
  BY <1>1, ShortSeq, <1>3, <1>6 DEF CallProgram
<1>9. SetupProgram \subseteq Seq(Steps)
  <2>1. {<<"free", "reset", "connect">>, <<"reset", "connect">>, <<"connect">>,
         <<"connected", "bind", "recv_post", "SendPacket">>, <<"bind", "recv_post", "SendPacket">>}
          \subseteq Seq(Steps)
    BY <1>1, ShortSeq
  <2> QED
    BY <1>5, <2>1 DEF SetupProgram
<1> QED
  BY <1>3, <1>7, <1>8, <1>9 DEF Program

(* A thread has done a step, or goes on with another.                      *)
LEMMA MovedOn ==
    ASSUME DOMAIN thread = Thread, NEW t \in Thread, thread[t] \in Program(t), thread[t] /= <<>>
    PROVE  /\ Done(t) /\ Head(thread[t]) \notin {"free", "reset", "connected", "bind"} =>
                 OneThread(t) /\ Bare(thread'[t])
           /\ \A s \in Seq(Steps) : Then(t, s) /\ s /= <<>> =>
                 OneThread(t) /\ HeadIs(thread'[t], Head(s))
  BY ProgramIsSeq, ThenIs, SecondStep, PlainBare DEF Done, HeadIs

(* What the first step says.                                               *)
LEMMA HeadKind ==
    ASSUME NEW p, NEW x, HeadIs(p, x)
    PROVE  /\ Hold(p) <=> x \in HoldSteps
           /\ Claim(p) <=> x \in ClaimSteps
           /\ Clear(p) <=> x \in {"free", "reset"}
           /\ Off(p) <=> x = "off"
           /\ x \in {"claimed", "giveup", "post", "WSASend", "unsend", "sent", "enqueue",
                     "send_post", "release", "off", "dec", "packet", "SendPacket"}
                => p \notin SetupProgram
  BY DEF SetupProgram, RecvSteps, HeadIs, Hold, Claim, Clear, Off

(* Who waits sends nothing.                                                *)
LEMMA WaitsBare == ASSUME NEW p, Waits(p) PROVE Bare(p)
  BY PlainBare DEF Waits, Plain

(* Nor does the monitor thread in Connect.                                 *)
LEMMA SetupSends == ASSUME NEW p \in SetupProgram PROVE ~Hold(p) /\ ~Claim(p) /\ ~Off(p)
  BY DEF SetupProgram, RecvSteps, Hold, Claim, Off, HeadIs, HoldSteps, ClaimSteps

(* Who ends a link is one of whom there are none while there is a          *)
(* reference.                                                              *)
LEMMA OffRel ==
    ASSUME NEW t, NEW p \in Program(t)
    PROVE  /\ Off(p) => Rel(p)
           /\ Clear(p) => Rel(p) \/ p \in SetupProgram
<1>1. Off(p) => Rel(p)
  BY DEF Off, HeadIs, Program, WorkerProgram, CallProgram, SetupProgram, EndProgram, ReleaseProgram,
         SendSteps, RecvSteps, Rel
<1>2. Clear(p) => Rel(p) \/ p \in SetupProgram
  BY DEF Clear, Program, WorkerProgram, CallProgram, SetupProgram, EndProgram, ReleaseProgram,
         SendSteps, RecvSteps, Rel
<1> QED
  BY <1>1, <1>2

(* While anybody has a reference the link has not been ended.              *)
LEMMA RefsAlive == ASSUME RefInv, ioCount /= 0 PROVE Alive
  BY OffRel DEF RefInv, ProgramsOK, Alive

(* Who holds a reference for a send or a completion.                       *)
LEMMA HolderRefs ==
    ASSUME RefInv, NEW t \in Thread, Post(thread[t]) \/ Dec(thread[t])
    PROVE  ioCount /= 0
  BY NoRefs DEF RefInv

(* Steps after which the client is off, or on its way there.               *)
LEMMA DeadNext ==
    ASSUME ~Alive', sendPacketSize' = 0, disconnectNow' \/ \A t \in Thread : Waits(thread'[t])
    PROVE  SendInv'
  BY WaitsKind DEF SendInv

(* Steps of the monitor thread in Connect.                                 *)
LEMMA SetupNext ==
    ASSUME RefInv', thread'[monitor] \in SetupProgram, sendPacketSize' = 0
    PROVE  SendInv'
  BY WaitsBare, WaitsKind, SetupSends, SetupKind DEF RefInv, Bare, Alive, OneSender, SendInv

(* Steps of one thread that change nothing about sends.                    *)
LEMMA SendQuiet ==
    ASSUME SendInv, NEW t \in Thread, OneThread(t),
           UNCHANGED <<bSend, sendPacketSize, clientOn>>, posted'["send"] = posted["send"],
           Hold(thread'[t]) <=> Hold(thread[t]), Claim(thread'[t]) => Claim(thread[t]),
           Off(thread'[t]) <=> Off(thread[t]),
           Clear(thread'[t]) => disconnectNow',
           t = monitor /\ thread'[t] \in SetupProgram => thread[t] \in SetupProgram,
           disconnectNow => disconnectNow',
           ~Alive /\ Waits(thread[t]) => Waits(thread'[t]),
           conn' = conn \/ conn' \in {"cut", "closed"}
    PROVE  SendInv'
  BY DEF Alive, OneThread, SendInv, OneSender, Thread

(* Steps of who sends, while the client is on.                             *)
LEMMA SenderNext ==
    ASSUME RefInv, SendInv, Alive, NEW t \in Thread, OneThread(t), UNCHANGED <<clientOn, disconnectNow>>,
           ~Off(thread[t]), ~Off(thread'[t]), ~Clear(thread'[t]),
           thread[monitor] \notin SetupProgram, thread'[t] \notin SetupProgram,
           \A u \in Thread \ {t} : ~Hold(thread[u]),
           sendPacketSize' \in Nat, posted'["send"] \in {0, 1},
           Hold(thread'[t]) => bSend' /\ posted'["send"] = 0,
           posted'["send"] = 1 => bSend',
           sendPacketSize' > 0 => bSend' /\ ~Claim(thread'[t]),
           sendPacketSize' > 0 /\ posted'["send"] = 0 /\ ~Hold(thread'[t]) => conn' \in {"cut", "closed"}
    PROVE  SendInv'
  BY DEF Alive, OneThread, Hold, Claim, HoldSteps, ClaimSteps, OneSender, SendInv, Thread

(* The same, told by the first steps.                                      *)
LEMMA DoneQuiet ==
    ASSUME RefInv, SendInv, NEW t \in Thread, Done(t), thread[t] /= <<>>,
           Head(thread[t]) \in {"release", "send_post", "enqueue", "WSARecv", "unrecv", "packet", "dec"},
           UNCHANGED <<bSend, sendPacketSize, clientOn>>, posted'["send"] = posted["send"],
           disconnectNow => disconnectNow', conn' = conn \/ conn' \in {"cut", "closed"}
    PROVE  SendInv'
  BY MovedOn, SendQuiet DEF RefInv, ProgramsOK, Hold, HoldSteps, Off, HeadIs, Waits, Bare

(* A thread goes on with another step, of the same kind for sends.         *)
LEMMA ThenQuiet ==
    ASSUME RefInv, SendInv, NEW t \in Thread, NEW s \in Seq(Steps), s /= <<>>, Then(t, s),
           NEW x, HeadIs(thread[t], x),
           x \in HoldSteps <=> Head(s) \in HoldSteps, Head(s) \in ClaimSteps => x \in ClaimSteps,
           x /= "off", x /= "SendPacket" \/ Alive, Head(s) \notin {"off", "free", "reset"},
           t = monitor /\ thread'[t] \in SetupProgram => thread[t] \in SetupProgram,
           UNCHANGED <<bSend, sendPacketSize, clientOn>>, posted'["send"] = posted["send"],
           disconnectNow => disconnectNow', conn' = conn \/ conn' \in {"cut", "closed"}
    PROVE  SendInv'
  BY MovedOn, HeadKind, SendQuiet DEF RefInv, ProgramsOK, HeadIs, Waits

(* ReleaseSession.                                                         *)
LEMMA ReleaseSends ==
    ASSUME LanClientAssumption, RefInv, SendInv, NEW t \in Thread, ReleaseSession(t)
    PROVE  SendInv'
<1>1. /\ At(t, "release") /\ disconnectNow'
      /\ UNCHANGED <<bSend, sendPacketSize, clientOn, posted>> /\ (conn' = conn \/ conn' = "closed")
      /\ Done(t) \/ Then(t, <<"free", "reset", "off">>)
  BY DEF ReleaseSession, sendVars, freeVars
<1>2. HeadIs(thread[t], "release") /\ DOMAIN thread = Thread /\ thread[t] \in Program(t)
  BY <1>1 DEF At, HeadIs, RefInv, ProgramsOK
<1>3. CASE Done(t)
  BY <1>1, <1>2, <1>3, DoneQuiet DEF HeadIs
<1>4. CASE Then(t, <<"free", "reset", "off">>)
  <2>1. OneThread(t) /\ thread'[t] = <<"free", "reset", "off">> \o Tail(thread[t])
    BY <1>2, <1>4, ThenIs
  <2>2. thread'[t] = <<"free", "reset", "off">> \/ thread'[t] = <<"free", "reset", "off", "SendPacket">>
    <3>1. Tail(thread[t]) = <<>> \/ Tail(thread[t]) = <<"SendPacket">>
      BY <1>1, <1>2, AtRelease
    <3>2. CASE Tail(thread[t]) = <<>>
      BY <2>1, <3>2, JoinNone
    <3>3. CASE Tail(thread[t]) = <<"SendPacket">>
      BY <2>1, <3>3, JoinThreeOne
    <3> QED
      BY <3>1, <3>2, <3>3
  <2>3. thread'[t] \notin SetupProgram /\ HeadIs(thread'[t], "free")
    <3>1. CASE thread'[t] = <<"free", "reset", "off">>
      BY <3>1 DEF SetupProgram, RecvSteps, HeadIs
    <3>2. CASE thread'[t] = <<"free", "reset", "off", "SendPacket">>
      BY <3>2 DEF SetupProgram, RecvSteps, HeadIs
    <3> QED
      BY <2>2, <3>1, <3>2
  <2>4. ~Hold(thread'[t]) /\ ~Claim(thread'[t]) /\ ~Off(thread'[t])
    BY <2>3, HeadKind DEF HoldSteps, ClaimSteps
  <2>5. ~Hold(thread[t]) /\ ~Off(thread[t]) /\ ~Waits(thread[t])
    BY <1>2 DEF Hold, HoldSteps, Off, HeadIs, Waits
  <2> QED
    BY <1>1, <2>1, <2>3, <2>4, <2>5, SendQuiet
<1> QED
  BY <1>1, <1>3, <1>4

(* After FreeSentPacket there is no packet left to free.                   *)
LEMMA FreedIs == ASSUME SendInv, FreeSentPacket PROVE sendPacketSize' = 0
  BY DEF FreeSentPacket, SendInv, OneSender

(* FreeSendQueuePacket and InitializeSession.                              *)
LEMMA FreeSends ==
    ASSUME LanClientAssumption, RefInv, RefInv', SendInv, NEW t \in Thread,
           FreeSendQueuePacket(t) \/ InitializeSession(t)
    PROVE  SendInv'
<1>1. /\ Then(t, <<>>) /\ UNCHANGED <<clientOn, disconnectNow, posted, conn>>
      /\ \/ At(t, "free") /\ UNCHANGED <<bSend, sendPacketSize>>
         \/ At(t, "reset") /\ FreeSentPacket
  BY DEF FreeSendQueuePacket, InitializeSession, Done, sockVars
<1>2. DOMAIN thread = Thread /\ thread[t] \in Program(t) /\ thread[t] /= <<>>
  BY <1>1 DEF At, RefInv, ProgramsOK
<1>3. OneThread(t) /\ thread'[t] = <<>> \o Tail(thread[t])
  BY <1>1, <1>2, ThenIs
<1>4. CASE t = monitor /\ thread[t] \in SetupProgram /\ thread'[t] \in SetupProgram
  BY <1>1, <1>4, FreedIs, SetupNext DEF SendInv
<1>5. CASE Rel(thread[t]) /\ Clear(thread[t]) /\ HeadIs(thread'[t], "reset") /\ Rel(thread'[t]) /\ At(t, "free")
  BY <1>5, HeadKind, RelKind, <1>1, <1>3, SendQuiet DEF HoldSteps, ClaimSteps, Clear, Hold, Off,
     HeadIs, Waits, SendInv, At
<1>6. CASE Rel(thread[t]) /\ Clear(thread[t]) /\ Off(thread'[t]) /\ At(t, "reset")
  BY <1>1, <1>6, FreedIs, DeadNext DEF SendInv, Alive, At
<1>7. \/ t = monitor /\ thread[t] \in SetupProgram /\ thread'[t] \in SetupProgram
      \/ Rel(thread[t]) /\ Clear(thread[t]) /\ HeadIs(thread'[t], "reset") /\ Rel(thread'[t]) /\ At(t, "free")
      \/ Rel(thread[t]) /\ Clear(thread[t]) /\ Off(thread'[t]) /\ At(t, "reset")
  <2>1. CASE At(t, "free")
    <3>1. CASE thread[t] = <<"free", "reset", "off">> /\ thread'[t] = <<"reset", "off">>
      BY <3>1, <2>1 DEF Rel, ReleaseProgram, Clear, HeadIs
    <3>2. CASE thread[t] = <<"free", "reset", "off", "SendPacket">> /\ thread'[t] = <<"reset", "off", "SendPacket">>
      BY <3>2, <2>1 DEF Rel, EndProgram, Clear, HeadIs
    <3>3. CASE t = monitor /\ thread[t] = <<"free", "reset", "connect">> /\ thread'[t] = <<"reset", "connect">>
      BY <3>3 DEF SetupProgram
    <3> QED
      BY <1>2, <1>3, <2>1, <3>1, <3>2, <3>3, AtFree, JoinNone
  <2>2. CASE At(t, "reset")
    <3>1. CASE thread[t] = <<"reset", "off">> /\ thread'[t] = <<"off">>
      BY <3>1, <2>2 DEF Rel, ReleaseProgram, Clear, Off, HeadIs
    <3>2. CASE thread[t] = <<"reset", "off", "SendPacket">> /\ thread'[t] = <<"off", "SendPacket">>
      BY <3>2, <2>2 DEF Rel, EndProgram, Clear, Off, HeadIs
    <3>3. CASE t = monitor /\ thread[t] = <<"reset", "connect">> /\ thread'[t] = <<"connect">>
      BY <3>3 DEF SetupProgram
    <3> QED
      BY <1>2, <1>3, <2>2, <3>1, <3>2, <3>3, AtFree, JoinNone
  <2> QED
    BY <1>1, <2>1, <2>2
<1> QED
  BY <1>4, <1>5, <1>6, <1>7

(* _bClientOn = false.                                                     *)
LEMMA SwitchOffSends ==
    ASSUME LanClientAssumption, RefInv, SendInv, NEW t \in Thread, SwitchOff(t)
    PROVE  SendInv'
  BY DeadNext DEF SwitchOff, sendVars, freeVars, Alive, At, Off, HeadIs, Waits, SendInv

(* The steps of Connect.                                                   *)
LEMMA ConnectSends ==
    ASSUME LanClientAssumption, RefInv, RefInv', SendInv, Connecting
    PROVE  SendInv'
<1>0. monitor \in Thread /\ DOMAIN thread = Thread /\ thread[monitor] \in Program(monitor)
  BY DEF Thread, RefInv, ProgramsOK
<1>1. CASE Connect
  BY <1>1, <1>0, SetupNext DEF Connect, SendInv, Alive, freeVars, SetupProgram
<1>2. CASE Connect_Connected
  <2>1. thread[monitor] = <<"connect">> /\ Tail(thread[monitor]) = <<>>
    BY <1>0, <1>2, AtSetup DEF Connect_Connected
  <2>2. thread'[monitor] = <<"connected", "bind", "recv_post", "SendPacket">>
    BY <1>0, <1>2, <2>1, ThenIs, JoinFourNone DEF Connect_Connected
  <2>3. thread[monitor] \in SetupProgram /\ thread'[monitor] \in SetupProgram
    BY <2>1, <2>2 DEF SetupProgram
  <2>4. sendPacketSize' = 0
    BY <1>2, <2>3 DEF Connect_Connected, SendInv, sendVars, freeVars
  <2> QED
    BY <2>3, <2>4, SetupNext
<1>3. CASE Connect_Enable
  <2>1. /\ thread[monitor] = <<"connected", "bind", "recv_post", "SendPacket">>
        /\ Tail(thread[monitor]) = <<"bind", "recv_post", "SendPacket">>
    BY <1>0, <1>3, AtSetup DEF Connect_Enable
  <2>2. thread'[monitor] = <<"bind", "recv_post", "SendPacket">>
    <3>1. thread'[monitor] = <<>> \o Tail(thread[monitor])
      BY <1>0, <1>3, ThenIs DEF Connect_Enable, Done
    <3> QED
      BY <2>1, <3>1, JoinNone
  <2>3. thread[monitor] \in SetupProgram /\ thread'[monitor] \in SetupProgram
    BY <2>1, <2>2 DEF SetupProgram
  <2>4. sendPacketSize' = 0
    BY <1>3, <2>3 DEF Connect_Enable, SendInv, sendVars, freeVars
  <2> QED
    BY <2>3, <2>4, SetupNext
<1>4. CASE Connect_Bind
  <2>1. /\ thread[monitor] = <<"bind", "recv_post", "SendPacket">>
        /\ Tail(thread[monitor]) = <<"recv_post", "SendPacket">>
    BY <1>0, <1>4, AtSetup DEF Connect_Bind
  <2>2. thread'[monitor] = <<"recv_post", "SendPacket">>
    BY <1>0, <1>4, <2>1, ThenIs, JoinNone DEF Connect_Bind, Done
  <2>3. thread[monitor] \in SetupProgram /\ thread'[monitor] \in SetupProgram
    BY <2>1, <2>2 DEF SetupProgram, RecvSteps
  <2>4. sendPacketSize' = 0
    BY <1>4, <2>3 DEF Connect_Bind, SendInv, sendVars, freeVars
  <2> QED
    BY <2>3, <2>4, SetupNext
<1>5. CASE Connect_Failed
  <2>1. thread[monitor] = <<"connect">> /\ Tail(thread[monitor]) = <<>>
    BY <1>0, <1>5, AtSetup DEF Connect_Failed
  <2>2. thread'[monitor] = <<>> /\ OneThread(monitor)
    BY <1>0, <1>5, <2>1, ThenIs, JoinNone DEF Connect_Failed, Done
  <2>3. thread[monitor] \in SetupProgram
    BY <2>1 DEF SetupProgram
  <2>4. sendPacketSize' = 0 /\ ~Alive'
    BY <1>5, <2>3 DEF Connect_Failed, SendInv, sendVars, freeVars, Alive
  <2>5. \A t \in Thread : Waits(thread'[t])
    BY <2>2, <2>3 DEF RefInv, OneThread, Waits
  <2> QED
    BY <2>4, <2>5, DeadNext
<1> QED
  BY <1>1, <1>2, <1>3, <1>4, <1>5 DEF Connecting

(* Steps of SendPacket before send_post.                                   *)
LEMMA CallSends ==
    ASSUME LanClientAssumption, RefInv, SendInv, NEW t \in Thread, SendPacket(t) \/ Enqueue(t)
    PROVE  SendInv'
<1>1. DOMAIN thread = Thread /\ thread[t] \in Program(t)
  BY DEF RefInv, ProgramsOK
<1>2. UNCHANGED <<bSend, sendPacketSize, clientOn, posted, disconnectNow, conn>>
  BY DEF SendPacket, Enqueue, sendVars, freeVars, sockVars
<1>3. CASE Enqueue(t)
  BY <1>3, <1>2, DoneQuiet DEF Enqueue, At
<1>4. CASE SendPacket(t)
  <2>1. At(t, "SendPacket")
    BY <1>4 DEF SendPacket
  <2>2. thread[t] = <<"SendPacket">> /\ HeadIs(thread[t], "SendPacket") /\ Waits(thread[t])
    <3>1. thread[t] = <<"SendPacket">>
      BY <1>1, <2>1, AtCall
    <3> QED
      BY <3>1 DEF HeadIs, Waits
  <2>3. CASE Done(t)
    BY <1>1, <2>1, <2>3, AtCall, <2>2, WaitsBare, <1>2, SendQuiet DEF Waits, Bare
  <2>4. CASE Then(t, <<"enqueue", "send_post">>) /\ clientOn /\ ~disconnectNow
    BY <1>1, <2>1, <2>4, AtCall, WaitsBare, HeadKind, <2>2, <1>2, SendQuiet DEF Bare, SendInv,
       Alive, HeadIs, HoldSteps, ClaimSteps
  <2> QED
    BY <1>4, <2>3, <2>4 DEF SendPacket
<1> QED
  BY <1>3, <1>4

(* Somebody calls SendPacket, who has not begun to send.                   *)
LEMMA CallerSends ==
    ASSUME LanClientAssumption, RefInv, SendInv, NEW c \in Caller, Call(c)
    PROVE  SendInv'
<1>1. c \in Thread /\ DOMAIN thread = Thread
  BY DEF Thread, RefInv, ProgramsOK
<1>2. OneThread(c) /\ thread[c] = <<>> /\ thread'[c] = <<"SendPacket">>
  BY <1>1 DEF Call, OneThread
<1>3. Waits(thread[c]) /\ Waits(thread'[c]) /\ Bare(thread[c]) /\ Bare(thread'[c])
  BY <1>2, WaitsBare DEF Waits
<1>4. UNCHANGED <<bSend, sendPacketSize, clientOn, posted, disconnectNow, conn>>
  BY DEF Call, sendVars, freeVars, sockVars
<1> QED
  BY <1>1, <1>2, <1>3, <1>4, SendQuiet DEF Bare

(* A link that is cut may have sends left that nobody completes.           *)
LEMMA CutSends == ASSUME RefInv, SendInv, Cut PROVE SendInv'
<1>1. monitor \in Thread /\ OneThread(monitor)
  BY DEF Cut, Thread, OneThread, RefInv, ProgramsOK
<1>2. UNCHANGED <<bSend, sendPacketSize, clientOn, posted, disconnectNow, thread>> /\ conn' = "cut"
  BY DEF Cut, sendVars, freeVars
<1> QED
  BY <1>2 DEF SendInv, Alive, OneSender

(* A step that only takes a reference, or gives one up.                    *)
LEMMA UnrefSends ==
    ASSUME LanClientAssumption, RefInv, SendInv, NEW t \in Thread, NEW x \in {"unrecv", "dec"}, At(t, x), Unref(t, <<>>),
           UNCHANGED <<bSend, sendPacketSize, clientOn, posted, disconnectNow, conn>>
    PROVE  SendInv'
<1>1. HeadIs(thread[t], x) /\ x \in {"unrecv", "dec"}
  BY DEF At, HeadIs
<1>2. CASE Done(t)
  BY <1>1, <1>2, DoneQuiet DEF HeadIs
<1>3. CASE Then(t, <<"release">>)
  <2>1. <<"release">> \in Seq(Steps) /\ Head(<<"release">>) = "release"
    BY ShortSeq DEF Steps
  <2>2. HeadIs(thread'[t], "release")
    BY <1>1, <1>3, <2>1, MovedOn DEF HeadIs, RefInv, ProgramsOK
  <2>3. thread'[t] \notin SetupProgram
    BY <2>2, HeadKind
  <2> QED
    BY <1>1, <1>3, <2>1, <2>3, ThenQuiet DEF HoldSteps, ClaimSteps
<1>4. Done(t) \/ Then(t, <<"release">>)
  BY JoinNone DEF Unref, Done
<1> QED
  BY <1>2, <1>3, <1>4

(* Receiving.                                                              *)
LEMMA RecvSends ==
    ASSUME LanClientAssumption, RefInv, SendInv, NEW t \in Thread,
           Recv_Post(t) \/ WSARecv(t) \/ Recv_Post_Fail(t) \/ Recv_Complete(t) \/ Update_WorkerThread_Dec(t)
    PROVE  SendInv'
<1>1. DOMAIN thread = Thread /\ thread[t] \in Program(t)
  BY DEF RefInv, ProgramsOK
<1>2. /\ UNCHANGED <<bSend, sendPacketSize, clientOn, disconnectNow, conn>>
      /\ posted'["send"] = posted["send"]
  BY DEF Recv_Post, WSARecv, Recv_Post_Fail, Recv_Complete, Update_WorkerThread_Dec, sendVars, freeVars, sockVars, RefInv
<1>3. CASE Recv_Post_Fail(t) \/ Update_WorkerThread_Dec(t)
  BY <1>2, <1>3, UnrefSends DEF Recv_Post_Fail, Update_WorkerThread_Dec
<1>4. ASSUME NEW x \in RecvSteps, At(t, x), NEW y \in {"WSARecv", "unrecv"}, Then(t, <<y>>) PROVE SendInv'
  <2>1. <<y>> \in Seq(Steps) /\ Head(<<y>>) = y
    BY ShortSeq DEF Steps, RecvSteps
  <2>2. t = monitor => thread[t] \in SetupProgram
    BY <1>1, <1>4, AtRecv, RecvsKind
  <2>3. HeadIs(thread[t], x)
    BY <1>4 DEF At, HeadIs
  <2> QED
    BY <1>2, <1>4, <2>1, <2>2, <2>3, ThenQuiet DEF HoldSteps, ClaimSteps, RecvSteps
<1>5. CASE Recv_Post(t)
  BY <1>4, <1>5 DEF Recv_Post, RecvSteps
<1>6. CASE WSARecv(t)
  <2>1. CASE Done(t)
    BY <1>2, <1>6, <2>1, DoneQuiet DEF WSARecv, At
  <2>2. CASE Then(t, <<"unrecv">>)
    BY <1>4, <1>6, <2>2 DEF WSARecv, RecvSteps
  <2> QED
    BY <1>6, <2>1, <2>2 DEF WSARecv
<1>7. CASE Recv_Complete(t)
  <2>1. At(t, "packet") /\ HeadIs(thread[t], "packet") /\ t \in Worker
    BY <1>1, <1>7, AtPacket DEF Recv_Complete, At, HeadIs
  <2>2. CASE Done(t)
    BY <1>2, <2>1, <2>2, DoneQuiet DEF HeadIs
  <2>3. CASE Then(t, <<"recv_post">>)
    <3>1. <<"recv_post">> \in Seq(Steps) /\ Head(<<"recv_post">>) = "recv_post"
      BY ShortSeq DEF Steps, RecvSteps
    <3>2. t /= monitor
      BY <2>1 DEF LanClientAssumption
    <3> QED
      BY <1>2, <2>1, <2>3, <3>1, <3>2, ThenQuiet DEF HoldSteps, ClaimSteps
  <2>4. CASE UNCHANGED thread
    BY <1>1, <2>4, <2>1, <1>2, SendQuiet DEF OneThread, Clear, HeadIs
  <2> QED
    BY <1>7, <2>2, <2>3, <2>4 DEF Recv_Complete
<1> QED
  BY <1>3, <1>5, <1>6, <1>7

(* Where a sender is: nobody sets a link up.                               *)
LEMMA SenderAt ==
    ASSUME LanClientAssumption, RefInv, NEW t \in Thread, NEW x, At(t, x), x \in SendSteps \cup {"sent"}
    PROVE  /\ thread[monitor] \notin SetupProgram
           /\ ~Off(thread[t]) /\ ~Waits(thread[t]) /\ HeadIs(thread[t], x)
           /\ thread[t] /= <<>> /\ Head(thread[t]) = x
           /\ (Hold(thread[t]) <=> x \in HoldSteps) /\ (Claim(thread[t]) <=> x \in ClaimSteps)
  BY HeadKind, OthersWait DEF At, HeadIs, Off, Waits, SendSteps

(* With the client off, or on its way there, a sender has nothing to free. *)
LEMMA DeadSends ==
    ASSUME LanClientAssumption, RefInv, SendInv, ~Alive, NEW t \in Thread, NEW x, At(t, x), x \in SendSteps \cup {"sent"},
           OneThread(t), UNCHANGED <<clientOn, disconnectNow>>, sendPacketSize' = 0
    PROVE  SendInv'
  BY SenderAt, DeadNext DEF SendInv, Alive, OneThread

(* send_post before it takes a reference.                                  *)
LEMMA ClaimSends ==
    ASSUME LanClientAssumption, RefInv, SendInv, NEW t \in Thread,
           Send_Post_Claim(t) \/ Send_Post_Take(t) \/ Send_Post_GiveUp(t)
    PROVE  SendInv'
<1>1. DOMAIN thread = Thread /\ thread[t] \in Program(t)
  BY DEF RefInv, ProgramsOK
<1>2. UNCHANGED <<sendPacketSize, clientOn, posted, disconnectNow, conn>>
  BY DEF Send_Post_Claim, Send_Post_Take, Send_Post_GiveUp, sockVars, freeVars
<1>3. CASE Send_Post_Take(t)
  <2>1. HeadIs(thread[t], "claimed") /\ bSend' = bSend
    BY <1>3 DEF Send_Post_Take, At, HeadIs
  <2>2. PICK y \in {"giveup", "post"} : Then(t, <<y>>)
    BY <1>3 DEF Send_Post_Take
  <2>3. <<y>> \in Seq(Steps) /\ Head(<<y>>) = y
    BY ShortSeq DEF Steps, SendSteps
  <2>4. HeadIs(thread'[t], y)
    BY <1>1, <2>1, <2>2, <2>3, MovedOn DEF HeadIs
  <2>5. thread'[t] \notin SetupProgram
    BY <2>4, HeadKind
  <2> QED
    BY <1>2, <2>1, <2>2, <2>3, <2>5, ThenQuiet DEF HoldSteps, ClaimSteps
<1>4. CASE Send_Post_Claim(t)
  <2>0. At(t, "send_post") /\ "send_post" \in SendSteps
    BY <1>4 DEF Send_Post_Claim, SendSteps
  <2>1. /\ thread[monitor] \notin SetupProgram /\ ~Off(thread[t]) /\ ~Waits(thread[t])
        /\ HeadIs(thread[t], "send_post") /\ ~Hold(thread[t]) /\ ~Claim(thread[t])
    BY <2>0, SenderAt DEF HoldSteps, ClaimSteps
  <2>2. CASE Done(t) /\ UNCHANGED bSend
    BY <1>2, <2>1, <2>2, DoneQuiet DEF HeadIs
  <2>3. CASE Then(t, <<"claimed">>) /\ bSend' = TRUE /\ ~bSend
    <3>1. <<"claimed">> \in Seq(Steps) /\ Head(<<"claimed">>) = "claimed"
      BY ShortSeq DEF Steps, SendSteps
    <3>2. OneThread(t) /\ HeadIs(thread'[t], "claimed")
      BY <1>1, <2>1, <2>3, <3>1, MovedOn DEF HeadIs
    <3>3. ~Off(thread'[t]) /\ ~Clear(thread'[t]) /\ thread'[t] \notin SetupProgram
      BY <3>2, HeadKind
    <3>4. CASE Alive
      BY <2>3, <3>4, <1>2, <2>1, <3>2, <3>3, SenderNext DEF SendInv, OneSender
    <3>5. CASE ~Alive
      BY <1>2, <3>5, <2>0, <3>2, DeadSends DEF SendInv
    <3> QED
      BY <3>4, <3>5
  <2> QED
    BY <1>4, <2>2, <2>3 DEF Send_Post_Claim, Sending
<1>5. CASE Send_Post_GiveUp(t)
  BY <1>5, SenderAt, <1>1, MovedOn, <1>2, SenderNext, DeadSends DEF Send_Post_GiveUp, SendSteps,
     HoldSteps, ClaimSteps, HeadIs, SendInv, OneSender, Bare
<1> QED
  BY <1>3, <1>4, <1>5

(* send_post with its reference.                                           *)
LEMMA PostSends ==
    ASSUME LanClientAssumption, RefInv, SendInv, NEW t \in Thread, Len(mine[t]) \in Nat, late' = FALSE,
           Send_Post_Ref(t) \/ Send_Post(t) \/ Send_Post_Fail(t)
    PROVE  SendInv'
<1>1. DOMAIN thread = Thread /\ thread[t] \in Program(t)
  BY DEF RefInv, ProgramsOK
<1>2. UNCHANGED <<clientOn, disconnectNow, conn, bSend>>
  BY DEF Send_Post_Ref, Send_Post, Send_Post_Fail, sockVars, sendVars
<1>3. CASE Send_Post_Ref(t)
  <2>0. /\ At(t, "post") /\ Then(t, <<"WSASend">>) /\ "post" \in SendSteps /\ ioCount /= 0
        /\ sendPacketSize' = Len(mine[t]) /\ posted' = posted
    BY <1>3 DEF Send_Post_Ref, SendSteps
  <2>1. /\ thread[monitor] \notin SetupProgram /\ ~Off(thread[t]) /\ ~Waits(thread[t])
        /\ HeadIs(thread[t], "post") /\ Hold(thread[t])
    BY <2>0, SenderAt DEF HoldSteps
  <2>2. <<"WSASend">> \in Seq(Steps) /\ Head(<<"WSASend">>) = "WSASend"
    BY ShortSeq DEF Steps, SendSteps
  <2>3. OneThread(t) /\ HeadIs(thread'[t], "WSASend")
    BY <1>1, <2>0, <2>1, <2>2, MovedOn DEF HeadIs
  <2>4. ~Off(thread'[t]) /\ ~Clear(thread'[t]) /\ thread'[t] \notin SetupProgram /\ ~Claim(thread'[t]) /\ Hold(thread'[t])
    BY <2>3, HeadKind DEF HoldSteps, ClaimSteps
  <2>5. Alive
    BY <2>0, RefsAlive
  <2>6. bSend /\ posted["send"] = 0 /\ \A u \in Thread \ {t} : ~Hold(thread[u])
    BY <2>1, <2>5 DEF SendInv, OneSender
  <2> QED
    BY <1>2, <2>0, <2>1, <2>3, <2>4, <2>5, <2>6, SenderNext
<1>4. CASE Send_Post(t)
  <2>0. At(t, "WSASend") /\ "WSASend" \in SendSteps /\ sendPacketSize' = sendPacketSize
    BY <1>4 DEF Send_Post, SendSteps, freeVars
  <2>1. /\ thread[monitor] \notin SetupProgram /\ ~Off(thread[t]) /\ ~Waits(thread[t])
        /\ HeadIs(thread[t], "WSASend") /\ Hold(thread[t])
    BY <2>0, SenderAt DEF HoldSteps
  <2>2. CASE Then(t, <<"unsend">>) /\ UNCHANGED posted
    <3>1. <<"unsend">> \in Seq(Steps) /\ Head(<<"unsend">>) = "unsend"
      BY ShortSeq DEF Steps, SendSteps
    <3>2. HeadIs(thread'[t], "unsend")
      BY <1>1, <2>1, <2>2, <3>1, MovedOn DEF HeadIs
    <3>3. thread'[t] \notin SetupProgram
      BY <3>2, HeadKind
    <3> QED
      BY <1>2, <2>0, <2>1, <2>2, <3>1, <3>3, ThenQuiet DEF HoldSteps, ClaimSteps
  <2>3. CASE Done(t) /\ posted' = IF bound THEN [posted EXCEPT !.send = @ + 1] ELSE posted
    <3>1. OneThread(t) /\ Bare(thread'[t])
      BY <1>1, <2>1, <2>3, MovedOn DEF HeadIs
    <3>2. ~Hold(thread'[t]) /\ ~Off(thread'[t]) /\ ~Clear(thread'[t]) /\ ~Claim(thread'[t]) /\ thread'[t] \notin SetupProgram
      BY <3>1 DEF Bare
    <3>3. ioCount /= 0
      BY <2>1, HolderRefs DEF HeadIs, Post, PostSteps
    <3>4. Alive
      BY <3>3, RefsAlive
    <3>5. bSend /\ posted["send"] = 0 /\ (\A u \in Thread \ {t} : ~Hold(thread[u])) /\ sendPacketSize \in Nat
      BY <2>1, <3>4 DEF SendInv, OneSender
    <3>6. bound
      BY NoRefs, <3>3 DEF RefInv
    <3>7. posted'["send"] = 1
      BY <2>3, <3>5, <3>6 DEF RefInv
    <3> QED
      BY <1>2, <2>0, <2>1, <3>1, <3>2, <3>4, <3>5, <3>7, SenderNext
  <2> QED
    BY <1>4, <2>2, <2>3 DEF Send_Post
<1>5. CASE Send_Post_Fail(t)
  <2>0. HeadIs(thread[t], "unsend") /\ UNCHANGED <<sendPacketSize, posted>> /\ Unref(t, <<"sent">>)
    BY <1>5 DEF Send_Post_Fail, At, HeadIs, sendVars, freeVars
  <2>1. PICK s \in {<<"sent">>, <<"sent", "release">>} : Then(t, s)
    BY JoinNone, JoinOneOne, <2>0 DEF Unref
  <2>2. s \in Seq(Steps) /\ s /= <<>> /\ Head(s) = "sent"
    <3>1. "sent" \in Steps /\ "release" \in Steps
      BY DEF Steps
    <3>2. <<"sent">> \in Seq(Steps) /\ <<"sent", "release">> \in Seq(Steps)
      BY <3>1, ShortSeq
    <3>3. /\ <<"sent">> /= <<>> /\ Head(<<"sent">>) = "sent"
          /\ <<"sent", "release">> /= <<>> /\ Head(<<"sent", "release">>) = "sent"
      OBVIOUS
    <3> QED
      BY <3>2, <3>3
  <2>3. HeadIs(thread'[t], "sent")
    BY <1>1, <2>0, <2>1, <2>2, MovedOn DEF HeadIs
  <2>4. thread'[t] \notin SetupProgram
    BY <2>3, HeadKind
  <2> QED
    BY <1>2, <2>0, <2>1, <2>2, <2>4, ThenQuiet DEF HoldSteps, ClaimSteps
<1> QED
  BY <1>3, <1>4, <1>5

(* send_complete frees what was sent, and lets the next one send.          *)
LEMMA SentSends ==
    ASSUME LanClientAssumption, RefInv, SendInv, NEW t \in Thread, Send_Complete(t)
    PROVE  SendInv'
<1>1. DOMAIN thread = Thread /\ thread[t] \in Program(t)
  BY DEF RefInv, ProgramsOK
<1>2. /\ UNCHANGED <<clientOn, disconnectNow, conn, posted>> /\ bSend' = FALSE
      /\ At(t, "sent") /\ Done(t) /\ FreeSentPacket
  BY DEF Send_Complete, sockVars
<1>3. /\ thread[monitor] \notin SetupProgram /\ ~Off(thread[t])
      /\ HeadIs(thread[t], "sent") /\ Hold(thread[t])
  BY <1>2, SenderAt DEF HoldSteps
<1>4. OneThread(t) /\ Bare(thread'[t])
  BY <1>1, <1>2, <1>3, MovedOn DEF HeadIs
<1>5. sendPacketSize' = 0
  BY <1>2, FreedIs
<1>6. CASE Alive
  BY <1>3, <1>6, <1>2, <1>4, <1>5, SenderNext DEF SendInv, OneSender, Bare
<1>7. CASE ~Alive
  BY <1>2, <1>4, <1>5, <1>7, DeadSends
<1> QED
  BY <1>6, <1>7

(* Completions.                                                            *)
LEMMA CompleteSends ==
    ASSUME LanClientAssumption, RefInv, SendInv, NEW w \in Worker, Completing(w)
    PROVE  SendInv'
<1>1. w \in Thread /\ w /= monitor /\ monitor \in Thread /\ DOMAIN thread = Thread
  BY DEF LanClientAssumption, Thread, RefInv, ProgramsOK
<1>2. UNCHANGED <<clientOn, disconnectNow, conn, bSend, sendPacketSize>>
  BY DEF Completing, Complete_Recv, Complete_Send, Complete_None, sockVars, sendVars, freeVars
<1>3. PICK kind \in {"recv", "send"} :
        /\ Complete(w, kind)
        /\ \/ kind = "recv" /\ thread' = [thread EXCEPT ![w] = <<"packet", "dec">>]
           \/ kind = "send" /\ thread' = [thread EXCEPT ![w] = <<"sent", "send_post", "dec">>]
           \/ conn \in {"cut", "closed"} /\ thread' = [thread EXCEPT ![w] = <<"dec">>]
  BY DEF Completing, Complete_Recv, Complete_Send, Complete_None
<1>4. /\ OneThread(w) /\ thread[w] = <<>>
      /\ \/ kind = "recv" /\ thread'[w] = <<"packet", "dec">>
         \/ kind = "send" /\ thread'[w] = <<"sent", "send_post", "dec">>
         \/ conn \in {"cut", "closed"} /\ thread'[w] = <<"dec">>
  BY <1>1, <1>3 DEF Complete, OneThread
<1>5. /\ posted \in [{"recv", "send"} -> Nat] /\ posted[kind] > 0
      /\ posted' = [posted EXCEPT ![kind] = @ - 1]
  BY <1>3 DEF Complete, RefInv
<1>6. ioCount /= 0 /\ thread[monitor] \notin SetupProgram
  BY NoRefs, <1>5 DEF RefInv
<1>7. Alive
  BY <1>6, RefsAlive
<1>8. Waits(thread[w]) /\ Bare(thread[w])
  BY <1>4, WaitsBare DEF Waits
<1>9. /\ ~Off(thread'[w]) /\ ~Clear(thread'[w]) /\ ~Claim(thread'[w]) /\ thread'[w] \notin SetupProgram
      /\ Hold(thread'[w]) <=> thread'[w] = <<"sent", "send_post", "dec">>
  BY HeadKind, <1>4 DEF HeadIs, HoldSteps, ClaimSteps
<1>10. CASE kind = "recv"
  BY <1>5, <1>10, <1>4, <1>9, <1>1, <1>2, <1>7, <1>8, SendQuiet DEF Bare
<1>11. CASE kind = "send"
  <2>1. posted["send"] = 1 /\ bSend /\ \A u \in Thread : ~Hold(thread[u])
    BY <1>5, <1>7, <1>11 DEF SendInv, OneSender
  <2>2. posted'["send"] = 0
    BY <1>5, <1>11, <2>1
  <2>3. sendPacketSize \in Nat /\ ~Off(thread[w])
    BY <1>8 DEF SendInv, Bare
  <2>4. ~Hold(thread'[w]) => conn' \in {"cut", "closed"}
    BY <1>2, <1>4, <1>9, <1>11
  <2> QED
    BY <1>1, <1>2, <1>4, <1>6, <1>7, <1>9, <2>1, <2>2, <2>3, <2>4, SenderNext
<1> QED
  BY <1>10, <1>11

(* The steps of SendInv.                                                   *)
LEMMA SendStep ==
    ASSUME LanClientAssumption, RefInv, RefInv', SendInv, late' = FALSE, Next,
           \A t \in Thread : Len(mine[t]) \in Nat
    PROVE  SendInv'
<1>1. ASSUME NEW t \in Thread, Step(t) PROVE SendInv'
  BY <1>1, ReleaseSends, FreeSends, SwitchOffSends, CallSends, ClaimSends, PostSends, SentSends,
     RecvSends DEF Step
<1> QED
  BY <1>1, ConnectSends, CompleteSends, CallerSends, CutSends DEF Next

-----------------------------------------------------------------------------
(* The packets.                                                            *)

Pack == [no : Nat, link : Nat]

(* How many packets have left sendq; those in packetBuffer; those a thread *)
(* has taken but not yet counted into it.                                  *)
Gone == queued - Len(sendq)
Sent == {packetBuffer[i] : i \in 1 .. sendPacketSize}
Held == {p \in Pack : \E t \in Thread : HeadIs(thread[t], "post") /\ \E i \in 1 .. Len(mine[t]) : p = mine[t][i]}
Out  == Sent \cup Held

Rising(s) == \A i, j \in 1 .. Len(s) : i < j => s[i].no < s[j].no

PackTypes ==
    /\ link \in Nat /\ queued \in Nat /\ Len(sendq) <= queued
    /\ sendq \in Seq(Pack) /\ packetBuffer \in Seq(Pack) /\ wire \in Seq(Pack)
    /\ mine \in [Thread -> Seq(Pack)] /\ freed \subseteq Pack
    /\ sendPacketSize \in Nat /\ sendPacketSize <= Len(packetBuffer)

Cleaning == thread[monitor] = <<"free", "reset", "connect">>

(* The queue's packets are numbered on from those that have left it, and   *)
(* are this link's, but for Connect's beginning.                           *)
QueueOK == \A i \in 1 .. Len(sendq) : sendq[i].no = Gone + i /\ (~Cleaning => sendq[i].link = link)

WireOK ==
    /\ Rising(wire)
    /\ \A i \in 1 .. Len(wire) : wire[i].link = link /\ wire[i].no <= Gone

(* What a thread has taken comes after what was sent.                      *)
MineOK == \A t \in Thread :
    /\ mine[t] /= <<>> => HeadIs(thread[t], "post") \/ HeadIs(thread[t], "WSASend")
    /\ Rising(mine[t])
    /\ \A i \in 1 .. Len(mine[t]) :
          /\ mine[t][i].link = link /\ mine[t][i].no <= Gone
          /\ \A j \in 1 .. Len(wire) : wire[j].no < mine[t][i].no

BufferOK == \A t \in Thread : HeadIs(thread[t], "post") =>
    /\ Len(mine[t]) <= Len(packetBuffer)
    /\ \A i \in 1 .. Len(mine[t]) : packetBuffer[i] = mine[t][i]

(* Each packet that has left the queue is freed or about to be sent.       *)
FreedOK ==
    /\ twice = FALSE /\ freed \cap Out = {}
    /\ \A p, q \in freed \cup Out : p.no = q.no => p = q
    /\ \A p \in freed \cup Out : p.no \in 1 .. Gone
    /\ \A n \in 1 .. Gone : \E p \in freed \cup Out : p.no = n

PackInv == PackTypes /\ QueueOK /\ WireOK /\ MineOK /\ BufferOK /\ FreedOK

(* The packets' types, as they are used.                                   *)
LEMMA PacksTyped ==
    ASSUME PackTypes
    PROVE  /\ Gone \in Nat /\ Out \subseteq Pack /\ Sent \subseteq Pack
           /\ Len(sendq) \in Nat /\ Len(wire) \in Nat /\ Len(packetBuffer) \in Nat
           /\ \A t \in Thread : mine[t] \in Seq(Pack) /\ Len(mine[t]) \in Nat
           /\ \A i \in 1 .. Len(sendq) : sendq[i] \in Pack
  BY DEF PackTypes, Gone, Sent, Out, Held

(* Steps that concern no packet.                                           *)
LEMMA PackQuiet ==
    ASSUME PackInv, NEW t \in Thread, OneThread(t),
           UNCHANGED <<link, queued, sendq, packetBuffer, sendPacketSize, freed, twice, mine, wire>>,
           ~HeadIs(thread[t], "post"), ~HeadIs(thread[t], "WSASend"), ~HeadIs(thread'[t], "post"),
           Cleaning => Cleaning'
    PROVE  PackInv'
<1>1. \A u \in Thread : HeadIs(thread'[u], "post") <=> HeadIs(thread[u], "post")
  BY DEF OneThread
<1>2. Gone' = Gone /\ Sent' = Sent
  BY DEF Gone, Sent
<1>3. Held' = Held
  BY <1>1 DEF Held
<1>4. Out' = Out
  BY <1>2, <1>3 DEF Out
<1>5. PackTypes'
  BY DEF PackInv, PackTypes
<1>6. QueueOK'
  BY <1>2 DEF PackInv, QueueOK
<1>7. WireOK'
  BY <1>2 DEF PackInv, WireOK, Rising
<1>8. MineOK'
  BY <1>2 DEF PackInv, MineOK, OneThread, Rising
<1>9. BufferOK'
  BY <1>1 DEF PackInv, BufferOK
<1>10. FreedOK'
  BY <1>2, <1>4 DEF PackInv, FreedOK
<1> QED
  BY <1>5, <1>6, <1>7, <1>8, <1>9, <1>10 DEF PackInv

(* The set of a sequence's elements.                                       *)
LEMMA SetOf == ASSUME NEW S, NEW s \in Seq(S) PROVE ToSet(s) = {s[i] : i \in 1 .. Len(s)}
  BY DEF ToSet

(* The same of its first n.                                                *)
LEMMA SetOfFirst ==
    ASSUME NEW S, NEW s \in Seq(S), NEW n \in Nat, n <= Len(s)
    PROVE  ToSet(SubSeq(s, 1, n)) = {s[i] : i \in 1 .. n}
<1> DEFINE w == SubSeq(s, 1, n)
<1>1. w \in Seq(S) /\ Len(w) = n /\ \A i \in 1 .. n : w[i] = s[i]
  OBVIOUS
<1> HIDE DEF w
<1>2. ToSet(w) = {w[i] : i \in 1 .. n}
  BY <1>1, SetOf
<1>3. {w[i] : i \in 1 .. n} = {s[i] : i \in 1 .. n}
  BY <1>1
<1> QED
  BY <1>2, <1>3 DEF w

(* FreeSendQueuePacket frees what was never taken.                         *)
LEMMA FreePacks ==
    ASSUME PackInv, NEW t \in Thread, OneThread(t), FreeSendQueuePacket(t), ~HeadIs(thread'[t], "post")
    PROVE  PackInv'
<1> USE DEF PackInv
<1>1. /\ UNCHANGED <<link, queued, packetBuffer, sendPacketSize, mine, wire>>
      /\ sendq' = <<>> /\ freed' = freed \cup ToSet(sendq)
      /\ twice' = (twice \/ ToSet(sendq) \cap freed /= {}) /\ HeadIs(thread[t], "free")
  BY DEF FreeSendQueuePacket, sockVars, Free, At, HeadIs
<1>2. Gone \in Nat /\ queued \in Nat /\ Len(sendq) \in Nat /\ Gone + Len(sendq) = queued /\ Gone' = queued
  BY <1>1, PacksTyped DEF PackTypes, Gone
<1>3. ToSet(sendq) = {sendq[i] : i \in 1 .. Len(sendq)}
  BY SetOf DEF PackTypes
<1>4. \A i \in 1 .. Len(sendq) : sendq[i] \in Pack /\ sendq[i].no = Gone + i
  BY PacksTyped DEF QueueOK
<1>5. \A u \in Thread : HeadIs(thread'[u], "post") <=> HeadIs(thread[u], "post")
  BY <1>1 DEF OneThread, HeadIs
<1>6. Out' = Out
  BY <1>1, <1>5 DEF Out, Sent, Held
<1>7. PackTypes'
  BY <1>1, <1>2, <1>3, <1>4 DEF PackTypes
<1>8. QueueOK'
  BY <1>1 DEF QueueOK
<1>9. WireOK'
  <2>1. \A i \in 1 .. Len(wire) : wire[i] \in Pack
    BY DEF PackTypes
  <2>2. \A i \in 1 .. Len(wire) : wire[i].no <= queued
    BY <1>2, <2>1 DEF WireOK, Pack
  <2> QED
    BY <1>1, <1>2, <2>2 DEF WireOK, Rising
<1>10. MineOK'
  <2>1. mine[t] = <<>>
    BY <1>1 DEF MineOK, HeadIs
  <2>2. \A u \in Thread : mine[u] /= <<>> => thread'[u] = thread[u]
    BY <2>1 DEF OneThread
  <2>3. \A u \in Thread : \A i \in 1 .. Len(mine[u]) : mine[u][i] \in Pack
    BY DEF PackTypes
  <2>4. \A u \in Thread : \A i \in 1 .. Len(mine[u]) : mine[u][i].no <= queued
    BY <1>2, <2>3 DEF MineOK, Pack
  <2> QED
    BY <1>1, <1>2, <2>2, <2>4 DEF MineOK, Rising
<1>11. BufferOK'
  BY <1>1, <1>5 DEF BufferOK
<1>12. FreedOK'
  <2>1. \A p \in freed \cup Out : p.no \in 1 .. Gone
    BY DEF FreedOK
  <2>2. \A p \in ToSet(sendq) : p.no \in Gone + 1 .. queued
    BY <1>2, <1>3, <1>4
  <2>3. ToSet(sendq) \cap (freed \cup Out) = {}
    BY <1>2, <2>1, <2>2
  <2>4. twice' = FALSE /\ freed' \cap Out' = {}
    BY <1>1, <1>6, <2>3 DEF FreedOK
  <2>5. freed' \cup Out' = freed \cup Out \cup ToSet(sendq)
    BY <1>1, <1>6
  <2>6. \A p, q \in ToSet(sendq) : p.no = q.no => p = q
    BY <1>3, <1>4, <1>2
  <2>7. \A p, q \in freed' \cup Out' : p.no = q.no => p = q
    BY <1>2, <2>1, <2>2, <2>5, <2>6 DEF FreedOK
  <2>8. \A p \in freed' \cup Out' : p.no \in 1 .. Gone'
    BY <1>2, <2>1, <2>2, <2>5
  <2>9. \A n \in 1 .. Gone' : \E p \in freed' \cup Out' : p.no = n
    <3> SUFFICES ASSUME NEW n \in 1 .. queued PROVE \E p \in freed \cup Out \cup ToSet(sendq) : p.no = n
      BY <1>2, <2>5
    <3>1. CASE n <= Gone
      BY <1>2, <3>1 DEF FreedOK
    <3>2. CASE n > Gone
      <4>1. n - Gone \in 1 .. Len(sendq) /\ Gone + (n - Gone) = n
        BY <1>2, <3>2
      <4> QED
        BY <1>3, <1>4, <4>1
    <3> QED
      BY <1>2, <3>1, <3>2
  <2> QED
    BY <2>4, <2>7, <2>8, <2>9 DEF FreedOK
<1> QED
  BY <1>7, <1>8, <1>9, <1>10, <1>11, <1>12

(* FreeSentPacket frees what was sent.                                     *)
LEMMA SentPacks ==
    ASSUME SendInv, PackInv, NEW t \in Thread, OneThread(t), InitializeSession(t) \/ Send_Complete(t),
           ~HeadIs(thread'[t], "post"), Cleaning => Cleaning'
    PROVE  PackInv'
<1> USE DEF PackInv
<1>1. /\ UNCHANGED <<link, queued, packetBuffer, sendq, mine, wire>>
      /\ HeadIs(thread[t], "reset") \/ HeadIs(thread[t], "sent")
      /\ FreeSentPacket
  BY DEF InitializeSession, Send_Complete, sockVars, At, HeadIs
<1>2. /\ sendPacketSize' = 0 /\ freed' = freed \cup Sent
      /\ twice' = (twice \/ Sent \cap freed /= {})
  <2>1. sendPacketSize' = 0
    BY <1>1, FreedIs
  <2>2. CASE bSend /\ sendPacketSize > 0
    BY SetOfFirst, <1>1, <2>1, <2>2 DEF PackTypes, Sent, FreeSentPacket, Free
  <2>3. CASE ~(bSend /\ sendPacketSize > 0)
    <3>1. sendPacketSize = 0
      BY <2>3 DEF SendInv, OneSender
    <3>2. Sent = {}
      BY <3>1 DEF Sent
    <3>3. freed' = freed /\ twice' = twice
      BY <1>1, <2>3 DEF FreeSentPacket
    <3>4. twice = FALSE
      BY DEF FreedOK
    <3> QED
      BY <2>1, <3>2, <3>3, <3>4
  <2> QED
    BY <2>2, <2>3
<1>3. \A u \in Thread : HeadIs(thread'[u], "post") <=> HeadIs(thread[u], "post")
  BY <1>1 DEF OneThread, HeadIs
<1>4. Sent' = {} /\ Held' = Held /\ Gone' = Gone
  BY <1>1, <1>2, <1>3 DEF Sent, Held, Gone
<1>5. Sent = {} \/ Held = {}
  BY DEF Held, HeadIs, Claim, ClaimSteps, Sent, SendInv
<1>6. freed' \cup Out' = freed \cup Out /\ freed' \cap Out' = {} /\ twice' = FALSE
  BY <1>2, <1>4, <1>5, Zenon DEF FreedOK, Out
<1>7. PackTypes'
  BY PacksTyped, <1>1, <1>2 DEF PackTypes
<1>8. QueueOK' /\ WireOK'
  BY <1>1, <1>4 DEF QueueOK, WireOK, Rising
<1>9. MineOK'
  BY <1>1, <1>4 DEF MineOK, HeadIs, OneThread, Rising
<1>10. BufferOK'
  BY <1>1, <1>3 DEF BufferOK
<1>11. FreedOK'
  BY <1>4, <1>6 DEF FreedOK
<1> QED
  BY <1>7, <1>8, <1>9, <1>10, <1>11

(* Enqueue numbers a packet of this link.                                  *)
LEMMA EnqueuePacks ==
    ASSUME PackInv, NEW t \in Thread, OneThread(t), Enqueue(t), ~HeadIs(thread'[t], "post"),
           ~Cleaning, ~Cleaning'
    PROVE  PackInv'
<1> USE DEF PackInv
<1> DEFINE new == [no |-> queued + 1, link |-> link]
<1>1. /\ UNCHANGED <<link, packetBuffer, sendPacketSize, mine, wire, freed, twice>>
      /\ queued' = queued + 1 /\ sendq' = Append(sendq, new) /\ HeadIs(thread[t], "enqueue")
  BY DEF Enqueue, sockVars, freeVars, At, HeadIs
<1>2. Gone \in Nat /\ queued \in Nat /\ Len(sendq) \in Nat /\ Gone + Len(sendq) = queued /\ new \in Pack
  <2>1. Gone \in Nat /\ queued \in Nat /\ Len(sendq) \in Nat /\ link \in Nat
    BY PacksTyped DEF PackTypes
  <2>2. Gone + Len(sendq) = queued
    BY <2>1 DEF Gone
  <2>3. new \in Pack
    BY <2>1 DEF Pack
  <2> QED
    BY <2>1, <2>2, <2>3
<1>3. new.no = queued + 1 /\ new.link = link
  OBVIOUS
<1> HIDE DEF new
<1>4. /\ sendq' \in Seq(Pack) /\ Len(sendq') = Len(sendq) + 1 /\ sendq'[Len(sendq) + 1] = new
      /\ \A i \in 1 .. Len(sendq) : sendq'[i] = sendq[i]
  BY <1>1, <1>2 DEF PackTypes
<1>5. Gone' = Gone
  BY <1>1, <1>2, <1>4 DEF Gone
<1>6. \A u \in Thread : HeadIs(thread'[u], "post") <=> HeadIs(thread[u], "post")
  BY <1>1 DEF OneThread, HeadIs
<1>7. Out' = Out
  BY <1>1, <1>6 DEF Out, Sent, Held
<1>8. PackTypes'
  BY <1>1, <1>2, <1>4 DEF PackTypes
<1>9. QueueOK'
  <2> SUFFICES ASSUME NEW i \in 1 .. Len(sendq') PROVE sendq'[i].no = Gone + i /\ sendq'[i].link = link
    BY <1>1, <1>5 DEF QueueOK
  <2>1. CASE i = Len(sendq) + 1
    BY <1>2, <1>3, <1>4, <2>1
  <2>2. CASE i /= Len(sendq) + 1
    BY <1>2, <1>4, <2>2 DEF QueueOK
  <2> QED
    BY <2>1, <2>2
<1>10. WireOK'
  BY <1>1, <1>5 DEF WireOK, Rising
<1>11. MineOK'
  BY <1>1, <1>5 DEF MineOK, HeadIs, OneThread, Rising
<1>12. BufferOK'
  BY <1>1, <1>6 DEF BufferOK
<1>13. FreedOK'
  BY <1>1, <1>5, <1>7 DEF FreedOK
<1> QED
  BY <1>8, <1>9, <1>10, <1>11, <1>12, <1>13

(* send_post takes the whole queue.                                        *)
LEMMA TakePacks ==
    ASSUME PackInv, NEW t \in Thread, OneThread(t), HeadIs(thread[t], "claimed"), HeadIs(thread'[t], "post"),
           ~Cleaning, ~Cleaning', sendPacketSize = 0, \A u \in Thread \ {t} : ~Hold(thread[u]),
           UNCHANGED <<link, queued, sendPacketSize, freed, twice, wire>>,
           packetBuffer' = sendq \o SubSeq(packetBuffer, Len(sendq) + 1, Len(packetBuffer)),
           mine' = [mine EXCEPT ![t] = sendq], sendq' = <<>>
    PROVE  PackInv'
<1> USE DEF PackInv
<1>1. Gone \in Nat /\ queued \in Nat /\ Len(sendq) \in Nat /\ Gone + Len(sendq) = queued /\ Gone' = queued
  BY PacksTyped DEF PackTypes, Gone
<1>2. \A i \in 1 .. Len(sendq) : sendq[i] \in Pack /\ sendq[i].no = Gone + i /\ sendq[i].link = link
  BY PacksTyped DEF QueueOK
<1>3. mine' \in [Thread -> Seq(Pack)] /\ mine'[t] = sendq
  BY DEF PackTypes
<1>4. \A u \in Thread \ {t} : /\ ~HeadIs(thread[u], "post") /\ ~HeadIs(thread[u], "WSASend")
                              /\ mine[u] = <<>> /\ thread'[u] = thread[u] /\ mine'[u] = <<>>
  BY DEF Hold, HoldSteps, HeadIs, MineOK, OneThread, PackTypes
<1>5. /\ packetBuffer' \in Seq(Pack) /\ Len(sendq) <= Len(packetBuffer')
      /\ \A i \in 1 .. Len(sendq) : packetBuffer'[i] = sendq[i]
  <2> DEFINE rest == SubSeq(packetBuffer, Len(sendq) + 1, Len(packetBuffer))
  <2>1. rest \in Seq(Pack)
    BY <1>1 DEF PackTypes
  <2>2. sendq \in Seq(Pack)
    BY DEF PackTypes
  <2>3. packetBuffer' = sendq \o rest
    OBVIOUS
  <2> HIDE DEF rest
  <2> QED
    BY <2>1, <2>2, <2>3
<1>6. Held = {} /\ Sent = {} /\ Sent' = {}
  BY <1>4 DEF HeadIs, Held, Sent
<1>7. Held' = {sendq[i] : i \in 1 .. Len(sendq)}
  BY <1>4, <1>3, <1>2 DEF Held
<1>8. PackTypes'
  BY <1>1, <1>3, <1>5 DEF PackTypes
<1>9. QueueOK'
  BY DEF QueueOK
<1>10. WireOK'
  <2>1. \A i \in 1 .. Len(wire) : wire[i] \in Pack
    BY DEF PackTypes
  <2>2. \A i \in 1 .. Len(wire) : wire[i].no <= queued
    BY <1>1, <2>1 DEF WireOK, Pack
  <2> QED
    BY <1>1, <2>2 DEF WireOK, Rising
<1>11. MineOK'
  <2>1. Rising(sendq)
    BY <1>1, <1>2 DEF Rising
  <2>2. \A i \in 1 .. Len(wire) : wire[i].no \in Nat /\ wire[i].no <= Gone
    <3>1. \A i \in 1 .. Len(wire) : wire[i] \in Pack
      BY DEF PackTypes
    <3> QED
      BY <3>1 DEF WireOK, Pack
  <2>3. \A i \in 1 .. Len(sendq) : /\ sendq[i].link = link /\ sendq[i].no <= queued
                                   /\ \A j \in 1 .. Len(wire) : wire[j].no < sendq[i].no
    BY <1>1, <1>2, <2>2
  <2>4. Rising(<<>>) /\ Len(<<>>) = 0
    BY DEF Rising
  <2>5. \A u \in Thread : mine'[u] = sendq \/ mine'[u] = <<>>
    BY <1>3, <1>4
  <2>6. \A u \in Thread : Rising(mine'[u])
    BY <2>1, <2>4, <2>5
  <2>7. \A u \in Thread : \A i \in 1 .. Len(mine'[u]) : mine'[u] = sendq
    BY <2>4, <2>5
  <2>8. \A u \in Thread : mine'[u] /= <<>> => HeadIs(thread'[u], "post")
    BY <1>4
  <2>9. \A u \in Thread : Rising(mine[u])'
    BY <2>6 DEF Rising
  <2> QED
    BY <1>1, <2>3, <2>7, <2>8, <2>9 DEF MineOK
<1>12. BufferOK'
  BY <1>3, <1>4, <1>5 DEF BufferOK
<1>13. FreedOK'
  <2> DEFINE taken == {sendq[i] : i \in 1 .. Len(sendq)}
  <2>1. \A p \in freed : p.no \in 1 .. Gone
    BY DEF FreedOK
  <2>2. \A p \in taken : p.no \in Gone + 1 .. queued
    BY <1>1, <1>2
  <2>3. Out = {} /\ Out' = taken
    BY <1>6, <1>7 DEF Out
  <2>4. taken \cap freed = {}
    BY <1>1, <2>1, <2>2
  <2>5. twice' = FALSE /\ freed' \cap Out' = {}
    BY <2>3, <2>4 DEF FreedOK
  <2>6. \A p, q \in taken : p.no = q.no => p = q
    BY <1>2, <1>1
  <2>7. \A p, q \in freed' \cup Out' : p.no = q.no => p = q
    <3>1. \A n : ~(n \in 1 .. Gone /\ n \in Gone + 1 .. queued)
      BY <1>1
    <3>2. \A p, q \in freed : p.no = q.no => p = q
      BY DEF FreedOK
    <3> HIDE DEF taken
    <3> QED
      BY <2>1, <2>2, <2>3, <2>6, <3>1, <3>2
  <2>8. \A p \in freed' \cup Out' : p.no \in 1 .. Gone'
    <3>1. \A n : n \in 1 .. Gone \/ n \in Gone + 1 .. queued => n \in 1 .. queued
      BY <1>1
    <3> HIDE DEF taken
    <3> QED
      BY <1>1, <2>1, <2>2, <2>3, <3>1
  <2>9. \A n \in 1 .. Gone' : \E p \in freed' \cup Out' : p.no = n
    <3> SUFFICES ASSUME NEW n \in 1 .. queued PROVE \E p \in freed \cup taken : p.no = n
      BY <1>1, <2>3
    <3>1. CASE n <= Gone
      BY <1>1, <2>3, <3>1 DEF FreedOK
    <3>2. CASE n > Gone
      <4>1. n - Gone \in 1 .. Len(sendq) /\ Gone + (n - Gone) = n
        BY <1>1, <3>2
      <4> QED
        BY <1>2, <4>1
    <3> QED
      BY <1>1, <3>1, <3>2
  <2> QED
    BY <2>5, <2>7, <2>8, <2>9 DEF FreedOK
<1> QED
  BY <1>8, <1>9, <1>10, <1>11, <1>12, <1>13

(* It counts what it has taken.                                            *)
LEMMA CountPacks ==
    ASSUME PackInv, NEW t \in Thread, OneThread(t), HeadIs(thread[t], "post"), HeadIs(thread'[t], "WSASend"),
           ~Cleaning, sendPacketSize = 0, \A u \in Thread \ {t} : ~Hold(thread[u]),
           UNCHANGED <<link, queued, sendq, packetBuffer, freed, twice, mine, wire>>,
           sendPacketSize' = Len(mine[t])
    PROVE  PackInv'
<1> USE DEF PackInv
<1>1. \A u \in Thread \ {t} : ~HeadIs(thread[u], "post") /\ ~HeadIs(thread'[u], "post") /\ thread'[u] = thread[u]
  BY DEF Hold, HoldSteps, HeadIs, OneThread
<1>2. ~HeadIs(thread'[t], "post")
  BY DEF HeadIs
<1>3. mine[t] \in Seq(Pack) /\ Len(mine[t]) \in Nat /\ Len(mine[t]) <= Len(packetBuffer)
  BY DEF PackTypes, BufferOK
<1>4. Sent' = Held
  BY <1>1, <1>3 DEF Held, BufferOK, Sent
<1>5. Held' = {} /\ Sent = {}
  BY <1>1, <1>2 DEF Held, Sent
<1>6. Out' = Out /\ Gone' = Gone
  BY <1>4, <1>5 DEF Out, Gone
<1>7. PackTypes'
  BY <1>3 DEF PackTypes
<1>8. QueueOK' /\ WireOK'
  BY <1>6 DEF QueueOK, WireOK, Rising
<1>9. MineOK'
  BY <1>1, <1>6 DEF MineOK, Rising
<1>10. BufferOK'
  BY <1>1, <1>2 DEF BufferOK
<1>11. FreedOK'
  BY <1>6 DEF FreedOK
<1> QED
  BY <1>7, <1>8, <1>9, <1>10, <1>11

(* WSASend: what was taken goes out after what was sent, or is lost.       *)
LEMMA WSASendPacks ==
    ASSUME PackInv, NEW t \in Thread, OneThread(t), HeadIs(thread[t], "WSASend"), ~HeadIs(thread'[t], "post"),
           Cleaning => Cleaning', \A u \in Thread \ {t} : mine[u] = <<>>,
           UNCHANGED <<link, queued, sendq, packetBuffer, sendPacketSize, freed, twice>>,
           mine' = [mine EXCEPT ![t] = <<>>], wire' = wire \o mine[t] \/ wire' = wire
    PROVE  PackInv'
<1> USE DEF PackInv
<1>1. Gone' = Gone /\ Sent' = Sent
  BY DEF Gone, Sent
<1>2. ~HeadIs(thread[t], "post")
  BY DEF HeadIs
<1>3. mine' \in [Thread -> Seq(Pack)] /\ \A u \in Thread : mine'[u] = <<>>
  BY DEF PackTypes
<1>4. Held = {} /\ Held' = {}
  BY <1>2, <1>3 DEF Held
<1>5. Out' = Out
  BY <1>1, <1>4 DEF Out
<1>6. mine[t] \in Seq(Pack) /\ wire \in Seq(Pack)
  BY DEF PackTypes
<1>7. CASE wire' = wire
  <2>1. PackTypes'
    BY <1>3, <1>7 DEF PackTypes
  <2>2. WireOK'
    BY <1>1, <1>7 DEF WireOK, Rising
  <2> QED
    BY <1>1, <1>3, <1>5, <2>1, <2>2 DEF QueueOK, MineOK, Rising, PackTypes, BufferOK, FreedOK
<1>8. CASE wire' = wire \o mine[t]
  <2> DEFINE a == Len(wire)   b == Len(mine[t])
  <2>0. a \in Nat /\ b \in Nat
    BY <1>6
  <2>1. /\ wire' \in Seq(Pack) /\ Len(wire') = a + b
        /\ \A i \in 1 .. a + b : wire'[i] = IF i <= a THEN wire[i] ELSE mine[t][i - a]
    BY <1>6, <1>8
  <2>2. PackTypes'
    BY <1>3, <2>1 DEF PackTypes
  <2>3. /\ \A i \in 1 .. a : wire[i].link = link /\ wire[i].no <= Gone
        /\ \A i \in 1 .. b : mine[t][i].link = link /\ mine[t][i].no <= Gone
        /\ \A i \in 1 .. b : \A j \in 1 .. a : wire[j].no < mine[t][i].no
        /\ \A i, j \in 1 .. a : i < j => wire[i].no < wire[j].no
        /\ \A i, j \in 1 .. b : i < j => mine[t][i].no < mine[t][j].no
    BY DEF WireOK, MineOK, Rising
  <2> HIDE DEF a, b
  <2>4. \A i \in 1 .. a + b : /\ i <= a => i \in 1 .. a
                              /\ ~(i <= a) => i - a \in 1 .. b
    BY <2>0
  <2>5. \A i \in 1 .. a + b : wire'[i].link = link /\ wire'[i].no <= Gone
    BY <2>1, <2>3, <2>4
  <2>6. \A i, j \in 1 .. a + b : i < j => wire'[i].no < wire'[j].no
    <3> SUFFICES ASSUME NEW i \in 1 .. a + b, NEW j \in 1 .. a + b, i < j
                 PROVE  wire'[i].no < wire'[j].no
      OBVIOUS
    <3>1. CASE j <= a
      BY <2>0, <3>1, <2>1, <2>3, <2>4
    <3>2. CASE ~(j <= a) /\ i <= a
      BY <2>1, <2>3, <2>4, <3>2
    <3>3. CASE ~(j <= a) /\ ~(i <= a)
      <4>1. i - a < j - a
        BY <2>0
      <4> QED
        BY <2>1, <2>3, <2>4, <3>3, <4>1
    <3> QED
      BY <3>1, <3>2, <3>3
  <2>7. WireOK'
    BY <1>1, <2>1, <2>5, <2>6 DEF WireOK, Rising
  <2> QED
    BY <1>1, <1>3, <1>5, <2>2, <2>7 DEF QueueOK, MineOK, Rising, PackTypes, BufferOK, FreedOK
<1> QED
  BY <1>7, <1>8

(* A link begins with nothing sent on it, and nobody sending.              *)
LEMMA ConnectPacks ==
    ASSUME LanClientAssumption, RefInv, PackInv, Connect, late' = FALSE
    PROVE  PackInv'
<1> USE DEF PackInv
<1>1. /\ thread[monitor] = <<>> /\ ~clientOn /\ link' = link + 1 /\ wire' = <<>>
      /\ thread' = [thread EXCEPT ![monitor] = <<"free", "reset", "connect">>]
      /\ \A c \in Caller : ~Inside(c)
      /\ UNCHANGED <<queued, sendq, packetBuffer, sendPacketSize, freed, twice, mine>>
  BY DEF Connect, freeVars
<1>2. monitor \in Thread /\ DOMAIN thread = Thread /\ crash = FALSE
  BY DEF Thread, RefInv, ProgramsOK
<1>3. \A t \in Thread : ~HeadIs(thread[t], "post") /\ ~HeadIs(thread[t], "WSASend")
  <2>1. ioCount = 0
    BY <1>1 DEF RefInv
  <2>2. \A t \in Thread : ~Dec(thread[t])
    BY NoRefs, <2>1 DEF RefInv
  <2>3. ASSUME NEW t \in Thread, NEW x \in {"post", "WSASend"}, HeadIs(thread[t], x) PROVE FALSE
    BY <1>2, <2>3, <2>2, SendKinds, <1>1 DEF At, HeadIs, SendSteps, RefInv, ProgramsOK, Thread,
       Inside
  <2> QED
    BY <2>3
<1>4. thread'[monitor] = <<"free", "reset", "connect">> /\ \A t \in Thread \ {monitor} : thread'[t] = thread[t]
  BY <1>1, <1>2
<1>5. \A t \in Thread : ~HeadIs(thread'[t], "post")
  BY <1>3, <1>4 DEF HeadIs
<1>6. Held = {} /\ Held' = {} /\ Sent' = Sent /\ Gone' = Gone
  BY <1>1, <1>3, <1>5 DEF Held, Sent, Gone
<1>7. \A t \in Thread : mine[t] = <<>>
  BY <1>3 DEF MineOK
<1>8. PackTypes'
  BY <1>1 DEF PackTypes
<1>9. QueueOK'
  BY <1>1, <1>4, <1>6 DEF QueueOK, Cleaning
<1>10. WireOK'
  BY <1>1 DEF WireOK, Rising
<1>11. MineOK'
  BY <1>1, <1>7 DEF MineOK, Rising
<1>12. BufferOK'
  BY <1>5 DEF BufferOK
<1>13. FreedOK'
  BY <1>1, <1>6 DEF FreedOK, Out
<1> QED
  BY <1>8, <1>9, <1>10, <1>11, <1>12, <1>13

(* Only the monitor thread ends the beginning of Connect.                  *)
LEMMA StillCleaning ==
    ASSUME NEW t \in Thread, OneThread(t), ~HeadIs(thread[t], "free")
    PROVE  Cleaning => Cleaning'
  BY DEF Cleaning, HeadIs, OneThread, Thread

(* Nobody else does anything during it.                                    *)
LEMMA NeverCleaning ==
    ASSUME RefInv, NEW t \in Thread, OneThread(t), ~Waits(thread[t]),
           ~HeadIs(thread[t], "free"), ~HeadIs(thread'[t], "free")
    PROVE  ~Cleaning /\ ~Cleaning'
<1>1. <<"free", "reset", "connect">> /= <<>> /\ Head(<<"free", "reset", "connect">>) = "free"
  OBVIOUS
<1>2. CASE t = monitor
  BY <1>1, <1>2 DEF Cleaning, HeadIs
<1>3. CASE t /= monitor
  BY <1>3, OthersWait DEF OneThread, Thread, SetupProgram, Cleaning
<1> QED
  BY <1>2, <1>3

(* Steps of one thread that concern no packet.                             *)
LEMMA QuietPacks ==
    ASSUME RefInv, PackInv, NEW t \in Thread, NEW s \in Seq(Steps), Then(t, s), thread[t] /= <<>>,
           Head(thread[t]) \notin {"post", "WSASend", "free", "reset", "connected", "bind"},
           s = <<>> \/ (s /= <<>> /\ Head(s) /= "post"),
           UNCHANGED <<link, queued, sendq, packetBuffer, sendPacketSize, freed, twice, mine, wire>>
    PROVE  PackInv'
  BY MovedOn, StillCleaning, PackQuiet DEF RefInv, ProgramsOK, Done, Bare, Hold, HoldSteps, HeadIs

(* Programs put in front of what is left.                                  *)
LEMMA StepSeqs ==
    /\ <<>> \in Seq(Steps)
    /\ \A x \in Steps : <<x>> \in Seq(Steps) /\ <<x>> /= <<>> /\ Head(<<x>>) = x
    /\ \A x, y \in Steps : <<x, y>> \in Seq(Steps) /\ <<x, y>> /= <<>> /\ Head(<<x, y>>) = x
    /\ \A x, y, z \in Steps : <<x, y, z>> \in Seq(Steps) /\ <<x, y, z>> /= <<>> /\ Head(<<x, y, z>>) = x
    /\ {"release", "sent", "enqueue", "send_post", "claimed", "giveup", "unsend", "WSARecv", "unrecv", "recv_post",
        "free", "reset", "off"} \subseteq Steps
<1>1. {"release", "sent", "enqueue", "send_post", "claimed", "giveup", "unsend", "WSARecv", "unrecv", "recv_post",
        "free", "reset", "off"} \subseteq Steps
  BY DEF Steps, SendSteps, RecvSteps
<1> HIDE DEF Steps
<1>2. \A x \in Steps : <<x>> \in Seq(Steps) /\ <<x>> /= <<>> /\ Head(<<x>>) = x
  OBVIOUS
<1>3. \A x, y \in Steps : <<x, y>> \in Seq(Steps) /\ <<x, y>> /= <<>> /\ Head(<<x, y>>) = x
  OBVIOUS
<1>4. \A x, y, z \in Steps : <<x, y, z>> \in Seq(Steps) /\ <<x, y, z>> /= <<>> /\ Head(<<x, y, z>>) = x
  OBVIOUS
<1> QED
  BY <1>1, <1>2, <1>3, <1>4

(* What comes after Unref.                                                 *)
LEMMA UnrefThen ==
    ASSUME NEW t, NEW s \in {<<>>, <<"sent">>}, Unref(t, s)
    PROVE  \E p \in Seq(Steps) : Then(t, p) /\ (p = <<>> \/ (p /= <<>> /\ Head(p) /= "post"))
<1>1. /\ <<>> \o <<>> = <<>> /\ <<>> \o <<"release">> = <<"release">>
      /\ <<"sent">> \o <<>> = <<"sent">> /\ <<"sent">> \o <<"release">> = <<"sent", "release">>
  BY JoinNone, JoinOneOne
<1>2. \E p \in {<<>>, <<"release">>, <<"sent">>, <<"sent", "release">>} : Then(t, p)
  BY <1>1 DEF Unref
<1>3. \A p \in {<<>>, <<"release">>, <<"sent">>, <<"sent", "release">>} :
         p \in Seq(Steps) /\ (p = <<>> \/ (p /= <<>> /\ Head(p) /= "post"))
  <2>1. "release" \in Steps /\ "sent" \in Steps
    BY StepSeqs
  <2>2. /\ <<"release">> \in Seq(Steps) /\ <<"release">> /= <<>> /\ Head(<<"release">>) = "release"
        /\ <<"sent">> \in Seq(Steps) /\ <<"sent">> /= <<>> /\ Head(<<"sent">>) = "sent"
        /\ <<"sent", "release">> \in Seq(Steps) /\ <<"sent", "release">> /= <<>>
        /\ Head(<<"sent", "release">>) = "sent" /\ <<>> \in Seq(Steps)
    BY <2>1, StepSeqs
  <2> QED
    BY <2>2
<1> QED
  BY <1>2, <1>3

(* The steps of a thread that put nothing into a packet's way.             *)
LEMMA OtherPacks ==
    ASSUME RefInv, PackInv, NEW t \in Thread,
           \/ ReleaseSession(t) \/ SwitchOff(t) \/ SendPacket(t) \/ Send_Post_Claim(t) \/ Send_Post_GiveUp(t)
           \/ Send_Post_Fail(t) \/ Recv_Post(t) \/ WSARecv(t) \/ Recv_Post_Fail(t) \/ Recv_Complete(t)
           \/ Update_WorkerThread_Dec(t)
    PROVE  PackInv'
<1>1. UNCHANGED <<link, queued, sendq, packetBuffer, sendPacketSize, freed, twice, mine, wire>>
  BY DEF ReleaseSession, SwitchOff, SendPacket, Send_Post_Claim, Send_Post_GiveUp,
         Send_Post_Fail, Recv_Post, WSARecv, Recv_Post_Fail, Recv_Complete,
         Update_WorkerThread_Dec, sendVars, freeVars, sockVars
<1>2. \E x \in {"release", "off", "SendPacket", "send_post", "giveup", "unsend", "recv_post", "WSARecv", "unrecv",
                "packet", "dec"} : At(t, x)
  BY DEF ReleaseSession, SwitchOff, SendPacket, Send_Post_Claim, Send_Post_GiveUp,
         Send_Post_Fail, Recv_Post, WSARecv, Recv_Post_Fail, Recv_Complete, Update_WorkerThread_Dec
<1>3. thread[t] /= <<>> /\ Head(thread[t]) \notin {"post", "WSASend", "free", "reset", "connected", "bind"}
  BY <1>2 DEF At
<1>4. CASE Unref(t, <<>>) \/ Unref(t, <<"sent">>)
  BY <1>1, <1>3, <1>4, UnrefThen, QuietPacks
<1>5. CASE UNCHANGED thread
  BY <1>5, <1>3, <1>1, StillCleaning, PackQuiet DEF OneThread, RefInv, ProgramsOK, HeadIs
<1>6. CASE \E p \in {<<>>, <<"free", "reset", "off">>, <<"enqueue", "send_post">>, <<"claimed">>, <<"WSARecv">>,
                     <<"unrecv">>, <<"recv_post">>} : Then(t, p)
  <2>1. PICK p \in {<<>>, <<"free", "reset", "off">>, <<"enqueue", "send_post">>, <<"claimed">>, <<"WSARecv">>,
                    <<"unrecv">>, <<"recv_post">>} : Then(t, p)
    BY <1>6
  <2>2. p \in Seq(Steps) /\ (p = <<>> \/ (p /= <<>> /\ Head(p) /= "post"))
    <3>1. CASE p = <<>>
      BY <3>1, StepSeqs
    <3>2. CASE p = <<"free", "reset", "off">>
      BY StepSeqs, <3>2
    <3>3. CASE p = <<"enqueue", "send_post">>
      BY StepSeqs, <3>3
    <3>4. ASSUME NEW x \in {"claimed", "WSARecv", "unrecv", "recv_post"}, p = <<x>>
          PROVE  p \in Seq(Steps) /\ p /= <<>> /\ Head(p) /= "post"
      BY StepSeqs, <3>4
    <3> QED
      BY <2>1, <3>1, <3>2, <3>3, <3>4
  <2> QED
    BY <1>1, <1>3, <2>1, <2>2, QuietPacks
<1>7. \/ Unref(t, <<>>) \/ Unref(t, <<"sent">>) \/ UNCHANGED thread
      \/ \E p \in {<<>>, <<"free", "reset", "off">>, <<"enqueue", "send_post">>, <<"claimed">>, <<"WSARecv">>,
                   <<"unrecv">>, <<"recv_post">>} : Then(t, p)
  BY DEF ReleaseSession, SwitchOff, SendPacket, Send_Post_Claim, Send_Post_GiveUp,
         Send_Post_Fail, Recv_Post, WSARecv, Recv_Post_Fail, Recv_Complete,
         Update_WorkerThread_Dec, Done
<1> QED
  BY <1>4, <1>5, <1>6, <1>7

(* The steps of a thread that put packets into the queue, take them out or *)
(* free them.                                                              *)
LEMMA MovePacks ==
    ASSUME LanClientAssumption, RefInv, SendInv, PackInv, late' = FALSE, NEW t \in Thread,
           \/ FreeSendQueuePacket(t) \/ InitializeSession(t) \/ Send_Complete(t) \/ Enqueue(t)
           \/ Send_Post_Take(t) \/ Send_Post_Ref(t) \/ Send_Post(t)
    PROVE  PackInv'
<1>0. DOMAIN thread = Thread /\ thread[t] \in Program(t)
  BY DEF RefInv, ProgramsOK
<1>1. CASE FreeSendQueuePacket(t) \/ InitializeSession(t)
  <2>1. Then(t, <<>>) /\ ((At(t, "free") /\ FreeSendQueuePacket(t)) \/ (At(t, "reset") /\ InitializeSession(t)))
    BY <1>1 DEF FreeSendQueuePacket, InitializeSession, Done
  <2>2. OneThread(t) /\ thread'[t] = <<>> \o Tail(thread[t])
    BY <1>0, <2>1, ThenIs
  <2>3. thread'[t] = <<>> \/ Head(thread'[t]) \in {"reset", "off", "connect"}
    BY <1>0, <2>1, AtFree, <2>2, JoinNone
  <2>4. ~HeadIs(thread'[t], "post")
    BY <2>3 DEF HeadIs
  <2>5. CASE At(t, "reset") /\ InitializeSession(t)
    BY <2>5, <2>2, <2>4, StillCleaning, SentPacks DEF At, HeadIs
  <2> QED
    BY <2>1, <2>2, <2>4, <2>5, FreePacks
<1>2. CASE Send_Complete(t)
  BY <1>2, <1>0, MovedOn, StillCleaning, SentPacks DEF Send_Complete, At, Bare, Hold, HoldSteps,
     HeadIs
<1>3. CASE Enqueue(t)
  <2>1. At(t, "enqueue") /\ Done(t)
    BY <1>3 DEF Enqueue
  <2>2. thread[t] /= <<>> /\ Head(thread[t]) = "enqueue"
    BY <2>1 DEF At
  <2>3. OneThread(t) /\ Bare(thread'[t])
    BY <1>0, <2>1, <2>2, MovedOn
  <2>4. ~HeadIs(thread'[t], "post") /\ ~HeadIs(thread[t], "free") /\ ~HeadIs(thread'[t], "free") /\ ~Waits(thread[t])
    BY <2>2, <2>3 DEF Bare, Hold, HoldSteps, Clear, HeadIs, Waits
  <2> QED
    BY <1>3, <2>3, <2>4, NeverCleaning, EnqueuePacks
<1>4. CASE Send_Post_Take(t)
  <2>1. At(t, "claimed") /\ "claimed" \in SendSteps
    BY <1>4 DEF Send_Post_Take, SendSteps
  <2>2. /\ HeadIs(thread[t], "claimed") /\ thread[t] /= <<>> /\ Head(thread[t]) = "claimed"
        /\ Hold(thread[t]) /\ Claim(thread[t]) /\ ~Waits(thread[t])
    BY <2>1, SenderAt DEF HoldSteps, ClaimSteps
  <2>3. CASE Then(t, <<"giveup">>) /\ UNCHANGED <<sendq, packetBuffer, mine>>
    BY StepSeqs, <1>4, <2>2, <2>3, QuietPacks DEF Send_Post_Take, sockVars
  <2>4. CASE /\ ~disconnectNow /\ sendq' = <<>> /\ Then(t, <<"post">>)
             /\ packetBuffer' = sendq \o SubSeq(packetBuffer, Len(sendq) + 1, Len(packetBuffer))
             /\ mine' = [mine EXCEPT ![t] = sendq]
    <3>1. OneThread(t) /\ HeadIs(thread'[t], "post")
      <4>1. <<"post">> \in Seq(Steps) /\ <<"post">> /= <<>> /\ Head(<<"post">>) = "post"
        BY ShortSeq DEF Steps, SendSteps
      <4> QED
        BY <1>0, <2>2, <2>4, <4>1, MovedOn
    <3>2. Alive
      BY <2>2, <2>4 DEF SendInv
    <3>3. sendPacketSize = 0 /\ \A u \in Thread \ {t} : ~Hold(thread[u])
      BY <2>2, <3>2 DEF SendInv, OneSender
    <3>4. UNCHANGED <<link, queued, sendPacketSize, freed, twice, wire>>
      BY <1>4 DEF Send_Post_Take, sockVars
    <3>5. ~HeadIs(thread[t], "free") /\ ~HeadIs(thread'[t], "free")
      BY <2>2, <3>1 DEF HeadIs
    <3>6. ~Cleaning /\ ~Cleaning'
      BY <2>2, <3>1, <3>5, NeverCleaning
    <3> QED
      BY <2>2, <2>4, <3>1, <3>3, <3>4, <3>6, TakePacks
  <2> QED
    BY <1>4, <2>3, <2>4 DEF Send_Post_Take
<1>5. CASE Send_Post_Ref(t)
  <2>1. At(t, "post") /\ "post" \in SendSteps /\ Then(t, <<"WSASend">>) /\ ioCount /= 0 /\ sendPacketSize' = Len(mine[t])
    BY <1>5 DEF Send_Post_Ref, SendSteps
  <2>2. /\ HeadIs(thread[t], "post") /\ thread[t] /= <<>> /\ Hold(thread[t]) /\ Claim(thread[t]) /\ ~Waits(thread[t])
    BY <2>1, SenderAt DEF HoldSteps, ClaimSteps
  <2>3. OneThread(t) /\ HeadIs(thread'[t], "WSASend")
    <3>1. <<"WSASend">> \in Seq(Steps) /\ <<"WSASend">> /= <<>> /\ Head(<<"WSASend">>) = "WSASend"
      BY ShortSeq DEF Steps, SendSteps
    <3> QED
      BY <1>0, <2>1, <2>2, <3>1, MovedOn
  <2>4. sendPacketSize = 0 /\ \A u \in Thread \ {t} : ~Hold(thread[u])
    BY <2>1, <2>2, RefsAlive DEF SendInv, OneSender
  <2>5. ~HeadIs(thread[t], "free") /\ ~HeadIs(thread'[t], "free")
    BY <2>2, <2>3 DEF HeadIs
  <2>6. UNCHANGED <<link, queued, sendq, packetBuffer, freed, twice, mine, wire>>
    BY <1>5 DEF Send_Post_Ref, sockVars
  <2>7. ~Cleaning
    BY <2>2, <2>3, <2>5, NeverCleaning
  <2> QED
    BY <2>1, <2>2, <2>3, <2>4, <2>6, <2>7, CountPacks
<1>6. CASE Send_Post(t)
  <2>1. At(t, "WSASend") /\ "WSASend" \in SendSteps
    BY <1>6 DEF Send_Post, SendSteps
  <2>2. /\ HeadIs(thread[t], "WSASend") /\ thread[t] /= <<>> /\ Head(thread[t]) = "WSASend" /\ Hold(thread[t])
    BY <2>1, SenderAt DEF HoldSteps
  <2>3. OneThread(t) /\ ~HeadIs(thread'[t], "post")
    <3>1. CASE Done(t)
      BY <1>0, <2>2, <3>1, MovedOn DEF Bare, Hold, HoldSteps, HeadIs
    <3>2. CASE Then(t, <<"unsend">>)
      <4>1. <<"unsend">> \in Seq(Steps) /\ <<"unsend">> /= <<>> /\ Head(<<"unsend">>) = "unsend"
        BY ShortSeq DEF Steps, SendSteps
      <4>2. OneThread(t) /\ HeadIs(thread'[t], "unsend")
        BY <1>0, <2>2, <3>2, <4>1, MovedOn
      <4> QED
        BY <4>2 DEF HeadIs
    <3> QED
      BY <1>6, <3>1, <3>2 DEF Send_Post
  <2>4. \A u \in Thread \ {t} : mine[u] = <<>>
    BY <2>2, HolderRefs, RefsAlive DEF Post, PostSteps, SendInv, OneSender, PackInv, MineOK, Hold,
       HoldSteps, HeadIs
  <2>5. /\ UNCHANGED <<link, queued, sendq, packetBuffer, sendPacketSize, freed, twice>>
        /\ mine' = [mine EXCEPT ![t] = <<>>] /\ (wire' = wire \o mine[t] \/ wire' = wire)
    BY <1>6 DEF Send_Post, sockVars, freeVars
  <2>6. ~HeadIs(thread[t], "free")
    BY <2>2 DEF HeadIs
  <2> QED
    BY <2>2, <2>3, <2>4, <2>5, <2>6, StillCleaning, WSASendPacks
<1> QED
  BY <1>1, <1>2, <1>3, <1>4, <1>5, <1>6

(* The other actions.                                                      *)
LEMMA ElsePacks ==
    ASSUME LanClientAssumption, RefInv, PackInv, late' = FALSE,
           Connecting \/ Cut \/ (\E w \in Worker : Completing(w)) \/ (\E c \in Caller : Call(c))
    PROVE  PackInv'
<1>0. monitor \in Thread /\ DOMAIN thread = Thread /\ thread[monitor] \in Program(monitor)
  BY DEF Thread, RefInv, ProgramsOK
<1>1. CASE Connect
  BY <1>1, ConnectPacks
<1>2. CASE Connect_Connected \/ Connect_Enable \/ Connect_Bind \/ Connect_Failed
  <2>1. UNCHANGED <<link, queued, sendq, packetBuffer, sendPacketSize, freed, twice, mine, wire>>
    BY <1>2 DEF Connect_Connected, Connect_Enable, Connect_Bind, Connect_Failed, sendVars, freeVars, sockVars
  <2>2. \E x \in {"connect", "connected", "bind"} : At(monitor, x)
    BY <1>2 DEF Connect_Connected, Connect_Enable, Connect_Bind, Connect_Failed
  <2>3. ~HeadIs(thread[monitor], "post") /\ ~HeadIs(thread[monitor], "WSASend") /\ ~HeadIs(thread[monitor], "free")
    BY <2>2 DEF HeadIs, At
  <2>4. OneThread(monitor) /\ ~HeadIs(thread'[monitor], "post")
    <3>1. CASE Connect_Connected
      <4>1. /\ At(monitor, "connect")
            /\ Then(monitor, <<"connected", "bind", "recv_post", "SendPacket">>)
        BY <3>1 DEF Connect_Connected
      <4>2. OneThread(monitor) /\ thread'[monitor] = <<"connected", "bind", "recv_post", "SendPacket">>
        BY <1>0, <4>1, AtSetup, ThenIs, JoinFourNone
      <4> QED
        BY <4>2 DEF HeadIs
    <3>2. CASE Connect_Enable \/ Connect_Bind \/ Connect_Failed
      BY <3>2, <1>0, ThenIs, <2>2, AtSetup, JoinNone DEF Connect_Enable, Connect_Bind,
         Connect_Failed, Done, HeadIs
    <3> QED
      BY <1>2, <3>1, <3>2
  <2> QED
    BY <1>0, <2>1, <2>3, <2>4, StillCleaning, PackQuiet
<1>3. CASE Cut
  <2>1. UNCHANGED <<thread, link, queued, sendq, packetBuffer, sendPacketSize, freed, twice, mine, wire>>
    BY <1>3 DEF Cut, sendVars, freeVars
  <2>2. /\ Gone' = Gone /\ Out' = Out
    BY <2>1 DEF Gone, Out, Sent, Held
  <2> QED
    BY <2>1, <2>2 DEF PackInv, PackTypes, QueueOK, Cleaning, WireOK, MineOK, BufferOK, FreedOK, Rising
<1>4. ASSUME NEW w \in Thread, thread[w] = <<>>, NEW p, thread' = [thread EXCEPT ![w] = p], ~HeadIs(p, "post"),
             UNCHANGED <<link, queued, sendq, packetBuffer, sendPacketSize, freed, twice, mine, wire>>
      PROVE  PackInv'
  BY <1>0, <1>4, StillCleaning, PackQuiet DEF OneThread, HeadIs
<1>5. ASSUME NEW w \in Worker, Completing(w) PROVE PackInv'
  <2>1. UNCHANGED <<link, queued, sendq, packetBuffer, sendPacketSize, freed, twice, mine, wire>>
    BY <1>5 DEF Completing, Complete_Recv, Complete_Send, Complete_None, sendVars, freeVars, sockVars
  <2>2. /\ thread[w] = <<>>
        /\ \E p \in {<<"packet", "dec">>, <<"sent", "send_post", "dec">>, <<"dec">>} : thread' = [thread EXCEPT ![w] = p]
    BY <1>5 DEF Completing, Complete_Recv, Complete_Send, Complete_None, Complete
  <2>3. \A p \in {<<"packet", "dec">>, <<"sent", "send_post", "dec">>, <<"dec">>} : ~HeadIs(p, "post")
    BY DEF HeadIs
  <2>4. w \in Thread
    BY DEF Thread
  <2> QED
    BY <1>4, <2>1, <2>2, <2>3, <2>4
<1>6. ASSUME NEW c \in Caller, Call(c) PROVE PackInv'
  <2>1. UNCHANGED <<link, queued, sendq, packetBuffer, sendPacketSize, freed, twice, mine, wire>>
    BY <1>6 DEF Call, sendVars, freeVars, sockVars
  <2>2. thread[c] = <<>> /\ thread' = [thread EXCEPT ![c] = <<"SendPacket">>]
    BY <1>6 DEF Call
  <2>3. ~HeadIs(<<"SendPacket">>, "post")
    BY DEF HeadIs
  <2>4. c \in Thread
    BY DEF Thread
  <2> QED
    BY <1>4, <2>1, <2>2, <2>3, <2>4
<1> QED
  BY <1>1, <1>2, <1>3, <1>5, <1>6 DEF Connecting

(* Unless a SendPacket was overtaken: who sends, and where each packet is. *)
PackSafe == LanInv /\ (~late => SendInv /\ PackInv)

(* No packet at first.                                                     *)
LEMMA PackInit == ASSUME LanClientAssumption, Init PROVE PackSafe
<1>1. monitor \in Thread /\ \A t \in Thread : thread[t] = <<>> /\ mine[t] = <<>>
  BY DEF Thread, Init
<1>2. \A t \in Thread : Waits(thread[t]) /\ Bare(thread[t]) /\ ~Rel(thread[t]) /\ ~HeadIs(thread[t], "post")
  BY <1>1, WaitsBare, WaitsKind DEF Waits, HeadIs
<1>3. /\ sendPacketSize = 0 /\ posted["send"] = 0 /\ queued = 0 /\ sendq = <<>> /\ packetBuffer = <<>>
      /\ wire = <<>> /\ freed = {} /\ twice = FALSE /\ link = 0 /\ ~clientOn /\ mine = [t \in Thread |-> <<>>]
  BY DEF Init
<1>4. SendInv
  BY <1>1, <1>2, <1>3 DEF SendInv, Alive, Bare
<1>5. Gone = 0 /\ Sent = {} /\ Held = {} /\ Out = {}
  <2>1. Gone = 0
    <3>1. Len(<<>>) = 0
      OBVIOUS
    <3>2. Gone = 0 - 0
      BY <1>3, <3>1, Zenon DEF Gone
    <3> QED
      BY <3>2
  <2>2. Sent = {}
    BY <1>3 DEF Sent
  <2>3. Held = {}
    BY <1>2 DEF Held
  <2> QED
    BY <2>1, <2>2, <2>3 DEF Out
<1>6. PackTypes
  BY <1>3 DEF PackTypes
<1>7. QueueOK /\ WireOK /\ MineOK /\ BufferOK
  BY <1>1, <1>2, <1>3 DEF QueueOK, WireOK, MineOK, BufferOK, Rising
<1>8. FreedOK
  BY <1>3, <1>5 DEF FreedOK
<1> QED
  BY <1>4, <1>6, <1>7, <1>8, LanInit DEF PackSafe, PackInv

(* Every step keeps who sends and where each packet is.                    *)
LEMMA PackStep ==
    ASSUME LanClientAssumption, RefInv, SendInv, PackInv, late' = FALSE, [Next]_vars
    PROVE  SendInv' /\ PackInv'
<1>1. CASE UNCHANGED vars
  <2>1. UNCHANGED <<clientOn, disconnectNow, bSend, sendPacketSize, posted, thread, conn, link, queued,
                    sendq, packetBuffer, freed, twice, mine, wire>>
    BY <1>1 DEF vars, sendVars, freeVars, sockVars
  <2>2. Gone' = Gone /\ Out' = Out
    BY <2>1 DEF Gone, Out, Sent, Held
  <2>3. PackInv'
    BY <2>1, <2>2 DEF PackInv, PackTypes, QueueOK, Cleaning, WireOK, MineOK, BufferOK, FreedOK, Rising
  <2>4. SendInv'
    BY <2>1 DEF SendInv, Alive, OneSender
  <2> QED
    BY <2>3, <2>4
<1>2. CASE Next
  BY PacksTyped, <1>2, RefStep, SendStep, OtherPacks, MovePacks, ElsePacks DEF PackInv, Step, Next
<1> QED
  BY <1>1, <1>2

(* Packets of different numbers are as many as the numbers.                *)
LEMMA CountNumbers ==
    ASSUME NEW n \in Nat, NEW S, \A p, q \in S : p.no = q.no => p = q,
           \A p \in S : p.no \in 1 .. n, \A i \in 1 .. n : \E p \in S : p.no = i
    PROVE  Cardinality(S) = n
<1> DEFINE f == [i \in 1 .. n |-> CHOOSE p \in S : p.no = i]
<1>1. \A i \in 1 .. n : f[i] \in S /\ f[i].no = i
  OBVIOUS
<1>2. f \in [1 .. n -> S]
  BY <1>1
<1>3. \A i, j \in 1 .. n : f[i] = f[j] => i = j
  BY <1>1
<1>4. \A p \in S : \E i \in 1 .. n : f[i] = p
  BY <1>1
<1> HIDE DEF f
<1>5. f \in Bijection(1 .. n, S)
  BY <1>2, <1>3, <1>4 DEF Bijection, Injection, Surjection, IsInjective
<1>6. ExistsBijection(1 .. n, S)
  BY <1>5 DEF ExistsBijection
<1>7. IsFiniteSet(1 .. n) /\ Cardinality(1 .. n) = n
  BY FS_Interval
<1> QED
  BY <1>6, <1>7, FS_Bijection

(* With the invariant, packets are sent once, in order, and freed once.    *)
LEMMA SafePacks == ASSUME PackSafe PROVE PacketsSentOnce
<1> SUFFICES ASSUME ~late
             PROVE  /\ \A i \in DOMAIN wire : wire[i].link = link
                    /\ \A i, j \in DOMAIN wire : i < j => wire[i].no < wire[j].no
                    /\ ~twice
                    /\ (\A t \in Thread : thread[t] = <<>>) /\ sendq = <<>> /\ posted.send = 0
                       /\ (conn = "up" \/ ~clientOn)
                          => Cardinality(freed) = queued
  BY DEF PacketsSentOnce
<1>1. RefInv /\ SendInv /\ PackInv
  BY DEF PackSafe, LanInv
<1>2. DOMAIN wire = 1 .. Len(wire)
  BY <1>1 DEF PackInv, PackTypes
<1>3. /\ \A i \in DOMAIN wire : wire[i].link = link
      /\ \A i, j \in DOMAIN wire : i < j => wire[i].no < wire[j].no
      /\ ~twice
  BY <1>1, <1>2 DEF PackInv, WireOK, Rising, FreedOK
<1>4. ASSUME \A t \in Thread : thread[t] = <<>>, sendq = <<>>, posted["send"] = 0, conn = "up" \/ ~clientOn
      PROVE  Cardinality(freed) = queued
  <2>1. \A t \in Thread : ~Hold(thread[t]) /\ ~HeadIs(thread[t], "post")
    BY <1>4 DEF Hold, HeadIs
  <2>2. sendPacketSize = 0
    BY <1>1, <1>4, <2>1 DEF SendInv, Alive
  <2>3. Out = {}
    BY <2>1, <2>2 DEF Out, Sent, Held
  <2>4. Gone = queued /\ queued \in Nat
    BY <1>1, <1>4 DEF Gone, PackInv, PackTypes
  <2>5. /\ \A p, q \in freed : p.no = q.no => p = q
        /\ \A p \in freed : p.no \in 1 .. queued
        /\ \A n \in 1 .. queued : \E p \in freed : p.no = n
    BY <1>1, <2>3, <2>4 DEF PackInv, FreedOK
  <2> QED
    BY <2>4, <2>5, CountNumbers
<1> QED
  BY <1>3, <1>4

(* Packets of a link are sent on it, once and in order, and each is freed  *)
(* once, unless a SendPacket was overtaken.                                *)
THEOREM PacketsAreSentOnce == Spec => []PacketsSentOnce
<1>1. Init => PackSafe
  BY PackInit, LanClientAssumption
<1>2. PackSafe /\ [Next]_vars => PackSafe'
  BY LateStays, RefStep, PackStep, LanClientAssumption DEF PackSafe, LanInv
<1>3. PackSafe => PacketsSentOnce
  BY SafePacks
<1> QED
  BY <1>1, <1>2, <1>3, PTL DEF Spec

-----------------------------------------------------------------------------
(* The stream.                                                             *)

(* Numbers have a least.                                                   *)
LEMMA LeastNat ==
    ASSUME NEW S \in SUBSET Nat, S /= {}
    PROVE  \E m \in S : \A n \in S : m <= n
<1> DEFINE T == {1 .. s : s \in S}
           R == StrictSubsetOrdering(Nat)
<1>1. T \subseteq FiniteSubsetsOf(Nat)
  BY FS_Interval DEF FiniteSubsetsOf
<1>2. T /= {}
  OBVIOUS
<1>3. PICK x \in T : \A y \in T : ~(<<y, x>> \in R)
  <2>1. IsWellFoundedOn(R, FiniteSubsetsOf(Nat))
    BY FS_StrictSubsetOrderingWellFounded
  <2> HIDE DEF T, R
  <2> QED
    BY <1>1, <1>2, <2>1, WFMin
<1>4. PICK s \in S : x = 1 .. s
  OBVIOUS
<1>5. ASSUME NEW r \in S PROVE s <= r
  <2>1. SUFFICES ASSUME r < s PROVE FALSE
    OBVIOUS
  <2>2. s \in 1 .. s /\ s \notin 1 .. r
    BY <2>1
  <2>3. 1 .. r \subseteq 1 .. s
    BY <2>1
  <2>4. <<1 .. r, 1 .. s>> \in R
    BY <2>2, <2>3 DEF StrictSubsetOrdering
  <2> QED
    BY <1>3, <1>4, <2>4
<1> QED
  BY <1>5

(* The sequences of s put together one by one.                             *)
Joins(f, s, n) == f = [i \in 1 .. n |-> IF i = 1 THEN s[i] ELSE f[i - 1] \o s[i]]

(* They exist for every n: no least n is without them.                     *)
LEMMA JoinsUpTo ==
    ASSUME NEW s, NEW n \in Nat
    PROVE  \E f : Joins(f, s, n)
<1> DEFINE Bad == {k \in Nat : ~ \E f : Joins(f, s, k)}
<1>1. SUFFICES ASSUME Bad /= {} PROVE FALSE
  OBVIOUS
<1>2. PICK m \in Bad : \A k \in Bad : m <= k
  <2>1. Bad \in SUBSET Nat
    OBVIOUS
  <2> HIDE DEF Bad
  <2> QED
    BY <1>1, <2>1, LeastNat
<1>3. m \in Nat /\ ~ \E f : Joins(f, s, m)
  OBVIOUS
<1>4. m /= 0
  <2>1. Joins([i \in 1 .. 0 |-> i], s, 0)
    BY DEF Joins
  <2> QED
    BY <1>3, <2>1
<1>5. PICK g : Joins(g, s, m - 1)
  BY <1>2, <1>3, <1>4
<1> DEFINE v(i) == IF i = 1 THEN s[i] ELSE g[i - 1] \o s[i]
           h == [i \in 1 .. m |-> v(i)]
<1>6. \A i \in 1 .. m - 1 : g[i] = v(i)
  BY <1>5 DEF Joins
<1>7. \A i \in 1 .. m : v(i) = IF i = 1 THEN s[i] ELSE h[i - 1] \o s[i]
  BY <1>3, <1>6
<1>8. Joins(h, s, m)
  BY <1>7 DEF Joins
<1> QED
  BY <1>3, <1>8

(* What FlattenSeq returns is the last of them.                            *)
LEMMA FlattenIs ==
    ASSUME NEW s, Len(s) \in Nat \ {0}
    PROVE  \E f : Joins(f, s, Len(s)) /\ FlattenSeq(s) = f[Len(s)]
<1>1. PICK f : Joins(f, s, Len(s))
  BY JoinsUpTo
<1> DEFINE fl == CHOOSE g : g = [i \in 1 .. Len(s) |-> IF i = 1 THEN s[i] ELSE g[i - 1] \o s[i]]
<1>2. fl = [i \in 1 .. Len(s) |-> IF i = 1 THEN s[i] ELSE fl[i - 1] \o s[i]]
  BY <1>1, Zenon DEF Joins
<1>3. FlattenSeq(s) = fl[Len(s)]
  BY DEF FlattenSeq
<1> HIDE DEF fl
<1>4. Joins(fl, s, Len(s))
  BY <1>2 DEF Joins
<1> QED
  BY <1>3, <1>4

(* Each of them is the one before with the next sequence behind it.        *)
LEMMA JoinedIs ==
    ASSUME NEW S, NEW s \in Seq(Seq(S)), NEW f, Joins(f, s, Len(s))
    PROVE  \A n \in 1 .. Len(s) : f[n] \in Seq(S) /\ f[n] = IF n = 1 THEN s[n] ELSE f[n - 1] \o s[n]
<1>0. Len(s) \in Nat /\ \A n \in 1 .. Len(s) : s[n] \in Seq(S)
  OBVIOUS
<1>1. \A n \in 1 .. Len(s) : f[n] = IF n = 1 THEN s[n] ELSE f[n - 1] \o s[n]
  BY DEF Joins
<1> DEFINE Bad == {n \in 1 .. Len(s) : f[n] \notin Seq(S)}
<1>2. SUFFICES ASSUME Bad /= {} PROVE FALSE
  BY <1>1
<1>3. PICK m \in Bad : \A k \in Bad : m <= k
  <2>1. Bad \in SUBSET Nat
    OBVIOUS
  <2> HIDE DEF Bad
  <2> QED
    BY <1>2, <2>1, LeastNat
<1>4. m /= 1
  BY <1>0, <1>1
<1>5. m - 1 \in 1 .. Len(s) /\ f[m - 1] \in Seq(S)
  BY <1>0, <1>3, <1>4
<1>6. f[m] = f[m - 1] \o s[m] /\ s[m] \in Seq(S)
  BY <1>0, <1>1, <1>4
<1>7. f[m - 1] \o s[m] \in Seq(S)
  BY <1>5, <1>6
<1> QED
  BY <1>6, <1>7

(* Two sequences, one behind the other.                                    *)
LEMMA JoinIs ==
    ASSUME NEW S, NEW u \in Seq(S), NEW v \in Seq(S)
    PROVE  /\ u \o v \in Seq(S) /\ Len(u \o v) = Len(u) + Len(v)
           /\ Len(u) \in Nat /\ Len(v) \in Nat
           /\ \A k \in 1 .. Len(u) : (u \o v)[k] = u[k]
           /\ \A k \in 1 .. Len(v) : (u \o v)[Len(u) + k] = v[k]
  OBVIOUS

(* And begins all that come after it.                                      *)
Extends(u, v) == Len(v) <= Len(u) /\ \A k \in 1 .. Len(v) : u[k] = v[k]

(* Each begins all that come after it.                                     *)
LEMMA JoinedExtend ==
    ASSUME NEW S, NEW s \in Seq(Seq(S)), NEW f, Joins(f, s, Len(s))
    PROVE  \A n \in 1 .. Len(s) : \A m \in 1 .. n : Extends(f[n], f[m])
<1>1. Len(s) \in Nat /\ \A n \in 1 .. Len(s) : s[n] \in Seq(S)
  OBVIOUS
<1>2. \A n \in 1 .. Len(s) : f[n] \in Seq(S) /\ f[n] = IF n = 1 THEN s[n] ELSE f[n - 1] \o s[n]
  BY JoinedIs
<1> DEFINE Bad == {n \in 1 .. Len(s) : \E m \in 1 .. n : ~Extends(f[n], f[m])}
<1>3. SUFFICES ASSUME Bad /= {} PROVE FALSE
  OBVIOUS
<1>4. PICK n \in Bad : \A k \in Bad : n <= k
  <2>1. Bad \in SUBSET Nat
    OBVIOUS
  <2> HIDE DEF Bad
  <2> QED
    BY <1>3, <2>1, LeastNat
<1>5. PICK m \in 1 .. n : ~Extends(f[n], f[m])
  OBVIOUS
<1>6. f[n] \in Seq(S) /\ Len(f[n]) \in Nat
  BY <1>2
<1>7. m /= n
  BY <1>5, <1>6 DEF Extends
<1>8. n - 1 \in 1 .. Len(s) /\ m \in 1 .. n - 1 /\ n /= 1
  BY <1>1, <1>7
<1>9. Extends(f[n - 1], f[m])
  BY <1>4, <1>8
<1>10. PICK u, v : /\ u = f[n - 1] /\ v = s[n] /\ u \in Seq(S) /\ v \in Seq(S) /\ f[n] = u \o v
  BY <1>1, <1>2, <1>8
<1>11. Extends(u \o v, u)
  <2>1. /\ Len(u \o v) = Len(u) + Len(v) /\ Len(u) \in Nat /\ Len(v) \in Nat
        /\ \A k \in 1 .. Len(u) : (u \o v)[k] = u[k]
    <3>1. u \in Seq(S) /\ v \in Seq(S)
      BY <1>10
    <3> QED
      BY <3>1, JoinIs
  <2> QED
    BY <2>1 DEF Extends
<1>12. Extends(f[n], f[m])
  <2>0. m \in 1 .. Len(s)
    BY <1>1, <1>8
  <2>1. Len(f[m]) \in Nat /\ Len(u) \in Nat /\ Len(u \o v) \in Nat
    BY <1>2, <2>0, <1>10, JoinIs
  <2>2. \A k \in 1 .. Len(f[m]) : k \in 1 .. Len(u)
    BY <1>9, <1>10, <2>1 DEF Extends
  <2>3. /\ Len(f[m]) <= Len(u) /\ \A k \in 1 .. Len(f[m]) : u[k] = f[m][k]
    BY <1>9, <1>10 DEF Extends
  <2>4. /\ Len(u) <= Len(f[n]) /\ \A k \in 1 .. Len(u) : f[n][k] = u[k]
    BY <1>10, <1>11 DEF Extends
  <2>5. Len(f[m]) <= Len(f[n])
    BY <1>6, <2>1, <2>3, <2>4
  <2>6. \A k \in 1 .. Len(f[m]) : f[n][k] = f[m][k]
    BY <2>2, <2>3, <2>4
  <2> QED
    BY <2>5, <2>6 DEF Extends
<1> QED
  BY <1>5, <1>12

(* Where each sequence begins in w, all of them one behind the other.      *)
Offsets(off, w, s) ==
    /\ off \in [0 .. Len(s) -> Nat] /\ off[0] = 0 /\ off[Len(s)] = Len(w)
    /\ \A n \in 1 .. Len(s) : off[n] = off[n - 1] + Len(s[n])
    /\ \A n \in 1 .. Len(s) : \A k \in 1 .. Len(s[n]) : w[off[n - 1] + k] = s[n][k]
    /\ \A m, n \in 0 .. Len(s) : m <= n => off[m] <= off[n]

(* A flattened sequence is its parts, one after the other.                 *)
LEMMA FlattenOffsets ==
    ASSUME NEW S, NEW s \in Seq(Seq(S))
    PROVE  FlattenSeq(s) \in Seq(S) /\ \E off : Offsets(off, FlattenSeq(s), s)
<1>1. Len(s) \in Nat /\ \A n \in 1 .. Len(s) : s[n] \in Seq(S)
  OBVIOUS
<1>2. CASE Len(s) = 0
  <2>1. s = <<>> /\ s \in Seq(S)
    BY <1>2
  <2>2. FlattenSeq(s) = s
    BY <1>2, <2>1 DEF FlattenSeq
  <2>3. Offsets([n \in 0 .. 0 |-> 0], s, s)
    BY <1>2 DEF Offsets
  <2> QED
    BY <2>1, <2>2, <2>3
<1>3. CASE Len(s) /= 0
  <2>1. PICK f : Joins(f, s, Len(s)) /\ FlattenSeq(s) = f[Len(s)]
    BY <1>1, <1>3, FlattenIs
  <2>2. \A n \in 1 .. Len(s) : f[n] \in Seq(S) /\ f[n] = IF n = 1 THEN s[n] ELSE f[n - 1] \o s[n]
    BY <2>1, JoinedIs
  <2>3. \A n \in 1 .. Len(s) : \A m \in 1 .. n : Extends(f[n], f[m])
    BY <2>1, JoinedExtend
  <2>4. PICK off : off = [n \in 0 .. Len(s) |-> IF n = 0 THEN 0 ELSE Len(f[n])]
    OBVIOUS
  <2>5. off \in [0 .. Len(s) -> Nat] /\ off[0] = 0 /\ \A n \in 1 .. Len(s) : off[n] = Len(f[n])
    BY <1>1, <2>2, <2>4
  <2>6. ASSUME NEW n \in 1 .. Len(s)
        PROVE  /\ off[n] = off[n - 1] + Len(s[n])
               /\ \A k \in 1 .. Len(s[n]) : off[n - 1] + k \in 1 .. Len(f[n]) /\ f[n][off[n - 1] + k] = s[n][k]
    <3>1. CASE n = 1
      BY <1>1, <2>2, <2>5, <3>1
    <3>2. CASE n /= 1
      <4>1. n - 1 \in 1 .. Len(s)
        BY <1>1, <3>2
      <4>2. PICK u, v : u = f[n - 1] /\ v = s[n] /\ u \in Seq(S) /\ v \in Seq(S) /\ f[n] = u \o v
        BY <1>1, <2>2, <3>2, <4>1
      <4>3. /\ Len(u \o v) = Len(u) + Len(v) /\ Len(u) \in Nat /\ Len(v) \in Nat
            /\ \A k \in 1 .. Len(v) : (u \o v)[Len(u) + k] = v[k]
        <5>1. u \in Seq(S) /\ v \in Seq(S)
          BY <4>2
        <5> QED
          BY <5>1, JoinIs
      <4>4. off[n - 1] = Len(u) /\ off[n] = Len(u \o v)
        BY <2>5, <4>1, <4>2
      <4>5. off[n] = off[n - 1] + Len(v)
        BY <4>3, <4>4
      <4>6. \A k \in 1 .. Len(v) : off[n - 1] + k \in 1 .. Len(u \o v) /\ (u \o v)[off[n - 1] + k] = v[k]
        BY <4>3, <4>4
      <4> QED
        BY <4>2, <4>5, <4>6
    <3> QED
      BY <3>1, <3>2
  <2>7. PICK w : w = FlattenSeq(s)
    OBVIOUS
  <2>8. w = f[Len(s)] /\ w \in Seq(S) /\ off[Len(s)] = Len(w)
    BY <1>1, <1>3, <2>1, <2>2, <2>5, <2>7
  <2>9. \A n \in 1 .. Len(s) : \A k \in 1 .. Len(s[n]) : w[off[n - 1] + k] = s[n][k]
    <3>0. Len(s) \in 1 .. Len(s)
      BY <1>1, <1>3
    <3>1. \A n \in 1 .. Len(s) : Extends(w, f[n])
      BY <2>3, <2>8, <3>0
    <3>2. \A n \in 1 .. Len(s) : \A i \in 1 .. Len(f[n]) : w[i] = f[n][i]
      BY <3>1 DEF Extends
    <3> QED
      BY <2>6, <3>2
  <2>10. ASSUME NEW m \in 0 .. Len(s), NEW n \in 0 .. Len(s), m <= n PROVE off[m] <= off[n]
    <3>1. CASE m = 0
      BY <2>5, <3>1
    <3>2. CASE m /= 0
      <4>1. n \in 1 .. Len(s) /\ m \in 1 .. n /\ m \in 1 .. Len(s)
        BY <1>1, <2>10, <3>2
      <4> QED
        BY <2>3, <2>5, <4>1 DEF Extends
    <3> QED
      BY <3>1, <3>2
  <2>11. Offsets(off, w, s)
    BY <2>5, <2>6, <2>8, <2>9, <2>10 DEF Offsets
  <2> QED
    BY <2>7, <2>8, <2>11
<1> QED
  BY <1>2, <1>3

(* The packets of a link in its stream.                                    *)
Packets == Len(Payload)
Size(n) == HeaderSize + Payload[n]
ByteOf(l, n, k) == [link |-> l, no |-> n, k |-> k]
LinkBytes(l) == {ByteOf(l, n, k) : n \in Nat, k \in Nat}

Begins(off, l) ==
    /\ off \in [0 .. Packets -> Nat] /\ off[0] = 0 /\ off[Packets] = Len(Stream(l))
    /\ \A n \in 1 .. Packets : off[n] = off[n - 1] + Size(n)
    /\ \A n \in 1 .. Packets : \A k \in 1 .. Size(n) : Stream(l)[off[n - 1] + k] = ByteOf(l, n, k)
    /\ \A m, n \in 0 .. Packets : m <= n => off[m] <= off[n]

(* A packet's bytes.                                                       *)
LEMMA BytesAre ==
    ASSUME LanClientAssumption, NEW l, NEW n \in 1 .. Packets
    PROVE  /\ Payload[n] \in Nat /\ Size(n) \in Nat /\ Size(n) > 0
           /\ Bytes(l, n) \in Seq(LinkBytes(l)) /\ Len(Bytes(l, n)) = Size(n)
           /\ \A k \in 1 .. Size(n) : Bytes(l, n)[k] = ByteOf(l, n, k)
<1>1. Payload[n] \in Nat /\ Size(n) \in Nat /\ Size(n) > 0
  BY DEF LanClientAssumption, Packets, Size
<1>2. Bytes(l, n) = [k \in 1 .. Size(n) |-> ByteOf(l, n, k)]
  BY DEF Bytes, Size, ByteOf
<1>3. \A k \in 1 .. Size(n) : ByteOf(l, n, k) \in LinkBytes(l)
  <2> SUFFICES ASSUME NEW k \in 1 .. Size(n) PROVE ByteOf(l, n, k) \in LinkBytes(l)
    OBVIOUS
  <2>1. n \in Nat /\ k \in Nat
    BY <1>1 DEF LanClientAssumption, Packets
  <2> QED
    BY <2>1 DEF LinkBytes
<1> QED
  BY <1>1, <1>2, <1>3

(* Every link has the places its packets begin at.                         *)
LEMMA StreamIs ==
    ASSUME LanClientAssumption, NEW l
    PROVE  Stream(l) \in Seq(LinkBytes(l)) /\ \E off : Begins(off, l)
<1> DEFINE s == [no \in DOMAIN Payload |-> Bytes(l, no)]
<1>1. Packets \in Nat /\ DOMAIN Payload = 1 .. Packets
  BY DEF LanClientAssumption, Packets
<1>2. s \in Seq(Seq(LinkBytes(l))) /\ Len(s) = Packets /\ \A n \in 1 .. Packets : s[n] = Bytes(l, n)
  BY <1>1, BytesAre
<1>3. Stream(l) = FlattenSeq(s)
  BY DEF Stream
<1> HIDE DEF s
<1>4. Stream(l) \in Seq(LinkBytes(l)) /\ \E off : Offsets(off, FlattenSeq(s), s)
  BY <1>2, <1>3, FlattenOffsets
<1>5. PICK off : Offsets(off, FlattenSeq(s), s)
  BY <1>4
<1>6. Begins(off, l)
  <2>1. \A n \in 1 .. Packets : Len(s[n]) = Size(n) /\ \A k \in 1 .. Size(n) : s[n][k] = ByteOf(l, n, k)
    BY <1>2, BytesAre
  <2>2. /\ off \in [0 .. Packets -> Nat] /\ off[0] = 0 /\ off[Packets] = Len(Stream(l))
        /\ \A m, n \in 0 .. Packets : m <= n => off[m] <= off[n]
    BY <1>2, <1>3, <1>5 DEF Offsets
  <2>3. \A n \in 1 .. Packets : off[n] = off[n - 1] + Size(n)
    BY <1>2, <1>5, <2>1 DEF Offsets
  <2>4. \A n \in 1 .. Packets : \A k \in 1 .. Len(s[n]) : Stream(l)[off[n - 1] + k] = s[n][k]
    BY <1>2, <1>3, <1>5 DEF Offsets
  <2>5. \A n \in 1 .. Packets : \A k \in 1 .. Size(n) : Stream(l)[off[n - 1] + k] = ByteOf(l, n, k)
    BY <2>1, <2>4
  <2> QED
    BY <2>2, <2>3, <2>5 DEF Begins
<1> QED
  BY <1>4, <1>6

(* What the ring of a link's session may hold.                             *)
LEMMA StreamBytes ==
    ASSUME LanClientAssumption, NEW l \in 1 .. MaxLink
    PROVE  Stream(l) \in Seq(Byte)
  BY StreamIs DEF ToSet, Byte

(* Every byte is one of some packet.                                       *)
LEMMA PacketOf ==
    ASSUME LanClientAssumption, NEW l, NEW off, Begins(off, l), NEW i \in 1 .. Len(Stream(l))
    PROVE  \E n \in 1 .. Packets : /\ off[n - 1] < i /\ i <= off[n]
                                   /\ i - off[n - 1] \in 1 .. Size(n)
                                   /\ Stream(l)[i] = ByteOf(l, n, i - off[n - 1])
<1>0. Packets \in Nat
  BY DEF LanClientAssumption, Packets
<1> DEFINE S == {n \in 0 .. Packets : i <= off[n]}
<1>1. Packets \in S
  BY <1>0 DEF Begins
<1>2. PICK n \in S : \A k \in S : n <= k
  <2>1. S \in SUBSET Nat /\ S /= {}
    BY <1>1
  <2> HIDE DEF S
  <2> QED
    BY <2>1, LeastNat
<1>3. n \in 1 .. Packets /\ i <= off[n]
  BY DEF Begins
<1>4. n - 1 \in 0 .. Packets /\ n - 1 \notin S
  BY <1>0, <1>2, <1>3
<1>5. off[n - 1] \in Nat /\ off[n] \in Nat
  BY <1>3, <1>4 DEF Begins
<1>6. off[n - 1] < i
  BY <1>4, <1>5
<1>7. off[n] = off[n - 1] + Size(n) /\ Size(n) \in Nat
  BY <1>3, BytesAre DEF Begins
<1>8. i - off[n - 1] \in 1 .. Size(n) /\ off[n - 1] + (i - off[n - 1]) = i
  BY <1>3, <1>5, <1>6, <1>7
<1>9. Stream(l)[off[n - 1] + (i - off[n - 1])] = ByteOf(l, n, i - off[n - 1])
  BY <1>3, <1>8 DEF Begins
<1> QED
  BY <1>3, <1>6, <1>8, <1>9

(* Whose last byte has arrived.                                            *)
LEMMA PacketsComplete ==
    ASSUME LanClientAssumption, NEW off, Begins(off, link), NEW k \in 0 .. Packets,
           arrived \in Nat, off[k] <= arrived, arrived <= Len(Stream(link)),
           k = Packets \/ arrived < off[k + 1]
    PROVE  Complete_Packets = k
<1>0. Packets \in Nat /\ DOMAIN Payload = 1 .. Packets /\ Stream(link) \in Seq(LinkBytes(link))
  BY StreamIs DEF LanClientAssumption, Packets
<1> DEFINE w == SubSeq(Stream(link), 1, arrived)
<1>1. ToSet(w) = {Stream(link)[i] : i \in 1 .. arrived}
  BY <1>0, SetOfFirst
<1> HIDE DEF w
<1>2. ASSUME NEW n \in 1 .. Packets PROVE Last(Bytes(link, n)) \in ToSet(w) <=> n <= k
  <2>1. Last(Bytes(link, n)) = ByteOf(link, n, Size(n)) /\ Size(n) \in 1 .. Size(n) /\ Size(n) \in Nat
    BY BytesAre DEF Last
  <2>2. off[n - 1] \in Nat /\ off[n] = off[n - 1] + Size(n)
        /\ Stream(link)[off[n - 1] + Size(n)] = ByteOf(link, n, Size(n))
    BY <1>0, <2>1 DEF Begins
  <2>3. CASE n <= k
    BY <1>0, <2>3, <2>1, <2>2, <1>1 DEF Begins
  <2>4. ASSUME ~(n <= k), Last(Bytes(link, n)) \in ToSet(w) PROVE FALSE
    <3>1. PICK i \in 1 .. arrived : Stream(link)[i] = ByteOf(link, n, Size(n))
      BY <1>1, <2>1, <2>4
    <3>2. i \in 1 .. Len(Stream(link))
      BY <1>0
    <3>3. PICK m \in 1 .. Packets : /\ i <= off[m] /\ i - off[m - 1] \in 1 .. Size(m)
                                    /\ Stream(link)[i] = ByteOf(link, m, i - off[m - 1])
      BY <3>2, PacketOf
    <3>4. m = n /\ i - off[m - 1] = Size(n)
      BY <3>1, <3>3 DEF ByteOf
    <3>5. i = off[n]
      BY <2>1, <2>2, <3>4
    <3>6. k /= Packets /\ k + 1 \in 0 .. Packets /\ k + 1 <= n /\ n \in 0 .. Packets
      BY <1>0, <2>4
    <3>7. off[k + 1] <= off[n] /\ off[k + 1] \in Nat
      BY <3>6 DEF Begins
    <3> QED
      BY <3>5, <3>6, <3>7
  <2> QED
    BY <2>3, <2>4
<1>3. {n \in DOMAIN Payload : Last(Bytes(link, n)) \in ToSet(w)} = 1 .. k
  BY <1>0, <1>2
<1>4. Cardinality(1 .. k) = k
  BY FS_Interval
<1> QED
  BY <1>3, <1>4 DEF Complete_Packets, w

-----------------------------------------------------------------------------
(* Packets out of the ring.                                                *)

(* A buffer of the code's sizes.                                           *)
LEMMA RingSized == ASSUME LanClientAssumption PROVE Sized
  BY DEF LanClientAssumption, Sized

(* What is read is what comes first of the contents.                       *)
LEMMA PeekIs ==
    ASSUME Sized, NEW ring \in Ring, NEW n \in Nat
    PROVE  /\ Peek(ring, n) \in Seq(Byte)
           /\ Len(Peek(ring, n)) = IF n < GetUsedSize(ring) THEN n ELSE GetUsedSize(ring)
           /\ \A i \in 1 .. Len(Peek(ring, n)) : Peek(ring, n)[i] = Contents(ring)[i]
<1> DEFINE used == GetUsedSize(ring)
           m == IF n < used THEN n ELSE used
<1>1. used \in Nat /\ m \in Nat /\ m <= used
  BY Sizes
<1>2. Peek(ring, n) = [i \in 1 .. m |-> ring.buf[ReadPlace(ring, i)]]
  BY DEF Peek
<1>3. Contents(ring) = [i \in 1 .. used |-> ring.buf[ReadPlace(ring, i)]]
  BY <1>1 DEF Contents, Peek
<1>4. Contents(ring) \in Seq(Byte) /\ Len(Contents(ring)) = used
  BY ContentsIs
<1> HIDE DEF used
<1>5. \A i \in 1 .. m : i \in 1 .. used /\ Contents(ring)[i] \in Byte
  BY <1>1, <1>4
<1>6. \A i \in 1 .. m : ring.buf[ReadPlace(ring, i)] = Contents(ring)[i]
  BY <1>3, <1>5
<1>7. \A i \in 1 .. m : ring.buf[ReadPlace(ring, i)] \in Byte
  BY <1>5, <1>6
<1> HIDE DEF m
<1>8. Peek(ring, n) \in Seq(Byte) /\ Len(Peek(ring, n)) = m
  BY <1>1, <1>2, <1>7
<1> QED
  BY <1>2, <1>6, <1>8 DEF m, used

(* Packets of the link given to OnRecv, and the ring with what has arrived *)
(* since.                                                                  *)
Given(no) == received[no] = SubSeq(Bytes(link, no), HeaderSize + 1, HeaderSize + Payload[no])

StreamAt(off) ==
    LET k == Len(received) IN
      /\ Begins(off, link)
      /\ k \in 0 .. Packets /\ off[k] <= arrived /\ arrived <= Len(Stream(link))
      /\ GetUsedSize(recvq) = arrived - off[k]
      /\ \A i \in 1 .. GetUsedSize(recvq) : Contents(recvq)[i] = Stream(link)[off[k] + i]
      /\ \A no \in 1 .. k : Given(no)

NoPacketLeft(off) == Len(received) = Packets \/ arrived < off[Len(received) + 1]

ReceiveTypes == recvq \in Ring /\ arrived \in Nat /\ received \in Seq(Seq(Byte))

(* A header in the ring is that of the next packet.                        *)
LEMMA HeaderIs ==
    ASSUME LanClientAssumption, ReceiveTypes, NEW off, StreamAt(off), NEW k, k = Len(received),
           HeaderSize <= GetUsedSize(recvq)
    PROVE  /\ k + 1 \in 1 .. Packets /\ off[k + 1] = off[k] + Size(k + 1)
           /\ off[k] \in Nat /\ off[k + 1] \in Nat
           /\ PayloadAtFront = {Payload[k + 1]}
<1>0. /\ HeaderSize \in Nat \ {0} /\ Packets \in Nat /\ Sized /\ recvq \in Ring /\ arrived \in Nat
      /\ DOMAIN Payload = 1 .. Packets
  BY RingSized DEF LanClientAssumption, ReceiveTypes, Packets
<1>1. k \in 0 .. Packets /\ off[k] \in Nat /\ off[k] <= arrived /\ off[Packets] = Len(Stream(link))
  BY DEF StreamAt, Begins
<1>2. GetUsedSize(recvq) = arrived - off[k] /\ arrived <= Len(Stream(link)) /\ Len(Stream(link)) \in Nat
  BY StreamIs DEF StreamAt
<1>3. k /= Packets
  BY <1>0, <1>1, <1>2
<1>4. k + 1 \in 1 .. Packets
  BY <1>0, <1>1, <1>3
<1>5. off[k + 1] = off[k] + Size(k + 1) /\ Size(k + 1) \in Nat /\ HeaderSize <= Size(k + 1)
  <2>1. k + 1 - 1 = k
    BY <1>1
  <2>2. off[k + 1] = off[k + 1 - 1] + Size(k + 1)
    BY <1>4 DEF StreamAt, Begins
  <2>3. Payload[k + 1] \in Nat /\ Size(k + 1) \in Nat
    BY <1>4, BytesAre
  <2> QED
    BY <1>0, <2>1, <2>2, <2>3 DEF Size
<1>6. \A i \in 1 .. Size(k + 1) : Stream(link)[off[k] + i] = ByteOf(link, k + 1, i)
  <2>1. k + 1 - 1 = k
    BY <1>1
  <2>2. \A i \in 1 .. Size(k + 1) : Stream(link)[off[k + 1 - 1] + i] = ByteOf(link, k + 1, i)
    BY <1>4 DEF StreamAt, Begins
  <2> QED
    BY <2>1, <2>2
<1>7. PICK header : header = Peek(recvq, HeaderSize)
  OBVIOUS
<1>8. header \in Seq(Byte) /\ Len(header) = HeaderSize /\ \A i \in 1 .. HeaderSize : header[i] = Contents(recvq)[i]
  <2>1. /\ header \in Seq(Byte)
        /\ Len(header) = IF HeaderSize < GetUsedSize(recvq) THEN HeaderSize ELSE GetUsedSize(recvq)
        /\ \A i \in 1 .. Len(header) : header[i] = Contents(recvq)[i]
    BY <1>0, <1>7, PeekIs
  <2>2. Len(header) = HeaderSize
    BY <1>0, <1>1, <1>2, <2>1
  <2> QED
    BY <2>1, <2>2
<1>9. \A i \in 1 .. HeaderSize : header[i] = ByteOf(link, k + 1, i)
  <2>1. \A i \in 1 .. HeaderSize : i \in 1 .. GetUsedSize(recvq) /\ i \in 1 .. Size(k + 1)
    BY <1>0, <1>1, <1>2, <1>5
  <2>2. \A i \in 1 .. GetUsedSize(recvq) : Contents(recvq)[i] = Stream(link)[off[k] + i]
    BY DEF StreamAt
  <2> QED
    BY <1>6, <1>8, <2>1, <2>2
<1>10. PICK front : front = Head(header) /\ front = ByteOf(link, k + 1, 1)
  BY <1>0, <1>8, <1>9
<1>11. front.no = k + 1 /\ front.link = link
  BY <1>10 DEF ByteOf
<1>12. header = SubSeq(Bytes(link, k + 1), 1, HeaderSize)
  BY <1>4, BytesAre, <1>0, <1>5, <1>9, <1>8, SeqEqual
<1>13. PayloadAtFront = {Payload[k + 1]}
  BY <1>0, <1>4, <1>7, <1>10, <1>11, <1>12 DEF PayloadAtFront
<1>14. off[k + 1] \in Nat
  BY <1>1, <1>5
<1> QED
  BY <1>1, <1>4, <1>5, <1>13, <1>14

(* What a piece of a sequence holds.                                       *)
LEMMA SubIs ==
    ASSUME NEW S, NEW s \in Seq(S), NEW m \in Nat, NEW n \in Nat, m <= n, n <= Len(s)
    PROVE  /\ SubSeq(s, m + 1, n) \in Seq(S) /\ Len(SubSeq(s, m + 1, n)) = n - m
           /\ \A i \in 1 .. n - m : SubSeq(s, m + 1, n)[i] = s[m + i]
  OBVIOUS

(* How much is left in a ring of u bytes, up to place a of the stream,     *)
(* when those of a packet at place x are taken out.                        *)
LEMMA LeftIs ==
    ASSUME NEW h \in Nat, NEW n \in Nat, NEW u \in Nat, NEW a \in Nat, NEW x \in Nat, n + h <= u, u = a - x
    PROVE  u - h - n \in Nat /\ u - h - n = a - (x + (h + n))
  OBVIOUS

(* A whole packet goes to OnRecv, and nothing else.                        *)
LEMMA PacketGiven ==
    ASSUME LanClientAssumption, ReceiveTypes, NEW off, StreamAt(off), NEW k, k = Len(received),
           HeaderSize <= GetUsedSize(recvq), NEW n \in {Payload[k + 1]}, Whole(n),
           NEW ring, ring = MoveFrontforDelete(recvq, HeaderSize),
           received' = Append(received, Peek(ring, n)), recvq' = Dequeue(ring, n),
           UNCHANGED <<link, arrived>>
    PROVE  ReceiveTypes' /\ StreamAt(off)'
<1>0. /\ HeaderSize \in Nat \ {0} /\ Packets \in Nat /\ Sized /\ recvq \in Ring /\ arrived \in Nat
      /\ received \in Seq(Seq(Byte))
  BY RingSized DEF LanClientAssumption, ReceiveTypes, Packets
<1>1. /\ k + 1 \in 1 .. Packets /\ off[k + 1] = off[k] + Size(k + 1)
      /\ off[k] \in Nat /\ off[k + 1] \in Nat
  BY HeaderIs
<1>2. k \in Nat /\ n \in Nat /\ Size(k + 1) = HeaderSize + n
  <2>1. k \in 0 .. Packets
    BY DEF StreamAt
  <2>2. Payload[k + 1] \in Nat
    BY <1>1, BytesAre
  <2> QED
    BY <1>0, <2>1, <2>2 DEF Size
<1>3. PICK used : used = GetUsedSize(recvq)
  OBVIOUS
<1>4. used \in Nat /\ used = arrived - off[k] /\ n + HeaderSize <= used
  BY <1>0, <1>3, Sizes DEF StreamAt, Whole
<1>5. \A i \in 1 .. used : Contents(recvq)[i] = Stream(link)[off[k] + i]
  BY <1>3 DEF StreamAt
<1>6. Contents(recvq) \in Seq(Byte) /\ Len(Contents(recvq)) = used
  BY <1>0, <1>3, ContentsIs
<1>7. ring \in Ring /\ Contents(ring) = SubSeq(Contents(recvq), HeaderSize + 1, used)
  <2>1. HeaderSize \in 0 .. GetUsedSize(recvq)
    BY <1>0, <1>2, <1>3, <1>4
  <2> QED
    BY <1>0, <1>3, <2>1, RemovesFirst
<1>8. /\ GetUsedSize(ring) = used - HeaderSize /\ Contents(ring) \in Seq(Byte)
      /\ Len(Contents(ring)) = used - HeaderSize
      /\ \A i \in 1 .. used - HeaderSize : Contents(ring)[i] = Contents(recvq)[HeaderSize + i]
  <2>1. PICK a, b : a = Contents(recvq) /\ b = SubSeq(a, HeaderSize + 1, used) /\ b = Contents(ring)
    BY <1>7
  <2>2. a \in Seq(Byte) /\ Len(a) = used
    BY <1>6, <2>1
  <2>3. b \in Seq(Byte) /\ Len(b) = used - HeaderSize /\ \A i \in 1 .. used - HeaderSize : b[i] = a[HeaderSize + i]
    <3>1. HeaderSize \in Nat /\ used \in Nat /\ HeaderSize <= used
      BY <1>0, <1>2, <1>4
    <3> QED
      BY <2>1, <2>2, <3>1, SubIs
  <2>4. Len(Contents(ring)) = GetUsedSize(ring)
    BY <1>0, <1>7, ContentsIs
  <2> QED
    BY <2>1, <2>3, <2>4
<1>9. PICK given : given = Peek(ring, n)
  OBVIOUS
<1>10. /\ given \in Seq(Byte) /\ Len(given) = n
       /\ \A i \in 1 .. n : given[i] = Contents(ring)[i]
  <2>1. /\ given \in Seq(Byte)
        /\ Len(given) = IF n < GetUsedSize(ring) THEN n ELSE GetUsedSize(ring)
        /\ \A i \in 1 .. Len(given) : given[i] = Contents(ring)[i]
    <3>1. Sized /\ ring \in Ring /\ n \in Nat
      BY <1>0, <1>2, <1>7
    <3> QED
      BY <1>9, <3>1, PeekIs
  <2>2. n <= GetUsedSize(ring)
    BY <1>0, <1>2, <1>4, <1>8
  <2>3. Len(given) = n
    BY <1>0, <1>2, <1>4, <1>8, <2>1, <2>2
  <2> QED
    BY <2>1, <2>3
<1>11. recvq' \in Ring /\ Contents(recvq)' = SubSeq(Contents(ring), n + 1, used - HeaderSize)
  <2>1. recvq' = MoveFrontforDelete(ring, n)
    BY <1>9, <1>10 DEF Dequeue
  <2>2. n \in 0 .. GetUsedSize(ring)
    BY <1>0, <1>2, <1>4, <1>8
  <2>3. /\ MoveFrontforDelete(ring, n) \in Ring
        /\ Contents(MoveFrontforDelete(ring, n)) = SubSeq(Contents(ring), n + 1, GetUsedSize(ring))
    BY <1>0, <1>7, <2>2, RemovesFirst
  <2>4. Contents(recvq)' = Contents(MoveFrontforDelete(ring, n))
    BY <2>1 DEF Contents
  <2> QED
    BY <1>8, <2>1, <2>3, <2>4
<1>12. PICK left, x : /\ x = off[k] /\ x \in Nat /\ off[k + 1] = x + (HeaderSize + n)
                      /\ left = used - HeaderSize - n /\ left \in Nat
                      /\ left = arrived - (x + (HeaderSize + n))
  <2>1. PICK x : x = off[k] /\ x \in Nat /\ off[k + 1] = x + (HeaderSize + n)
    BY <1>1, <1>2
  <2>2. /\ HeaderSize \in Nat /\ n \in Nat /\ used \in Nat /\ arrived \in Nat
        /\ n + HeaderSize <= used /\ used = arrived - x
    BY <1>0, <1>2, <1>4, <2>1
  <2>3. used - HeaderSize - n \in Nat /\ used - HeaderSize - n = arrived - (x + (HeaderSize + n))
    BY <2>1, <2>2, LeftIs
  <2> QED
    BY <2>1, <2>3
<1>13. /\ GetUsedSize(recvq)' = left
       /\ \A i \in 1 .. left : Contents(recvq)'[i] = Contents(ring)[n + i]
  <2>1. PICK a, b : a = Contents(ring) /\ b = SubSeq(a, n + 1, used - HeaderSize) /\ b = Contents(recvq)'
    BY <1>11
  <2>2. a \in Seq(Byte) /\ Len(a) = used - HeaderSize
    BY <1>8, <2>1
  <2>3. Len(b) = left /\ \A i \in 1 .. left : b[i] = a[n + i]
    <3>1. PICK m : m = used - HeaderSize
      OBVIOUS
    <3>2. n \in Nat /\ m \in Nat /\ n <= m /\ left = m - n
      <4>1. HeaderSize \in Nat /\ n \in Nat /\ used \in Nat /\ n + HeaderSize <= used
        BY <1>0, <1>2, <1>4
      <4>2. left = m - n
        BY <1>12, <3>1
      <4> QED
        BY <3>1, <4>1, <4>2
    <3>3. a \in Seq(Byte) /\ m <= Len(a) /\ b = SubSeq(a, n + 1, m)
      BY <2>1, <2>2, <3>1, <3>2
    <3>4. Len(b) = m - n /\ \A i \in 1 .. m - n : b[i] = a[n + i]
      BY <3>2, <3>3, SubIs
    <3> QED
      BY <3>2, <3>4
  <2>4. PICK q : q = recvq'
    OBVIOUS
  <2>5. Len(Contents(q)) = GetUsedSize(q)
    BY <1>0, <1>11, <2>4, ContentsIs
  <2>6. Contents(recvq)' = Contents(q) /\ GetUsedSize(recvq)' = GetUsedSize(q)
    BY <2>4 DEF Contents, GetUsedSize
  <2> QED
    BY <2>1, <2>3, <2>5, <2>6
<1>14. \A i \in 1 .. used - HeaderSize : Contents(ring)[i] = Stream(link)[off[k] + (HeaderSize + i)]
  <2>1. \A i \in 1 .. used - HeaderSize : HeaderSize + i \in 1 .. used
    BY <1>0, <1>2, <1>4
  <2> QED
    BY <1>5, <1>8, <2>1
<1>15. \A i \in 1 .. left : Contents(recvq)'[i] = Stream(link)[off[k + 1] + i]
  <2>0. /\ HeaderSize \in Nat /\ n \in Nat /\ used \in Nat /\ x \in Nat /\ left \in Nat
        /\ left = used - HeaderSize - n
    BY <1>0, <1>2, <1>4, <1>12
  <2>1. \A i \in 1 .. left : n + i \in 1 .. used - HeaderSize /\ x + (HeaderSize + (n + i)) = x + (HeaderSize + n) + i
    BY <2>0
  <2>2. \A i \in 1 .. left : Contents(recvq)'[i] = Stream(link)[x + (HeaderSize + (n + i))]
    BY <1>12, <1>13, <1>14, <2>1
  <2>3. off[k + 1] = x + (HeaderSize + n)
    BY <1>12
  <2> SUFFICES ASSUME NEW i \in 1 .. left
               PROVE  Contents(recvq)'[i] = Stream(link)[off[k + 1] + i]
    OBVIOUS
  <2>4. x + (HeaderSize + (n + i)) = off[k + 1] + i
    BY <2>1, <2>3
  <2>5. Contents(recvq)'[i] = Stream(link)[x + (HeaderSize + (n + i))]
    BY <2>2
  <2> QED
    BY <2>4, <2>5
<1>16. given = SubSeq(Bytes(link, k + 1), HeaderSize + 1, HeaderSize + Payload[k + 1])
  <2>1. \A i \in 1 .. n : given[i] = ByteOf(link, k + 1, HeaderSize + i)
    <3>1. \A i \in 1 .. n : i \in 1 .. used - HeaderSize /\ HeaderSize + i \in 1 .. Size(k + 1)
      BY <1>0, <1>2, <1>4
    <3>2. k + 1 - 1 = k
      BY <1>2
    <3>3. \A j \in 1 .. Size(k + 1) : Stream(link)[off[k + 1 - 1] + j] = ByteOf(link, k + 1, j)
      <4>1. Begins(off, link)
        BY DEF StreamAt
      <4>2. PICK m : m = k + 1 /\ m \in 1 .. Packets
        BY <1>1
      <4>3. \A j \in 1 .. Size(m) : Stream(link)[off[m - 1] + j] = ByteOf(link, m, j)
        BY <4>1, <4>2 DEF Begins
      <4> QED
        BY <4>2, <4>3
    <3> QED
      BY <1>10, <1>14, <3>1, <3>2, <3>3
  <2>2. PICK b : b = Bytes(link, k + 1)
    OBVIOUS
  <2>3. b \in Seq(LinkBytes(link)) /\ Len(b) = Size(k + 1) /\ \A i \in 1 .. Size(k + 1) : b[i] = ByteOf(link, k + 1, i)
    BY <1>1, <2>2, BytesAre
  <2>4. PICK h : h = SubSeq(b, HeaderSize + 1, HeaderSize + n)
    OBVIOUS
  <2>5. h \in Seq(LinkBytes(link)) /\ Len(h) = n /\ \A i \in 1 .. n : h[i] = b[HeaderSize + i]
    <3>1. PICK m : m = HeaderSize + n
      OBVIOUS
    <3>2. HeaderSize \in Nat /\ m \in Nat /\ HeaderSize <= m /\ m <= Len(b) /\ n = m - HeaderSize
      BY <1>0, <1>2, <2>3, <3>1
    <3>3. h = SubSeq(b, HeaderSize + 1, m)
      BY <2>4, <3>1
    <3>4. PICK S : S = LinkBytes(link)
      OBVIOUS
    <3>5. b \in Seq(S)
      BY <2>3, <3>4
    <3>6. h \in Seq(S) /\ Len(h) = m - HeaderSize /\ \A i \in 1 .. m - HeaderSize : h[i] = b[HeaderSize + i]
      BY <3>2, <3>3, <3>5, SubIs
    <3> QED
      BY <3>2, <3>4, <3>6
  <2>6. \A i \in 1 .. n : h[i] = given[i]
    <3>1. \A i \in 1 .. n : HeaderSize + i \in 1 .. Size(k + 1)
      BY <1>0, <1>2
    <3> QED
      BY <2>1, <2>3, <2>5, <3>1
  <2>7. h \in Seq(LinkBytes(link) \cup Byte) /\ given \in Seq(LinkBytes(link) \cup Byte)
    BY <1>10, <2>5
  <2>8. h = given
    BY <1>10, <2>5, <2>6, <2>7, SeqEqual
  <2> QED
    BY <2>2, <2>4, <2>8
<1>17. /\ received' = Append(received, given) /\ received' \in Seq(Seq(Byte)) /\ Len(received') = k + 1
       /\ \A no \in 1 .. k : received'[no] = received[no]
       /\ received'[k + 1] = given
  BY <1>0, <1>9, <1>10, <1>2
<1>18. ReceiveTypes'
  BY <1>0, <1>11, <1>17 DEF ReceiveTypes
<1>19. \A no \in 1 .. k + 1 : Given(no)'
  <2>1. \A no \in 1 .. k : Given(no)
    BY DEF StreamAt
  <2>2. ASSUME NEW no \in 1 .. k PROVE Given(no)'
    BY <1>17, <2>1 DEF Given
  <2>3. ASSUME NEW no, no = k + 1 PROVE Given(no)'
    BY <1>16, <1>17, <2>3 DEF Given
  <2> QED
    BY <1>2, <2>2, <2>3
<1>20. Begins(off, link)' /\ arrived' <= Len(Stream(link))'
  BY DEF StreamAt, Begins
<1>21. k + 1 \in 0 .. Packets /\ off[k + 1] <= arrived /\ left = arrived - off[k + 1]
  BY <1>0, <1>2, <1>12, <1>1
<1>22. PICK j : j = k + 1 /\ j = Len(received') /\ Len(received)' = j
  BY <1>17
<1>23. /\ j \in 0 .. Packets /\ off[j] <= arrived' /\ GetUsedSize(recvq)' = arrived' - off[j]
       /\ \A no \in 1 .. j : Given(no)'
  BY <1>13, <1>19, <1>21, <1>22
<1>24. \A i \in 1 .. GetUsedSize(recvq)' : Contents(recvq)'[i] = Stream(link)'[off[j] + i]
  BY <1>13, <1>15, <1>22
<1> QED
  BY <1>18, <1>20, <1>22, <1>23, <1>24 DEF StreamAt

(* Where the next packet begins.                                           *)
LEMMA NextPlace ==
    ASSUME NEW off, StreamAt(off), NEW k \in Nat, k + 1 \in 1 .. Packets
    PROVE  off[k + 1] = off[k] + Size(k + 1)
  BY DEF StreamAt, Begins

(* No packet is left when the header is not all there, or the payload.     *)
LEMMA RestIsShort ==
    ASSUME LanClientAssumption, ReceiveTypes, NEW off, StreamAt(off),
           \/ GetUsedSize(recvq) < HeaderSize
           \/ HeaderSize <= GetUsedSize(recvq) /\ \E n \in PayloadAtFront : ~Whole(n)
    PROVE  NoPacketLeft(off)
<1>0. /\ HeaderSize \in Nat \ {0} /\ Packets \in Nat /\ Sized /\ recvq \in Ring /\ arrived \in Nat
      /\ GetUsedSize(recvq) \in Nat
  BY RingSized, Sizes DEF LanClientAssumption, ReceiveTypes, Packets
<1>1. PICK k, x : k = Len(received) /\ x = off[k] /\ k \in 0 .. Packets /\ x \in Nat
  BY DEF StreamAt, Begins
<1>2. GetUsedSize(recvq) = arrived - x
  BY <1>1 DEF StreamAt
<1>3. SUFFICES ASSUME k /= Packets PROVE arrived < off[k + 1]
  BY <1>1 DEF NoPacketLeft
<1>4. PICK n : n = Payload[k + 1] /\ n \in Nat /\ off[k + 1] = x + (HeaderSize + n)
  <2>1. k + 1 \in 1 .. Packets /\ k + 1 - 1 = k
    BY <1>0, <1>1, <1>3
  <2>2. off[k + 1] = off[k] + Size(k + 1)
    BY <1>1, <2>1, NextPlace
  <2>3. Payload[k + 1] \in Nat
    BY <2>1, BytesAre
  <2> QED
    BY <1>1, <2>1, <2>2, <2>3 DEF Size
<1>5. GetUsedSize(recvq) < HeaderSize + n
  <2>1. CASE GetUsedSize(recvq) < HeaderSize
    BY <1>0, <1>4, <2>1
  <2>2. CASE ~(GetUsedSize(recvq) < HeaderSize)
    <3>1. HeaderSize <= GetUsedSize(recvq)
      BY <1>0, <2>2
    <3>2. PayloadAtFront = {n}
      BY <1>1, <1>4, <3>1, HeaderIs
    <3>3. ~Whole(n)
      BY <2>2, <3>2
    <3> QED
      BY <1>0, <1>4, <3>3 DEF Whole
  <2> QED
    BY <2>1, <2>2
<1> QED
  BY <1>0, <1>1, <1>2, <1>4, <1>5

(* Bytes of the stream arrive.                                             *)
LEMMA BytesArrive ==
    ASSUME LanClientAssumption, ReceiveTypes, link \in 1 .. MaxLink,
           NEW n \in 1 .. GetEmptySize(recvq), arrived + n <= Len(Stream(link)),
           recvq' = MoveRearforSave(Write(recvq, SubSeq(Stream(link), arrived + 1, arrived + n)), n),
           arrived' = arrived + n, received' = received
    PROVE  ReceiveTypes' /\ Contents(recvq)' = Contents(recvq) \o SubSeq(Stream(link), arrived + 1, arrived + n)
<1>0. /\ Sized /\ recvq \in Ring /\ arrived \in Nat /\ GetEmptySize(recvq) \in Nat
      /\ n \in Nat /\ n <= GetEmptySize(recvq)
  BY RingSized, Sizes DEF ReceiveTypes
<1>1. Stream(link) \in Seq(Byte)
  BY StreamBytes
<1>2. PICK bytes : bytes = SubSeq(Stream(link), arrived + 1, arrived + n)
  OBVIOUS
<1>3. bytes \in Seq(Byte) /\ Len(bytes) = n
  <2>1. PICK m : m = arrived + n /\ m \in Nat /\ arrived <= m /\ m - arrived = n
    BY <1>0
  <2> QED
    BY <1>0, <1>1, <1>2, <2>1, SubIs
<1>4. PICK ring : ring = MoveRearforSave(Write(recvq, bytes), n)
  OBVIOUS
<1>5. ring \in Ring /\ Contents(ring) = Contents(recvq) \o bytes
  BY <1>0, <1>3, <1>4, ReceiveAppends
<1>6. recvq' = ring
  BY <1>2, <1>4
<1>7. Contents(recvq)' = Contents(ring)
  BY <1>6
<1>8. ReceiveTypes'
  BY <1>0, <1>5, <1>6 DEF ReceiveTypes
<1> QED
  BY <1>2, <1>5, <1>7, <1>8

(* The ring goes on holding what comes after the packets given.            *)
LEMMA StreamArrives ==
    ASSUME LanClientAssumption, ReceiveTypes, link \in 1 .. MaxLink, NEW off, StreamAt(off),
           NEW n \in 1 .. GetEmptySize(recvq), arrived + n <= Len(Stream(link)),
           recvq' = MoveRearforSave(Write(recvq, SubSeq(Stream(link), arrived + 1, arrived + n)), n),
           arrived' = arrived + n, received' = received, link' = link
    PROVE  StreamAt(off)'
<1>0. /\ Sized /\ recvq \in Ring /\ arrived \in Nat /\ GetEmptySize(recvq) \in Nat
      /\ n \in Nat /\ n <= GetEmptySize(recvq)
  BY RingSized, Sizes DEF ReceiveTypes
<1>1. ReceiveTypes' /\ Contents(recvq)' = Contents(recvq) \o SubSeq(Stream(link), arrived + 1, arrived + n)
  BY BytesArrive
<1>2. PICK k, x : k = Len(received) /\ x = off[k] /\ k \in 0 .. Packets /\ x \in Nat /\ x <= arrived
  BY DEF StreamAt, Begins
<1>3. PICK a, b, w : a = Contents(recvq) /\ w = Stream(link) /\ b = SubSeq(w, arrived + 1, arrived + n)
  OBVIOUS
<1>4. a \in Seq(Byte) /\ Len(a) = arrived - x /\ \A i \in 1 .. Len(a) : a[i] = w[x + i]
  BY <1>0, <1>2, <1>3, ContentsIs DEF StreamAt
<1>5. b \in Seq(Byte) /\ Len(b) = n /\ \A i \in 1 .. n : b[i] = w[arrived + i]
  <2>1. w \in Seq(Byte)
    BY <1>3, StreamBytes
  <2>2. PICK m : m = arrived + n /\ m \in Nat /\ arrived <= m /\ m - arrived = n
    BY <1>0
  <2> QED
    BY <1>0, <1>3, <2>1, <2>2, SubIs
<1>6. PICK c : c = Contents(recvq)' /\ c = a \o b
  BY <1>1, <1>3
<1>7. /\ Len(c) = Len(a) + Len(b)
      /\ \A i \in 1 .. Len(a) : c[i] = a[i]
      /\ \A i \in 1 .. Len(b) : c[Len(a) + i] = b[i]
  <2>1. a \in Seq(Byte) /\ b \in Seq(Byte)
    BY <1>4, <1>5
  <2> QED
    BY <1>6, <2>1, JoinIs
<1>8. Len(c) = arrived' - x /\ Len(a) \in Nat /\ Len(b) \in Nat /\ Len(c) \in Nat
  BY <1>0, <1>2, <1>4, <1>5, <1>7
<1>9. ASSUME NEW i \in 1 .. Len(c) PROVE c[i] = w[x + i]
  <2>1. CASE i <= Len(a)
    BY <1>8, <2>1, <1>4, <1>7
  <2>2. CASE ~(i <= Len(a))
    <3>1. PICK j : j = i - Len(a)
      OBVIOUS
    <3>2. j \in 1 .. Len(b) /\ i = Len(a) + j /\ arrived + j = x + i
      <4>1. Len(a) = arrived - x /\ Len(b) = n /\ Len(c) = Len(a) + Len(b) /\ Len(a) \in Nat
        BY <1>4, <1>5, <1>7, <1>8
      <4>2. /\ i \in Nat /\ x \in Nat /\ arrived \in Nat /\ n \in Nat /\ i <= Len(a) + n
            /\ Len(a) < i
        BY <1>0, <1>2, <1>8, <2>2, <4>1
      <4>3. j \in Nat /\ 1 <= j /\ j <= n /\ i = Len(a) + j
        BY <3>1, <4>1, <4>2
      <4>4. arrived + j = x + i
        BY <4>1, <4>2, <4>3
      <4> QED
        BY <4>1, <4>3, <4>4
    <3>3. c[i] = b[j] /\ b[j] = w[arrived + j]
      BY <1>5, <1>7, <3>2
    <3> QED
      BY <3>2, <3>3
  <2> QED
    BY <2>1, <2>2
<1>10. GetUsedSize(recvq)' = Len(c)
  BY <1>1, <1>0, ContentsIs, <1>6 DEF ReceiveTypes, Contents, GetUsedSize
<1>11. Begins(off, link)' /\ arrived' <= Len(Stream(link))' /\ \A no \in 1 .. k : Given(no)'
  BY <1>2 DEF StreamAt, Begins, Given
<1>12. Len(received)' = k /\ x <= arrived'
  BY <1>0, <1>2
<1>13. GetUsedSize(recvq)' = arrived' - x
       /\ \A i \in 1 .. GetUsedSize(recvq)' : Contents(recvq)'[i] = Stream(link)'[x + i]
  BY <1>3, <1>6, <1>8, <1>9, <1>10
<1> QED
  BY <1>2, <1>11, <1>12, <1>13 DEF StreamAt

(* A link begins with an empty ring.                                       *)
LEMMA StreamStarts ==
    ASSUME LanClientAssumption, ReceiveTypes, GetUsedSize(recvq) = 0,
           recvq' = recvq, arrived' = 0, received' = <<>>
    PROVE  \E off : StreamAt(off)' /\ NoPacketLeft(off)'
<1>1. PICK l : l = link'
  OBVIOUS
<1>2. PICK off : Begins(off, l)
  BY StreamIs
<1>3. Packets \in Nat /\ Len(Stream(l)) \in Nat /\ Len(<<>>) = 0
  BY StreamIs DEF LanClientAssumption, Packets
<1>4. Begins(off, link)' /\ Len(received)' = 0 /\ off[0] = 0
  BY <1>1, <1>2 DEF Begins
<1>5. GetUsedSize(recvq)' = 0
  BY DEF GetUsedSize
<1>6. StreamAt(off)'
  BY <1>1, <1>3, <1>4, <1>5 DEF StreamAt
<1>7. NoPacketLeft(off)'
  <2>1. SUFFICES ASSUME Packets /= 0 PROVE 0 < off[1]
    BY <1>4 DEF NoPacketLeft
  <2>2. 1 \in 1 .. Packets /\ 1 - 1 = 0
    BY <1>3, <2>1
  <2>3. off[1] = off[1 - 1] + Size(1) /\ Size(1) \in Nat /\ Size(1) > 0
    BY <1>2, <2>2, BytesAre DEF Begins
  <2> QED
    BY <1>4, <2>2, <2>3
<1> QED
  BY <1>6, <1>7

-----------------------------------------------------------------------------
(* One receiver, from the completion of a receive until the next is posted. *)
Receiving == {"packet", "recv_post", "WSARecv"}
Rcv(p) == p /= <<>> /\ Head(p) \in Receiving

ReceiverInv ==
    /\ posted["recv"] \in {0, 1}
    /\ posted["recv"] = 1 => \A t \in Thread : ~Rcv(thread[t])
    /\ \A t, u \in Thread : Rcv(thread[t]) /\ Rcv(thread[u]) => t = u

(* Connect, and from the end of recv_complete's loop to the completion.    *)
Drained ==
    \/ posted["recv"] = 1 \/ thread[monitor] \in SetupProgram
    \/ \E t \in Thread : HeadIs(thread[t], "recv_post") \/ HeadIs(thread[t], "WSARecv")

StreamInv == ~leftover /\ link > 0 => \E off : StreamAt(off) /\ (Drained => NoPacketLeft(off))

(* Steps of who does not receive.                                          *)
LEMMA ReceiverQuiet ==
    ASSUME ReceiverInv, NEW t \in Thread, OneThread(t), posted'["recv"] = posted["recv"],
           Rcv(thread'[t]) => Rcv(thread[t])
    PROVE  ReceiverInv'
  BY DEF OneThread, ReceiverInv

(* Nobody receives while the monitor thread is in Connect.                 *)
LEMMA WaitsReceive == ASSUME NEW p, Waits(p) PROVE ~Rcv(p) /\ ~HeadIs(p, "recv_post") /\ ~HeadIs(p, "WSARecv")
  BY DEF Waits, Rcv, Receiving, HeadIs

(* While the monitor thread is in Connect nobody receives.                 *)
LEMMA ReceiverSetup ==
    ASSUME RefInv', thread'[monitor] \in SetupProgram
    PROVE  ReceiverInv'
  BY WaitsReceive DEF RefInv, ReceiverInv

(* Steps that receive nothing.                                             *)
LEMMA StreamKept ==
    ASSUME StreamInv, UNCHANGED <<recvVars, link, leftover>>, Drained' => Drained
    PROVE  StreamInv'
<1>1. UNCHANGED <<recvq, arrived, received>>
  BY DEF recvVars
<1>2. SUFFICES ASSUME ~leftover', link' > 0
               PROVE  \E off : StreamAt(off)' /\ (Drained' => NoPacketLeft(off)')
  BY DEF StreamInv
<1>3. PICK off : StreamAt(off) /\ (Drained => NoPacketLeft(off))
  BY <1>2 DEF StreamInv
<1>4. StreamAt(off)'
  BY <1>1, <1>3 DEF StreamAt, Begins, Given, Contents, GetUsedSize, Peek, ReadPlace
<1>5. NoPacketLeft(off) => NoPacketLeft(off)'
  BY <1>1 DEF NoPacketLeft
<1> QED
  BY <1>3, <1>4, <1>5

(* A thread that does not receive does not drain the ring.                 *)
LEMMA DrainedQuiet ==
    ASSUME NEW t \in Thread, OneThread(t), posted'["recv"] = 1 => posted["recv"] = 1, ~Rcv(thread'[t]),
           t = monitor /\ thread'[t] \in SetupProgram => thread[t] \in SetupProgram
    PROVE  Drained' => Drained
  BY DEF Rcv, Receiving, HeadIs, OneThread, Thread, Drained

(* A step of a thread that concerns no receive.                            *)
LEMMA Onward ==
    ASSUME LanClientAssumption, RefInv, NEW t \in Thread, Step(t),
           ~Recv_Post(t), ~WSARecv(t), ~Recv_Complete(t)
    PROVE  /\ OneThread(t) /\ ~Rcv(thread'[t])
           /\ thread'[t] \in SetupProgram => thread[t] \in SetupProgram
<1>0. DOMAIN thread = Thread /\ thread[t] \in Program(t)
  BY DEF RefInv, ProgramsOK
<1>1. ASSUME Done(t), thread[t] /= <<>>, Head(thread[t]) \notin {"free", "reset", "connected", "bind"}
      PROVE  OneThread(t) /\ ~Rcv(thread'[t]) /\ thread'[t] \notin SetupProgram
  BY <1>0, <1>1, ThenIs, ProgramIsSeq, SecondStep, PlainBare DEF Done, Rcv, Receiving, Plain, Bare
<1>2. ASSUME NEW x \in {"enqueue", "claimed", "giveup", "post", "WSASend", "unsend", "sent", "release"},
             NEW s \in Seq(Steps), s /= <<>>, Head(s) = x, Then(t, s), thread[t] /= <<>>
      PROVE  OneThread(t) /\ ~Rcv(thread'[t]) /\ thread'[t] \notin SetupProgram
  BY <1>0, <1>2, MovedOn, HeadKind DEF Rcv, Receiving, HeadIs
<1>3. CASE ReleaseSession(t) /\ ~Done(t)
  <2>1. At(t, "release") /\ Then(t, <<"free", "reset", "off">>)
    BY <1>3 DEF ReleaseSession
  <2>2. OneThread(t) /\ thread'[t] = <<"free", "reset", "off">> \o Tail(thread[t])
    BY <1>0, <2>1, ThenIs
  <2>3. thread'[t] \in {<<"free", "reset", "off">>, <<"free", "reset", "off", "SendPacket">>}
    <3>1. Tail(thread[t]) = <<>> \/ Tail(thread[t]) = <<"SendPacket">>
      BY <1>0, <2>1, AtRelease
    <3>2. CASE Tail(thread[t]) = <<>>
      BY <2>2, <3>2, JoinNone
    <3>3. CASE Tail(thread[t]) = <<"SendPacket">>
      BY <2>2, <3>3, JoinThreeOne
    <3> QED
      BY <3>1, <3>2, <3>3
  <2>4. \A p \in {<<"free", "reset", "off">>, <<"free", "reset", "off", "SendPacket">>} :
           p \notin SetupProgram /\ ~Rcv(p)
    BY DEF SetupProgram, RecvSteps, Rcv, Receiving
  <2> QED
    BY <2>2, <2>3, <2>4
<1>4. CASE FreeSendQueuePacket(t) \/ InitializeSession(t)
  <2>1. Then(t, <<>>) /\ (At(t, "free") \/ At(t, "reset"))
    BY <1>4 DEF FreeSendQueuePacket, InitializeSession, Done
  <2>2. OneThread(t) /\ thread'[t] = <<>> \o Tail(thread[t])
    BY <1>0, <2>1, ThenIs
  <2>3. \/ /\ Tail(thread[t]) \in {<<"reset", "off">>, <<"reset", "off", "SendPacket">>, <<"off">>,
                                   <<"off", "SendPacket">>}
        \/ /\ Tail(thread[t]) \in {<<"reset", "connect">>, <<"connect">>}
           /\ thread[t] \in {<<"free", "reset", "connect">>, <<"reset", "connect">>}
    BY <1>0, <2>1, AtFree
  <2>4. thread'[t] = Tail(thread[t])
    BY <2>2, <2>3, JoinNone
  <2>5. \A p \in {<<"reset", "off">>, <<"reset", "off", "SendPacket">>, <<"off">>, <<"off", "SendPacket">>} :
           p \notin SetupProgram /\ ~Rcv(p)
    BY DEF SetupProgram, RecvSteps, Rcv, Receiving
  <2>6. \A p \in {<<"reset", "connect">>, <<"connect">>} : ~Rcv(p)
    BY DEF Rcv, Receiving
  <2>7. {<<"free", "reset", "connect">>, <<"reset", "connect">>} \subseteq SetupProgram
    BY DEF SetupProgram
  <2> QED
    BY <2>2, <2>3, <2>4, <2>5, <2>6, <2>7
<1>5. CASE Send_Post_Fail(t) \/ Recv_Post_Fail(t) \/ Update_WorkerThread_Dec(t)
  <2>1. Unref(t, <<>>) \/ Unref(t, <<"sent">>)
    BY <1>5 DEF Send_Post_Fail, Recv_Post_Fail, Update_WorkerThread_Dec
  <2>2. thread[t] /= <<>> /\ Head(thread[t]) \in {"unsend", "unrecv", "dec"}
    BY <1>5 DEF Send_Post_Fail, Recv_Post_Fail, Update_WorkerThread_Dec, At
  <2>3. /\ <<>> \o <<>> = <<>> /\ <<>> \o <<"release">> = <<"release">>
        /\ <<"sent">> \o <<>> = <<"sent">> /\ <<"sent">> \o <<"release">> = <<"sent", "release">>
    BY JoinNone, JoinOneOne
  <2>4. \E p \in {<<>>, <<"release">>, <<"sent">>, <<"sent", "release">>} : Then(t, p)
    BY <2>1, <2>3 DEF Unref
  <2>5. "release" \in Steps /\ "sent" \in Steps
    BY StepSeqs
  <2>6. CASE Then(t, <<>>)
    BY <1>1, <2>2, <2>6 DEF Done
  <2>7. CASE Then(t, <<"release">>)
    BY <2>5, StepSeqs, <1>2, <2>2, <2>7
  <2>8. CASE Then(t, <<"sent">>)
    BY <2>5, StepSeqs, <1>2, <2>2, <2>8
  <2>9. CASE Then(t, <<"sent", "release">>)
    <3>1. /\ <<"sent", "release">> \in Seq(Steps) /\ <<"sent", "release">> /= <<>>
          /\ Head(<<"sent", "release">>) = "sent"
      BY <2>5, StepSeqs
    <3> QED
      BY <1>2, <2>2, <2>9, <3>1
  <2> QED
    BY <2>4, <2>6, <2>7, <2>8, <2>9
<1>6. CASE \/ (ReleaseSession(t) /\ Done(t)) \/ SwitchOff(t) \/ SendPacket(t) \/ Enqueue(t)
           \/ Send_Post_Claim(t) \/ Send_Post_Take(t) \/ Send_Post_GiveUp(t) \/ Send_Post_Ref(t)
           \/ Send_Post(t) \/ Send_Complete(t)
  <2>1. thread[t] /= <<>> /\ Head(thread[t]) \notin {"free", "reset", "connected", "bind"}
    BY <1>6 DEF ReleaseSession, SwitchOff, SendPacket, Enqueue, Send_Post_Claim, Send_Post_Take,
                Send_Post_GiveUp, Send_Post_Ref, Send_Post, Send_Complete, At
  <2>2. \/ Done(t) \/ Then(t, <<"enqueue", "send_post">>)
        \/ \E x \in {"claimed", "giveup", "post", "WSASend", "unsend"} : Then(t, <<x>>)
    BY <1>6 DEF ReleaseSession, SwitchOff, SendPacket, Enqueue, Send_Post_Claim, Send_Post_Take,
                Send_Post_GiveUp, Send_Post_Ref, Send_Post, Send_Complete
  <2>3. CASE Then(t, <<"enqueue", "send_post">>)
    <3>1. "enqueue" \in Steps /\ "send_post" \in Steps
      BY StepSeqs
    <3>2. /\ <<"enqueue", "send_post">> \in Seq(Steps) /\ <<"enqueue", "send_post">> /= <<>>
          /\ Head(<<"enqueue", "send_post">>) = "enqueue"
      BY <3>1, StepSeqs
    <3> QED
      BY <1>2, <2>1, <2>3, <3>2
  <2>4. ASSUME NEW x \in {"claimed", "giveup", "post", "WSASend", "unsend"}, Then(t, <<x>>)
        PROVE  OneThread(t) /\ ~Rcv(thread'[t]) /\ thread'[t] \notin SetupProgram
    <3>1. x \in Steps
      BY DEF Steps, SendSteps
    <3>2. <<x>> \in Seq(Steps) /\ <<x>> /= <<>> /\ Head(<<x>>) = x
      BY <3>1, StepSeqs
    <3> QED
      BY <1>2, <2>1, <2>4, <3>2
  <2> QED
    BY <1>1, <2>1, <2>2, <2>3, <2>4
<1> QED
  BY <1>3, <1>4, <1>5, <1>6 DEF Step

(* Steps that concern no receive.                                          *)
LEMMA OnwardKeeps ==
    ASSUME LanClientAssumption, RefInv, ReceiverInv, StreamInv, NEW t \in Thread, Step(t),
           ~Recv_Post(t), ~WSARecv(t), ~Recv_Complete(t)
    PROVE  ReceiverInv' /\ StreamInv'
<1>1. /\ OneThread(t) /\ ~Rcv(thread'[t])
      /\ thread'[t] \in SetupProgram => thread[t] \in SetupProgram
  BY Onward
<1>2. posted'["recv"] = posted["recv"] /\ UNCHANGED <<recvVars, link, leftover>>
  <2>1. CASE Send_Post(t)
    BY <2>1 DEF Send_Post, RefInv, sockVars
  <2>2. CASE ~Send_Post(t)
    BY <2>2 DEF Step, ReleaseSession, FreeSendQueuePacket, InitializeSession, SwitchOff, SendPacket, Enqueue,
           Send_Post_Claim, Send_Post_Take, Send_Post_GiveUp, Send_Post_Ref, Send_Post_Fail,
           Send_Complete, Recv_Post_Fail, Update_WorkerThread_Dec, sockVars
  <2> QED
    BY <2>1, <2>2
<1>3. ReceiverInv'
  BY <1>1, <1>2, ReceiverQuiet
<1>4. Drained' => Drained
  BY <1>1, <1>2, DrainedQuiet
<1> QED
  BY <1>2, <1>3, <1>4, StreamKept

(* Who holds the reference of a receive is not waiting for Connect.        *)
LEMMA ReceiverAlone ==
    ASSUME LanClientAssumption, RefInv, ReceiverInv, NEW t \in Thread, Rcv(thread[t])
    PROVE  /\ posted["recv"] = 0 /\ \A u \in Thread \ {t} : ~Rcv(thread[u])
           /\ t /= monitor => thread[monitor] \notin SetupProgram
  BY WaitsReceive DEF RefInv, ReceiverInv

(* The receive is posted.                                                  *)
LEMMA PostKeeps ==
    ASSUME LanClientAssumption, RefInv, ReceiverInv, StreamInv, NEW t \in Thread,
           Recv_Post(t) \/ WSARecv(t)
    PROVE  ReceiverInv' /\ StreamInv'
<1>0. DOMAIN thread = Thread /\ thread[t] \in Program(t)
  BY DEF RefInv, ProgramsOK
<1>1. PICK x \in {"recv_post", "WSARecv"} : At(t, x)
  BY DEF Recv_Post, WSARecv
<1>2. HeadIs(thread[t], x) /\ x \in RecvSteps
  BY <1>1 DEF At, HeadIs, RecvSteps
<1>3. Rcv(thread[t])
  BY <1>2 DEF HeadIs, Rcv, Receiving
<1>4. Drained
  BY <1>2 DEF Drained
<1>5. UNCHANGED <<recvVars, link, leftover>>
  BY DEF Recv_Post, WSARecv, sockVars
<1>6. t \in Worker \cup {monitor} /\ Tail(thread[t]) = RecvEnds(t)
  BY <1>0, <1>1, <1>2, AtRecv
<1>7. posted["recv"] = 0 /\ \A u \in Thread \ {t} : ~Rcv(thread[u])
  BY <1>3, ReceiverAlone
<1>8. ASSUME posted' = posted, OneThread(t) PROVE ReceiverInv'
  BY <1>3, <1>8, ReceiverQuiet
<1>9. CASE posted' = posted
  <2>1. \E y : Then(t, <<y>>)
    <3>1. CASE Recv_Post(t)
      BY <3>1 DEF Recv_Post
    <3>2. CASE WSARecv(t)
      <4>1. posted' /= [posted EXCEPT !["recv"] = @ + 1]
        BY <1>9 DEF RefInv
      <4> QED
        BY <3>2, <4>1 DEF WSARecv
    <3> QED
      BY <3>1, <3>2
  <2>2. OneThread(t)
    BY <1>0, <1>6, <2>1, RecvThen
  <2> QED
    BY <1>4, <1>5, <1>8, <1>9, <2>2, StreamKept
<1>10. CASE Done(t) /\ posted' = [posted EXCEPT !["recv"] = @ + 1]
  BY <1>0, <1>6, <1>10, RecvThen, RecvEndsKind, <1>7, <1>4, <1>5, StreamKept DEF Rcv, Receiving,
     RefInv, OneThread, ReceiverInv
<1> QED
  BY <1>9, <1>10 DEF Recv_Post, WSARecv

(* A turn of recv_complete's loop.                                         *)
LEMMA PacketKeeps ==
    ASSUME LanClientAssumption, ReceiveTypes, RefInv, ReceiverInv, StreamInv, NEW t \in Thread, Recv_Complete(t)
    PROVE  ReceiverInv' /\ StreamInv'
<1>0. DOMAIN thread = Thread /\ thread[t] \in Program(t) /\ monitor \notin Worker /\ monitor \in Thread
  BY DEF RefInv, ProgramsOK, LanClientAssumption, Thread
<1>1. /\ At(t, "packet") /\ UNCHANGED <<arrived, link, leftover, posted>>
  BY DEF Recv_Complete, sockVars
<1>2. /\ t \in Worker /\ Rcv(thread[t])
      /\ Then(t, <<"recv_post">>) => OneThread(t) /\ thread'[t] = Recvs(t, "recv_post")
      /\ Done(t) => OneThread(t) /\ thread'[t] = RecvEnds(t)
  BY <1>0, <1>1, AtPacket DEF At, Rcv, Receiving
<1>3. /\ posted["recv"] = 0 /\ \A u \in Thread \ {t} : ~Rcv(thread[u])
      /\ thread[monitor] \notin SetupProgram
  BY <1>0, <1>2, ReceiverAlone
<1>4. ASSUME OneThread(t) PROVE ReceiverInv'
  BY <1>1, <1>2, <1>4, ReceiverQuiet
<1>5. PICK used : used = GetUsedSize(recvq)
  OBVIOUS
<1>6. /\ Len(Peek(recvq, HeaderSize)) = IF HeaderSize < used THEN HeaderSize ELSE used
      /\ used \in Nat /\ HeaderSize \in Nat
  BY <1>5, RingSized, Sizes, PeekIs DEF LanClientAssumption, ReceiveTypes
<1>7. CASE /\ Then(t, <<"recv_post">>) /\ UNCHANGED <<recvq, received>>
           /\ \/ GetUsedSize(recvq) < HeaderSize
              \/ HeaderSize <= GetUsedSize(recvq) /\ \E n \in PayloadAtFront : ~Whole(n)
  BY <1>1, <1>7, RestIsShort, <1>2, <1>4 DEF StreamInv, StreamAt, Begins, Given, Contents,
     GetUsedSize, Peek, ReadPlace, NoPacketLeft
<1>8. CASE Done(t) /\ UNCHANGED <<recvq, received>>
  BY <1>2, <1>8, RecvEndsKind, <1>1, DrainedQuiet, <1>4, StreamKept DEF Rcv, Receiving, recvVars
<1>9. ASSUME HeaderSize <= GetUsedSize(recvq), NEW n \in PayloadAtFront, Whole(n), UNCHANGED thread,
             received' = Append(received, Peek(MoveFrontforDelete(recvq, HeaderSize), n)),
             recvq' = Dequeue(MoveFrontforDelete(recvq, HeaderSize), n)
      PROVE  ReceiverInv' /\ StreamInv'
  <2>1. OneThread(t)
    BY <1>0, <1>9 DEF OneThread
  <2>2. ~Drained'
    BY <1>3, <1>1, <1>9 DEF Rcv, Receiving, HeadIs, At, Drained
  <2>3. StreamInv'
    BY <2>2, <1>1, <1>9, HeaderIs, PacketGiven DEF StreamInv
  <2> QED
    BY <1>4, <2>1, <2>3
<1>10. CASE Len(Peek(recvq, HeaderSize)) < HeaderSize
  BY <1>5, <1>6, <1>10, <1>7 DEF Recv_Complete
<1>11. CASE ~(Len(Peek(recvq, HeaderSize)) < HeaderSize)
  BY <1>5, <1>6, <1>11, <1>7, <1>8, <1>9 DEF Recv_Complete
<1> QED
  BY <1>10, <1>11

(* Bytes of the link's stream arrive.                                      *)
LEMMA ArriveKeeps ==
    ASSUME LanClientAssumption, ReceiveTypes, RefInv, ReceiverInv, StreamInv, link \in 1 .. MaxLink,
           NEW w \in Worker, Complete_Recv(w)
    PROVE  ReceiverInv' /\ StreamInv'
<1>0. DOMAIN thread = Thread /\ w \in Thread /\ w /= monitor
  BY DEF RefInv, ProgramsOK, LanClientAssumption, Thread
<1>1. /\ posted["recv"] > 0 /\ posted' = [posted EXCEPT !["recv"] = @ - 1]
      /\ thread' = [thread EXCEPT ![w] = <<"packet", "dec">>]
      /\ UNCHANGED <<received, link, leftover>>
  BY DEF Complete_Recv, Complete, sockVars
<1>2. posted["recv"] = 1 /\ posted'["recv"] = 0 /\ \A t \in Thread : ~Rcv(thread[t])
  BY <1>1 DEF ReceiverInv, RefInv
<1>3. OneThread(w) /\ thread'[w] = <<"packet", "dec">>
  BY <1>0, <1>1 DEF OneThread
<1>4. \A t \in Thread \ {w} : ~Rcv(thread'[t])
  BY <1>2, <1>3 DEF OneThread
<1>5. ReceiverInv'
  BY <1>2, <1>4 DEF ReceiverInv
<1>6. ~Drained'
  BY <1>0, <1>2, <1>3, <1>4 DEF OneThread, RefInv, Thread, HeadIs, Rcv, Receiving, Drained
<1>7. StreamInv'
  BY <1>6, <1>1, StreamArrives DEF StreamInv, Complete_Recv
<1> QED
  BY <1>5, <1>7

(* A program is begun that receives nothing.                               *)
LEMMA BeginKeeps ==
    ASSUME LanClientAssumption, RefInv, ReceiverInv, StreamInv, NEW t \in Thread, t /= monitor,
           NEW p, thread' = [thread EXCEPT ![t] = p], ~Rcv(p), UNCHANGED <<recvVars, link, leftover>>,
           posted'["recv"] = posted["recv"] \/ (posted'["recv"] = posted["recv"] - 1 /\ posted["recv"] > 0)
    PROVE  ReceiverInv' /\ StreamInv'
  BY DrainedQuiet, StreamKept DEF RefInv, ProgramsOK, OneThread, ReceiverInv

(* Completions that bring no bytes, and calls.                             *)
LEMMA OthersKeep ==
    ASSUME LanClientAssumption, RefInv, ReceiverInv, StreamInv,
           \/ \E w \in Worker : Complete_Send(w) \/ Complete_None(w)
           \/ \E c \in Caller : Call(c)
    PROVE  ReceiverInv' /\ StreamInv'
<1>1. /\ ~Rcv(<<"dec">>) /\ ~Rcv(<<"sent", "send_post", "dec">>) /\ ~Rcv(<<"SendPacket">>)
  BY DEF Rcv, Receiving
<1>2. ASSUME NEW w \in Worker, Complete_Send(w) PROVE ReceiverInv' /\ StreamInv'
  BY <1>2, <1>1, BeginKeeps DEF Thread, LanClientAssumption, Complete_Send, Complete, RefInv,
     sockVars
<1>3. ASSUME NEW w \in Worker, Complete_None(w) PROVE ReceiverInv' /\ StreamInv'
  BY <1>3, <1>1, BeginKeeps DEF Thread, LanClientAssumption, Complete_None, sockVars, Complete,
     RefInv
<1>4. ASSUME NEW c \in Caller, Call(c) PROVE ReceiverInv' /\ StreamInv'
  BY <1>4, <1>1, BeginKeeps DEF Thread, LanClientAssumption, Call, sockVars
<1> QED
  BY <1>2, <1>3, <1>4

(* Nothing moves in a step that leaves the threads and what is posted.     *)
LEMMA StillKeeps ==
    ASSUME ReceiverInv, StreamInv, UNCHANGED <<thread, posted, recvVars, link, leftover>>
    PROVE  ReceiverInv' /\ StreamInv'
  BY StreamKept DEF ReceiverInv, Drained

(* Connect.                                                                *)
LEMMA ConnectingKeeps ==
    ASSUME LanClientAssumption, ReceiveTypes, RefInv, RefInv', ReceiverInv, StreamInv, Connecting
    PROVE  ReceiverInv' /\ StreamInv'
<1>0. monitor \in Thread /\ DOMAIN thread = Thread /\ thread[monitor] \in Program(monitor)
  BY DEF Thread, RefInv, ProgramsOK
<1>1. CASE Connect
  <2>1. thread'[monitor] = <<"free", "reset", "connect">>
    BY <1>0, <1>1 DEF Connect
  <2>2. ReceiverInv'
    BY <2>1, ReceiverSetup DEF SetupProgram
  <2>3. SUFFICES ASSUME ~leftover' PROVE \E off : StreamAt(off)' /\ NoPacketLeft(off)'
    BY <2>2 DEF StreamInv
  <2>4. ~(GetUsedSize(recvq) > 0)
    BY <1>1, <2>3 DEF Connect
  <2>5. GetUsedSize(recvq) = 0
    BY <2>4, RingSized, Sizes DEF ReceiveTypes
  <2>6. recvq' = recvq /\ arrived' = 0 /\ received' = <<>>
    BY <1>1 DEF Connect
  <2> QED
    BY <2>5, <2>6, StreamStarts
<1>2. ASSUME thread[monitor] \in SetupProgram, UNCHANGED <<posted, recvVars, link, leftover>>,
             \/ thread'[monitor] \in SetupProgram
             \/ OneThread(monitor) /\ thread'[monitor] = <<>>
      PROVE  ReceiverInv' /\ StreamInv'
  BY <1>2, ReceiverSetup, <1>0, ReceiverQuiet, StreamKept DEF Drained, Rcv
<1>3. ASSUME Connect_Connected \/ Connect_Enable \/ Connect_Bind \/ Connect_Failed
      PROVE  UNCHANGED <<posted, recvVars, link, leftover>>
  BY <1>3 DEF Connect_Connected, Connect_Enable, Connect_Bind, Connect_Failed, sockVars
<1>4. /\ <<"connect">> \in SetupProgram
      /\ <<"connected", "bind", "recv_post", "SendPacket">> \in SetupProgram
      /\ <<"bind", "recv_post", "SendPacket">> \in SetupProgram
      /\ <<"recv_post", "SendPacket">> \in SetupProgram
  BY DEF SetupProgram, RecvSteps
<1>5. CASE Connect_Connected
  BY <1>5, <1>0, AtSetup, ThenIs, JoinFourNone, <1>2, <1>3, <1>4 DEF Connect_Connected
<1>6. CASE Connect_Enable \/ Connect_Bind \/ Connect_Failed
  <2>1. Then(monitor, <<>>) /\ (At(monitor, "connect") \/ At(monitor, "connected") \/ At(monitor, "bind"))
    BY <1>6 DEF Connect_Enable, Connect_Bind, Connect_Failed, Done
  <2>2. OneThread(monitor) /\ thread'[monitor] = <<>> \o Tail(thread[monitor])
    BY <1>0, <2>1, ThenIs
  <2>3. /\ thread[monitor] \in SetupProgram
        /\ Tail(thread[monitor]) \in {<<>>, <<"bind", "recv_post", "SendPacket">>, <<"recv_post", "SendPacket">>}
    BY <1>0, <1>4, <2>1, AtSetup
  <2>4. thread'[monitor] = Tail(thread[monitor])
    BY <2>2, <2>3, JoinNone
  <2>5. thread'[monitor] = <<>> \/ thread'[monitor] \in SetupProgram
    BY <1>4, <2>3, <2>4
  <2> QED
    BY <1>2, <1>3, <1>6, <2>2, <2>3, <2>5
<1> QED
  BY <1>1, <1>5, <1>6 DEF Connecting

(* Every step, unless it makes late true.                                  *)
LEMMA ReceiveStep ==
    ASSUME LanClientAssumption, ReceiveTypes, link > 0 => link \in 1 .. MaxLink, posted["recv"] > 0 => link > 0,
           RefInv, RefInv', ReceiverInv, StreamInv, [Next]_vars
    PROVE  ReceiverInv' /\ StreamInv'
  BY StillKeeps, PacketKeeps, PostKeeps, OnwardKeeps, ConnectingKeeps, ArriveKeeps, OthersKeep DEF
     vars, sockVars, Complete_Recv, Complete, Cut, Next, Completing

(* The property.                                                           *)
LEMMA StreamSafe ==
    ASSUME LanClientAssumption, ReceiveTypes, TypeOK, link = 0 => received = <<>> /\ posted["recv"] = 0,
           ReceiverInv, StreamInv
    PROVE  ReceivedIsStream
<1>0. Packets \in Nat /\ link \in Nat /\ received \in Seq(Seq(Byte)) /\ arrived \in Nat /\ posted["recv"] \in {0, 1}
      /\ DOMAIN received = 1 .. Len(received)
  BY DEF LanClientAssumption, Packets, TypeOK, ReceiveTypes, ReceiverInv
<1>1. SUFFICES ASSUME ~leftover
               PROVE  /\ \A no \in DOMAIN received :
                            received[no] = SubSeq(Bytes(link, no), HeaderSize + 1, HeaderSize + Payload[no])
                      /\ posted["recv"] > 0 => Len(received) = Complete_Packets
  BY DEF ReceivedIsStream
<1>2. CASE link = 0
  BY <1>2, <1>0
<1>3. CASE link > 0
  <2>1. PICK off : StreamAt(off) /\ (Drained => NoPacketLeft(off))
    BY <1>1, <1>3 DEF StreamInv
  <2>2. PICK k : k = Len(received) /\ k \in 0 .. Packets
    BY <2>1 DEF StreamAt
  <2>3. \A no \in 1 .. k : received[no] = SubSeq(Bytes(link, no), HeaderSize + 1, HeaderSize + Payload[no])
    BY <2>1, <2>2 DEF StreamAt, Given
  <2>4. ASSUME posted["recv"] > 0 PROVE k = Complete_Packets
    BY <1>0, <2>1, <2>4, <2>2, PacketsComplete DEF Drained, NoPacketLeft, StreamAt
  <2> QED
    BY <1>0, <2>2, <2>3, <2>4
<1> QED
  BY <1>0, <1>2, <1>3

-----------------------------------------------------------------------------
(* Types, whatever has been overtaken.                                     *)
StateTypes ==
    /\ clientOn \in BOOLEAN /\ disconnectNow \in BOOLEAN /\ ioCount \in Int
    /\ link \in 0 .. MaxLink /\ conn \in {"none", "new", "up", "cut", "closed"} /\ bound \in BOOLEAN
    /\ posted \in [{"recv", "send"} -> Nat] /\ DOMAIN thread = Thread
    /\ crash \in BOOLEAN /\ late \in BOOLEAN /\ leftover \in BOOLEAN

SendTypes ==
    /\ bSend \in BOOLEAN /\ sendq \in Seq(Packet) /\ packetBuffer \in Seq(Packet)
    /\ freed \subseteq Packet /\ twice \in BOOLEAN /\ queued \in Nat
    /\ sendPacketSize \in Nat /\ sendPacketSize <= Len(packetBuffer)
    /\ mine \in [Thread -> Seq(Packet)] /\ \A t \in Thread : Len(mine[t]) <= Len(packetBuffer)

(* Before the first link nothing is done.                                  *)
NoLinkYet ==
    link = 0 => /\ received = <<>> /\ posted["recv"] = 0 /\ posted["send"] = 0
                /\ \A t \in Thread : thread[t] = <<>>

TypeInv == StateTypes /\ SendTypes /\ ReceiveTypes /\ NoLinkYet

(* The parts of the type are the type.                                     *)
LEMMA TypesAre == ASSUME TypeInv PROVE TypeOK
  BY DEF TypeInv, StateTypes, SendTypes, ReceiveTypes, TypeOK

(* With no link, only Connect does anything.                               *)
LEMMA LinkFirst ==
    ASSUME TypeInv, Next, ~Connect, ~Cut
    PROVE  link \in 1 .. MaxLink /\ link' = link
<1>1. ASSUME NEW t \in Thread, Step(t) PROVE thread[t] /= <<>> /\ link' = link
  BY <1>1 DEF Step, At, ReleaseSession, FreeSendQueuePacket, InitializeSession, SwitchOff, SendPacket, Enqueue,
           Send_Post_Claim, Send_Post_Take, Send_Post_GiveUp, Send_Post_Ref, Send_Post, Send_Post_Fail,
           Send_Complete, Recv_Post, WSARecv, Recv_Post_Fail, Recv_Complete, Update_WorkerThread_Dec, sockVars
<1>2. ASSUME Connecting PROVE thread[monitor] /= <<>> /\ link' = link
  BY <1>2 DEF Connecting, At, Connect_Connected, Connect_Enable, Connect_Bind, Connect_Failed, sockVars
<1>3. ASSUME NEW w \in Worker, Completing(w) PROVE (posted["recv"] > 0 \/ posted["send"] > 0) /\ link' = link
  BY <1>3 DEF Completing, Complete_Recv, Complete_Send, Complete_None, Complete, sockVars
<1>4. ASSUME NEW c \in Caller, Call(c) PROVE (link > 1 \/ received /= <<>>) /\ link' = link
  BY <1>4 DEF Call, sockVars
<1>5. monitor \in Thread /\ link \in 0 .. MaxLink
  BY DEF Thread, TypeInv, StateTypes
<1>6. link /= 0 => link \in 1 .. MaxLink
  BY <1>5
<1>7. link /= 0 /\ link' = link
  BY <1>1, <1>2, <1>5, <1>3, <1>4 DEF TypeInv, NoLinkYet, Next
<1> QED
  BY <1>6, <1>7

(* Only Connect makes the first link.                                      *)
LEMMA NoLinkStep ==
    ASSUME LanClientAssumption, TypeInv, Next
    PROVE  NoLinkYet'
<1>1. CASE Connect
  BY <1>1 DEF Connect, NoLinkYet, TypeInv, StateTypes
<1>2. CASE Cut
  BY <1>2 DEF Cut, NoLinkYet, TypeInv, recvVars
<1>3. CASE ~Connect /\ ~Cut
  BY <1>3, LinkFirst DEF NoLinkYet
<1> QED
  BY <1>1, <1>2, <1>3

(* The state of the client, its threads and its socket.                    *)
LEMMA StateStep ==
    ASSUME LanClientAssumption, TypeInv, Next
    PROVE  StateTypes'
<1>0. StateTypes /\ monitor \in Thread /\ Worker \cup Caller \subseteq Thread
  BY DEF TypeInv, Thread
<1>1. ASSUME NEW t \in Thread, NEW s, Then(t, s) PROVE DOMAIN thread' = Thread
  BY <1>0, <1>1 DEF Then, StateTypes
<1>2. ASSUME NEW t \in Thread, NEW s, Unref(t, s)
      PROVE  DOMAIN thread' = Thread /\ ioCount' \in Int /\ crash' \in BOOLEAN
  BY <1>0, <1>2 DEF Unref, StateTypes, Then
<1>3. ASSUME NEW t \in Thread, Step(t) PROVE StateTypes'
  <2>1. CASE \/ ReleaseSession(t) \/ FreeSendQueuePacket(t) \/ SwitchOff(t)
             \/ Enqueue(t) \/ Send_Post_Claim(t) \/ Send_Post_Take(t) \/ Send_Post_GiveUp(t) \/ Send_Complete(t)
    <3>1. DOMAIN thread' = Thread
      BY <1>1, <2>1 DEF ReleaseSession, FreeSendQueuePacket, SwitchOff, Enqueue, Send_Post_Claim,
                        Send_Post_Take, Send_Post_GiveUp, Send_Complete, Done
    <3> QED
      BY <1>0, <2>1, <3>1 DEF ReleaseSession, FreeSendQueuePacket, SwitchOff, Enqueue, Send_Post_Claim,
                        Send_Post_Take, Send_Post_GiveUp, Send_Complete, StateTypes, sockVars
  <2>2. CASE InitializeSession(t)
    BY <1>0, <1>1, <2>2 DEF InitializeSession, Done, StateTypes, sockVars
  <2>3. CASE SendPacket(t)
    BY <1>0, <2>3, <1>1 DEF SendPacket, StateTypes, Done, sockVars
  <2>4. CASE Send_Post_Ref(t)
    BY <1>0, <2>4, <1>1 DEF Send_Post_Ref, StateTypes, sockVars
  <2>5. CASE Send_Post(t)
    <3>1. DOMAIN thread' = Thread
      BY <1>1, <2>5 DEF Send_Post, Done
    <3>2. posted' = posted \/ posted' = [posted EXCEPT !["send"] = @ + 1]
      BY <2>5 DEF Send_Post
    <3>3. posted' \in [{"recv", "send"} -> Nat]
      BY <1>0, <3>2 DEF StateTypes
    <3> QED
      BY <1>0, <2>5, <3>1, <3>3 DEF Send_Post, StateTypes, sockVars
  <2>6. CASE Send_Post_Fail(t) \/ Recv_Post_Fail(t) \/ Update_WorkerThread_Dec(t)
    BY <1>2, <2>6, <1>0 DEF Send_Post_Fail, Recv_Post_Fail, Update_WorkerThread_Dec, StateTypes,
       sockVars
  <2>7. CASE Recv_Post(t)
    BY <1>0, <1>1, <2>7 DEF Recv_Post, StateTypes, sockVars
  <2>8. CASE WSARecv(t)
    BY <1>1, <2>8, <1>0 DEF WSARecv, Done, StateTypes, sockVars
  <2>9. CASE Recv_Complete(t)
    BY <2>9, <1>0, <1>1 DEF Recv_Complete, Done, StateTypes, sockVars
  <2> QED
    BY <1>3, <2>1, <2>2, <2>3, <2>4, <2>5, <2>6, <2>7, <2>8, <2>9 DEF Step
<1>4. CASE Connect
  <2>1. late' \in BOOLEAN
    BY <1>0, <1>4, Zenon DEF Connect, StateTypes
  <2>2. leftover' \in BOOLEAN
    BY <1>0, <1>4, Zenon DEF Connect, StateTypes
  <2>3. link' \in 0 .. MaxLink
    BY <1>0, <1>4 DEF Connect, StateTypes, LanClientAssumption
  <2> QED
    BY <1>0, <1>4, <2>1, <2>2, <2>3 DEF Connect, StateTypes
<1>5. CASE Connect_Connected \/ Connect_Failed \/ Connect_Enable \/ Connect_Bind
  BY <1>0, <1>1, <1>5 DEF Connect_Connected, Connect_Failed, Connect_Enable, Connect_Bind, Done,
     StateTypes, sockVars
<1>6. ASSUME NEW w \in Worker, Completing(w) PROVE StateTypes'
  <2>1. PICK kind \in {"recv", "send"} : posted[kind] > 0 /\ posted' = [posted EXCEPT ![kind] = @ - 1]
    BY <1>6 DEF Completing, Complete_Recv, Complete_Send, Complete_None, Complete
  <2>2. posted' \in [{"recv", "send"} -> Nat]
    BY <1>0, <2>1 DEF StateTypes
  <2>3. DOMAIN thread' = Thread
    BY <1>0, <1>6 DEF Completing, Complete_Recv, Complete_Send, Complete_None, StateTypes
  <2> QED
    BY <1>0, <1>6, <2>2, <2>3 DEF Completing, Complete_Recv, Complete_Send, Complete_None, StateTypes, sockVars
<1>7. ASSUME NEW c \in Caller, Call(c) PROVE StateTypes'
  BY <1>0, <1>7 DEF Call, StateTypes, sockVars
<1>8. CASE Cut
  BY <1>0, <1>8 DEF Cut, StateTypes
<1> QED
  BY <1>3, <1>4, <1>5, <1>6, <1>7, <1>8 DEF Next, Connecting

(* The types of what is sent.                                              *)
LEMMA FreeTypes ==
    ASSUME SendTypes, NEW S, S \subseteq Packet, Free(S) PROVE freed' \subseteq Packet /\ twice' \in BOOLEAN
  BY DEF Free, SendTypes

(* Freeing what was sent takes packets from the front. (FreeSentPacket)    *)
LEMMA FreeSentTypes ==
    ASSUME SendTypes, FreeSentPacket
    PROVE  /\ freed' \subseteq Packet /\ twice' \in BOOLEAN
           /\ sendPacketSize' \in Nat /\ sendPacketSize' <= Len(packetBuffer)
<1>0. packetBuffer \in Seq(Packet) /\ sendPacketSize \in Nat /\ Len(packetBuffer) \in Nat
      /\ sendPacketSize <= Len(packetBuffer)
  BY DEF SendTypes
<1>1. CASE bSend /\ sendPacketSize > 0
  BY <1>0, SetOfFirst, <1>1, FreeTypes DEF FreeSentPacket
<1>2. CASE ~(bSend /\ sendPacketSize > 0)
  BY <1>0, <1>2 DEF FreeSentPacket, SendTypes
<1> QED
  BY <1>1, <1>2

(* The queue goes over the beginning of packetBuffer.                      *)
LEMMA OverIs ==
    ASSUME NEW S, NEW u \in Seq(S), NEW v \in Seq(S)
    PROVE  /\ u \o SubSeq(v, Len(u) + 1, Len(v)) \in Seq(S)
           /\ Len(u) <= Len(u \o SubSeq(v, Len(u) + 1, Len(v)))
           /\ Len(v) <= Len(u \o SubSeq(v, Len(u) + 1, Len(v)))
  BY SubIs, JoinIs

(* What is sent keeps its type.                                            *)
LEMMA SendTypesStep ==
    ASSUME LanClientAssumption, TypeInv, Next
    PROVE  SendTypes'
<1>0. SendTypes /\ monitor \in Thread
  BY DEF TypeInv, Thread
<1>1. ASSUME UNCHANGED sendVars PROVE SendTypes'
  BY <1>0, <1>1 DEF SendTypes, sendVars, freeVars
<1>2. ASSUME NEW t \in Thread, Step(t) PROVE SendTypes'
  <2>1. CASE \/ ReleaseSession(t) \/ SwitchOff(t) \/ SendPacket(t) \/ Send_Post_Fail(t)
             \/ Recv_Post(t) \/ WSARecv(t) \/ Recv_Post_Fail(t) \/ Recv_Complete(t) \/ Update_WorkerThread_Dec(t)
    BY <1>1, <2>1 DEF ReleaseSession, SwitchOff, SendPacket, Send_Post_Fail, Recv_Post, WSARecv,
                      Recv_Post_Fail, Recv_Complete, Update_WorkerThread_Dec
  <2>2. CASE Send_Post_Claim(t) \/ Send_Post_GiveUp(t)
    BY <1>0, <2>2 DEF Send_Post_Claim, Send_Post_GiveUp, SendTypes, freeVars
  <2>3. CASE FreeSendQueuePacket(t)
    <3>1. sendq' = <<>> /\ UNCHANGED <<bSend, packetBuffer, sendPacketSize, mine, queued>> /\ Free(ToSet(sendq))
      BY <2>3 DEF FreeSendQueuePacket
    <3>2. ToSet(sendq) \subseteq Packet
      <4>1. sendq \in Seq(Packet)
        BY <1>0 DEF SendTypes
      <4>2. ToSet(sendq) = {sendq[i] : i \in 1 .. Len(sendq)}
        BY <4>1, SetOf
      <4> QED
        BY <4>1, <4>2
    <3>3. freed' \subseteq Packet /\ twice' \in BOOLEAN
      BY <1>0, <3>1, <3>2, FreeTypes
    <3> QED
      BY <1>0, <3>1, <3>3 DEF SendTypes
  <2>4. CASE InitializeSession(t) \/ Send_Complete(t)
    BY <2>4, <1>0, FreeSentTypes DEF InitializeSession, Send_Complete, SendTypes
  <2>5. CASE Enqueue(t)
    <3>1. queued' = queued + 1 /\ sendq' = Append(sendq, [no |-> queued + 1, link |-> link])
          /\ UNCHANGED <<bSend, packetBuffer, sendPacketSize, freed, twice, mine>>
      BY <2>5 DEF Enqueue, freeVars
    <3>2. link \in 1 .. MaxLink
      <4>1. ~Connect /\ ~Cut
        BY <1>0, <3>1 DEF Connect, Cut, sendVars, SendTypes
      <4> QED
        BY <4>1, LinkFirst
    <3>3. queued' \in Nat /\ [no |-> queued + 1, link |-> link] \in Packet
      BY <1>0, <3>1, <3>2 DEF SendTypes, Packet
    <3>4. sendq' \in Seq(Packet)
      BY <1>0, <3>1, <3>3 DEF SendTypes
    <3> QED
      BY <1>0, <3>1, <3>3, <3>4 DEF SendTypes
  <2>6. CASE Send_Post_Take(t)
    <3>1. UNCHANGED <<bSend, sendPacketSize, freed, twice, queued>>
      BY <2>6 DEF Send_Post_Take
    <3>2. CASE UNCHANGED <<sendq, packetBuffer, mine>>
      BY <1>0, <3>1, <3>2 DEF SendTypes
    <3>3. CASE /\ packetBuffer' = sendq \o SubSeq(packetBuffer, Len(sendq) + 1, Len(packetBuffer))
               /\ mine' = [mine EXCEPT ![t] = sendq] /\ sendq' = <<>>
      BY <1>0, <3>3, OverIs, <3>1 DEF SendTypes
    <3> QED
      BY <2>6, <3>2, <3>3 DEF Send_Post_Take
  <2>7. CASE Send_Post_Ref(t)
    BY <2>7, <1>0 DEF Send_Post_Ref, SendTypes
  <2>8. CASE Send_Post(t)
    BY <2>8, <1>0 DEF Send_Post, freeVars, SendTypes
  <2> QED
    BY <1>2, <2>1, <2>2, <2>3, <2>4, <2>5, <2>6, <2>7, <2>8 DEF Step
<1>3. CASE Connect
  BY <1>0, <1>3 DEF Connect, SendTypes, freeVars
<1>4. CASE Connect_Connected \/ Connect_Failed \/ Connect_Enable \/ Connect_Bind
  BY <1>1, <1>4 DEF Connect_Connected, Connect_Failed, Connect_Enable, Connect_Bind
<1>5. ASSUME NEW w \in Worker, Completing(w) PROVE SendTypes'
  BY <1>1, <1>5 DEF Completing, Complete_Recv, Complete_Send, Complete_None
<1>6. ASSUME NEW c \in Caller, Call(c) PROVE SendTypes'
  BY <1>1, <1>6 DEF Call
<1>7. CASE Cut
  BY <1>1, <1>7 DEF Cut
<1> QED
  BY <1>2, <1>3, <1>4, <1>5, <1>6, <1>7 DEF Next, Connecting

(* The types of what is received.                                          *)
LEMMA DequeueTypes ==
    ASSUME Sized, NEW ring \in Ring, NEW n \in Nat
    PROVE  Peek(ring, n) \in Seq(Byte) /\ Dequeue(ring, n) \in Ring
<1>1. /\ Peek(ring, n) \in Seq(Byte)
      /\ Len(Peek(ring, n)) = IF n < GetUsedSize(ring) THEN n ELSE GetUsedSize(ring)
  BY PeekIs
<1>2. GetUsedSize(ring) \in Nat
  BY Sizes
<1>3. PICK m : m = Len(Peek(ring, n)) /\ m \in 0 .. GetUsedSize(ring)
  BY <1>1, <1>2
<1>4. MoveFrontforDelete(ring, m) \in Ring
  BY <1>3, RemovesFirst
<1> QED
  BY <1>1, <1>3, <1>4 DEF Dequeue

(* What is received keeps its type.                                        *)
LEMMA ReceiveTypesStep ==
    ASSUME LanClientAssumption, TypeInv, Next
    PROVE  ReceiveTypes'
<1>0. /\ ReceiveTypes /\ Sized /\ recvq \in Ring /\ arrived \in Nat /\ received \in Seq(Seq(Byte))
      /\ HeaderSize \in Nat /\ GetUsedSize(recvq) \in Nat /\ MaxPayload \in Nat /\ Payload \in Seq(Nat)
  BY RingSized, Sizes DEF TypeInv, ReceiveTypes, LanClientAssumption
<1>1. ASSUME UNCHANGED recvVars PROVE ReceiveTypes'
  BY <1>0, <1>1 DEF ReceiveTypes, recvVars
<1>2. ASSUME NEW t \in Thread, Recv_Complete(t) PROVE ReceiveTypes'
  <2>1. arrived' = arrived
    BY <1>2 DEF Recv_Complete
  <2>2. CASE UNCHANGED <<recvq, received>>
    BY <1>0, <2>1, <2>2 DEF ReceiveTypes
  <2>3. CASE ~UNCHANGED <<recvq, received>>
    <3>1. PICK n \in PayloadAtFront :
            /\ received' = Append(received, Peek(MoveFrontforDelete(recvq, HeaderSize), n))
            /\ recvq' = Dequeue(MoveFrontforDelete(recvq, HeaderSize), n)
      BY <1>2, <2>3 DEF Recv_Complete
    <3>2. ~(Len(Peek(recvq, HeaderSize)) < HeaderSize)
      BY <1>2, <2>3 DEF Recv_Complete
    <3>3. n \in Nat
      <4>1. PICK front : front = Head(Peek(recvq, HeaderSize))
        OBVIOUS
      <4>2. n \in 0 .. MaxPayload + 1 \/ (front.no \in DOMAIN Payload /\ n = Payload[front.no])
        BY <3>1, <4>1 DEF PayloadAtFront
      <4> QED
        BY <1>0, <4>2
    <3>4. HeaderSize \in 0 .. GetUsedSize(recvq)
      BY <1>0, PeekIs, <3>2
    <3>5. PICK ring : ring = MoveFrontforDelete(recvq, HeaderSize)
      OBVIOUS
    <3>6. ring \in Ring
      BY <1>0, <3>4, <3>5, RemovesFirst
    <3>7. Peek(ring, n) \in Seq(Byte) /\ Dequeue(ring, n) \in Ring
      BY <1>0, <3>3, <3>6, DequeueTypes
    <3>8. received' \in Seq(Seq(Byte)) /\ recvq' \in Ring
      BY <3>1, <3>5, <3>7, <1>0
    <3> QED
      BY <1>0, <2>1, <3>8 DEF ReceiveTypes
  <2> QED
    BY <2>2, <2>3
<1>3. ASSUME NEW t \in Thread, Step(t), ~Recv_Complete(t) PROVE ReceiveTypes'
  BY <1>1, <1>3 DEF Step, ReleaseSession, FreeSendQueuePacket, InitializeSession, SwitchOff, SendPacket, Enqueue,
           Send_Post_Claim, Send_Post_Take, Send_Post_GiveUp, Send_Post_Ref, Send_Post, Send_Post_Fail,
           Send_Complete, Recv_Post, WSARecv, Recv_Post_Fail, Update_WorkerThread_Dec
<1>4. CASE Connect
  BY <1>4, <1>0 DEF Connect, ReceiveTypes
<1>5. CASE Connect_Connected \/ Connect_Failed \/ Connect_Enable \/ Connect_Bind
  BY <1>1, <1>5 DEF Connect_Connected, Connect_Failed, Connect_Enable, Connect_Bind
<1>6. ASSUME NEW w \in Worker, Complete_Recv(w) PROVE ReceiveTypes'
  <2>1. link \in 1 .. MaxLink
    <3>1. Connect \/ Cut => ~(posted'["recv"] /= posted["recv"])
      BY DEF Connect, Cut
    <3>2. posted'["recv"] /= posted["recv"]
      BY <1>6 DEF Complete_Recv, Complete, TypeInv, StateTypes
    <3> QED
      BY <3>1, <3>2, LinkFirst
  <2>2. PICK n \in 1 .. GetEmptySize(recvq) :
          /\ arrived + n <= Len(Stream(link))
          /\ recvq' = MoveRearforSave(Write(recvq, SubSeq(Stream(link), arrived + 1, arrived + n)), n)
          /\ arrived' = arrived + n
    BY <1>6 DEF Complete_Recv
  <2>3. received' = received
    BY <1>6 DEF Complete_Recv
  <2> QED
    BY <1>0, <2>1, <2>2, <2>3, BytesArrive
<1>7. ASSUME NEW w \in Worker, Complete_Send(w) \/ Complete_None(w) PROVE ReceiveTypes'
  BY <1>1, <1>7 DEF Complete_Send, Complete_None
<1>8. ASSUME NEW c \in Caller, Call(c) PROVE ReceiveTypes'
  BY <1>1, <1>8 DEF Call
<1>9. CASE Cut
  BY <1>1, <1>9 DEF Cut
<1> QED
  BY <1>2, <1>3, <1>4, <1>5, <1>6, <1>7, <1>8, <1>9 DEF Next, Connecting, Completing

(* Every variable keeps its type in a step.                                *)
LEMMA TypeStep == ASSUME LanClientAssumption, TypeInv, [Next]_vars PROVE TypeInv'
<1>1. CASE Next
  BY <1>1, StateStep, SendTypesStep, ReceiveTypesStep, NoLinkStep DEF TypeInv
<1>2. CASE UNCHANGED vars
  BY <1>2 DEF TypeInv, StateTypes, SendTypes, ReceiveTypes, NoLinkYet,
     vars, recvVars, sendVars, freeVars, sockVars
<1> QED
  BY <1>1, <1>2

(* Every variable has its type at the start.                               *)
LEMMA TypeInit == ASSUME LanClientAssumption, Init PROVE TypeInv
<1>1. StateTypes
  <2>1. posted \in [{"recv", "send"} -> Nat]
    BY DEF Init
  <2>2. DOMAIN thread = Thread
    BY DEF Init
  <2>3. link \in 0 .. MaxLink
    BY DEF Init, LanClientAssumption
  <2> QED
    <3>1. /\ clientOn = FALSE /\ disconnectNow = FALSE /\ ioCount = 0 /\ conn = "none" /\ bound = FALSE
          /\ crash = FALSE /\ late = FALSE /\ leftover = FALSE
      BY DEF Init
    <3>2. /\ clientOn \in BOOLEAN /\ disconnectNow \in BOOLEAN /\ bound \in BOOLEAN
          /\ crash \in BOOLEAN /\ late \in BOOLEAN /\ leftover \in BOOLEAN
      BY <3>1
    <3>3. ioCount \in Int /\ conn \in {"none", "new", "up", "cut", "closed"}
      BY <3>1
    <3> QED
      BY <2>1, <2>2, <2>3, <3>2, <3>3 DEF StateTypes
<1>2. SendTypes
  <2>1. /\ mine = [t \in Thread |-> <<>>] /\ packetBuffer = <<>> /\ sendq = <<>> /\ sendPacketSize = 0
        /\ bSend = FALSE /\ freed = {} /\ twice = FALSE /\ queued = 0
    BY DEF Init
  <2>2. <<>> \in Seq(Packet) /\ Len(<<>>) = 0
    OBVIOUS
  <2>3. mine \in [Thread -> Seq(Packet)] /\ \A t \in Thread : Len(mine[t]) <= Len(packetBuffer)
    BY <2>1, <2>2
  <2> QED
    <3>1. sendq \in Seq(Packet) /\ packetBuffer \in Seq(Packet) /\ sendPacketSize <= Len(packetBuffer)
      BY <2>1, <2>2
    <3>2. bSend \in BOOLEAN /\ twice \in BOOLEAN /\ freed \subseteq Packet /\ queued \in Nat /\ sendPacketSize \in Nat
      BY <2>1
    <3> QED
      BY <2>3, <3>1, <3>2 DEF SendTypes
<1>3. ReceiveTypes
  BY RingSized DEF Init, Byte, Sized, Place, Empty, Ring, ReceiveTypes
<1>4. NoLinkYet
  BY DEF Init, NoLinkYet
<1> QED
  BY <1>1, <1>2, <1>3, <1>4 DEF TypeInv

(* Every variable keeps its type, also when a SendPacket was overtaken.    *)
THEOREM TypeCorrect == Spec => []TypeOK
<1>1. Init => TypeInv
  BY TypeInit, LanClientAssumption
<1>2. TypeInv /\ [Next]_vars => TypeInv'
  BY TypeStep, LanClientAssumption
<1>3. TypeInv => TypeOK
  BY TypesAre
<1> QED
  BY <1>1, <1>2, <1>3, PTL DEF Spec

(* Unless a SendPacket was overtaken: one receiver, and the ring holds     *)
(* what comes after the packets given.                                     *)
ReceiveSafe == TypeInv /\ LanInv /\ (~late => ReceiverInv /\ StreamInv)

(* Nothing is received at the start.                                       *)
LEMMA ReceiveInit == ASSUME LanClientAssumption, Init PROVE ReceiveSafe
<1>1. \A t \in Thread : ~Rcv(thread[t])
  BY DEF Init, Rcv
<1>2. posted["recv"] = 0 /\ link = 0
  BY DEF Init
<1> QED
  BY <1>1, <1>2, TypeInit, LanInit DEF ReceiveSafe, ReceiverInv, StreamInv

(* However TCP cuts the stream and wherever the ring wraps, OnRecv gets    *)
(* the packets of the link, each once, whole and in order, and none is     *)
(* left in the ring when the next receive is posted, unless a SendPacket   *)
(* was overtaken or a link was cut within a packet. (recv_complete)        *)
THEOREM ReceivedInOrder == Spec => []ReceivedIsStream
<1>1. Init => ReceiveSafe
  BY ReceiveInit, LanClientAssumption
<1>2. ReceiveSafe /\ [Next]_vars => ReceiveSafe'
  <2> SUFFICES ASSUME ReceiveSafe, [Next]_vars PROVE ReceiveSafe'
    OBVIOUS
  <2>1. TypeInv'
    BY TypeStep, LanClientAssumption DEF ReceiveSafe
  <2>2. late' \in BOOLEAN /\ (late => late')
    BY LateStays DEF ReceiveSafe
  <2>3. ~late' => RefInv'
    BY <2>2, RefStep, LanClientAssumption DEF ReceiveSafe, LanInv
  <2>4. ReceiveTypes /\ (link > 0 => link \in 1 .. MaxLink) /\ (posted["recv"] > 0 => link > 0)
    BY DEF ReceiveSafe, TypeInv, StateTypes, NoLinkYet
  <2>5. ~late' => ReceiverInv' /\ StreamInv'
    BY <2>2, <2>3, <2>4, ReceiveStep, LanClientAssumption DEF ReceiveSafe, LanInv
  <2> QED
    BY <2>1, <2>2, <2>3, <2>5 DEF ReceiveSafe, LanInv
<1>3. ReceiveSafe => ReceivedIsStream
  BY TypesAre, StreamSafe, LanClientAssumption DEF ReceiveSafe, TypeInv, NoLinkYet,
     ReceivedIsStream
<1> QED
  BY <1>1, <1>2, <1>3, PTL DEF Spec

=============================================================================
