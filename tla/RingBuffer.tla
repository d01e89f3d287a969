----------------------------- MODULE RingBuffer -----------------------------
(***************************************************************************)
(* cRingBuffer (src/Source/Library/cRingBuffer.cpp): every connection      *)
(* receives into one.  _iFront is the place before the first byte that is  *)
(* used, _iRear that of the last; one place is kept empty, so that equal   *)
(* means empty.  Readers and writers outside take the bytes in two pieces, *)
(* up to the end of the buffer and from its start.                         *)
(***************************************************************************)
EXTENDS Integers, Sequences

CONSTANTS
    BufferSize,  \* _iBufferSize, 2 or more
    Byte         \* what a place may hold

Place == 0 .. BufferSize - 1
Ring  == [buf : [Place -> Byte], front : Place, rear : Place]

GetUsedSize(ring) ==
    LET interval == ring.rear - ring.front
    IN  IF interval >= 0 THEN interval ELSE BufferSize + interval

GetEmptySize(ring) ==
    LET interval == ring.front - ring.rear
    IN  IF interval > 0 THEN interval - 1 ELSE BufferSize + interval - 1

(* How many bytes can be read or written before the end of the buffer.     *)
GetConstantReadSize(ring) ==
    LET interval == ring.rear - ring.front
    IN  IF interval >= 0 THEN interval
        ELSE IF ring.front /= BufferSize - 1 THEN BufferSize - ring.front - 1
        ELSE ring.rear + 1

GetConstantWriteSize_ToEnd(ring) ==
    IF ring.front > ring.rear THEN ring.front - ring.rear - 1 ELSE BufferSize - ring.rear
GetConstantWriteSize(ring) ==
    LET interval == ring.front - ring.rear
    IN  IF interval > 0 THEN interval - 1
        ELSE IF ring.rear /= BufferSize - 1 THEN BufferSize - ring.rear - 1
        ELSE ring.front

GetReadptr(ring)  == (ring.front + 1) % BufferSize
GetWriteptr(ring) == (ring.rear + 1) % BufferSize

(* Where the i-th byte to be read or written is: in the first piece, which *)
(* begins at the pointer, or in the second, at the start of the buffer.    *)
ReadPlace(ring, i) ==
    IF i <= GetConstantReadSize(ring) THEN GetReadptr(ring) + i - 1
                                      ELSE i - GetConstantReadSize(ring) - 1
WritePlace(ring, i) ==
    IF i <= GetConstantWriteSize(ring) THEN GetWriteptr(ring) + i - 1
                                       ELSE i - GetConstantWriteSize(ring) - 1

Peek(ring, n) ==
    [i \in 1 .. IF n < GetUsedSize(ring) THEN n ELSE GetUsedSize(ring) |->
        ring.buf[ReadPlace(ring, i)]]

MoveFrontforDelete(ring, n) == [ring EXCEPT !.front = (@ + n) % BufferSize]
Dequeue(ring, n) == MoveFrontforDelete(ring, Len(Peek(ring, n)))
MoveRearforSave(ring, n)    == [ring EXCEPT !.rear = (@ + n) % BufferSize]

(* What Enqueue does with bytes that fit, and WSARecv through the two      *)
(* pieces of recv_post, before MoveRearforSave.                            *)
Write(ring, bytes) ==
    [ring EXCEPT !.buf = [p \in Place |->
        IF \E i \in DOMAIN bytes : WritePlace(ring, i) = p
        THEN bytes[CHOOSE i \in DOMAIN bytes : WritePlace(ring, i) = p]
        ELSE @[p]]]

Empty(byte) == [buf |-> [p \in Place |-> byte], front |-> 0, rear |-> 0]

=============================================================================
