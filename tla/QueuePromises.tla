---------------------------- MODULE QueuePromises ----------------------------
(* What the users of a lock-free queue rely on.                            *)
EXTENDS QueueState

LF == INSTANCE LockFreeQueue

(* A node is linked, free or in the hands of one call, never two of them,  *)
(* though nodes are freed and used again. (Enqueue, Dequeue, the pool's    *)
(* Alloc and Free)                                                         *)
NodesSound == LF!TypeOK /\ LF!NodesInOnePlace

(* The values leave the queue in the order they entered it, each once, and *)
(* none is lost, whichever threads are held up between any two accesses,   *)
(* though nodes are used again while others still point at them; and a     *)
(* Dequeue answers "empty" only if the queue was. (Enqueue, Dequeue)       *)
ImplementsFifo == LF!Fifo!FifoSpec
=============================================================================
