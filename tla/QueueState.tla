----------------------------- MODULE QueueState -----------------------------
(***************************************************************************)
(* The state of one lock-free queue (src/Source/Library/cLockFreeQueue.h), *)
(* who uses it, and how much of it one instance of the model explores.     *)
(***************************************************************************)
EXTENDS Integers, FiniteSets

CONSTANTS
    Producer,   \* the threads that call Enqueue
    Consumer,   \* the threads that call Dequeue
    MaxPut,     \* bound on the calls of Enqueue
    NoValue,
    Elided      \* may the build drop the second read of the index of head

ASSUME LockFreeQueueAssumption ==
    /\ IsFiniteSet(Producer)
    /\ IsFiniteSet(Consumer)
    /\ MaxPut \in Nat
    /\ NoValue \notin Producer \X (1 .. MaxPut)
    /\ Elided \in BOOLEAN

VARIABLES
    next,   \* pNext of each node
    data,   \* data of each node
    head,   \* _pHead: a node and its index
    tail,   \* _pTail
    pool,   \* the nodes the pool holds, last freed first
    fresh,  \* how many nodes were ever made
    enq,    \* the call of each producer: where it stands, and its locals
    deq,    \* the call of each consumer
    seen    \* history: was the queue empty at some time of the call

=============================================================================
