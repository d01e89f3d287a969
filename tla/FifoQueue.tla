------------------------------ MODULE FifoQueue ------------------------------
(***************************************************************************)
(* What the lock-free queue (src/Source/Library/cLockFreeQueue.h) promises *)
(* the threads that share it.  A call takes effect at one moment between   *)
(* its start and its return, in the order of a queue; a Dequeue answers    *)
(* "empty" only if the queue was empty at some moment of the call.         *)
(*                                                                         *)
(* One weakness is part of the promise: an Enqueue may return while its    *)
(* value still waits behind the value of another Enqueue that has begun,   *)
(* and enter the queue together with it (CarriedBy).                       *)
(***************************************************************************)
EXTENDS Integers, Sequences

CONSTANTS Producer, Consumer, NoValue

VARIABLES queue,    \* the values in the queue
          put,      \* the calls of each producer: how many, and how far the last is
          carried,  \* the values that wait behind the one of a producer
          get,      \* the call of each consumer: how far, and what it answered
          seen      \* was the queue empty at some time of the call

fifoVars == <<queue, put, carried, get, seen>>

(* The value of the present call of p.                                     *)
ValueOf(p) == <<p, put[p].n>>

FifoInit ==
    /\ queue = <<>>
    /\ put = [p \in Producer |-> [step |-> "idle", n |-> 0]]
    /\ carried = [p \in Producer |-> <<>>]
    /\ get = [c \in Consumer |-> [step |-> "idle", value |-> NoValue]]
    /\ seen = [c \in Consumer |-> FALSE]

PutStep(p, from, to) == put[p].step = from /\ put' = [put EXCEPT ![p].step = to]

PutCall(p) ==
    /\ put[p].step = "idle"
    /\ put' = [put EXCEPT ![p] = [step |-> "called", n |-> @.n + 1]]
    /\ UNCHANGED <<queue, carried, get>>

Put(p) ==
    /\ PutStep(p, "called", "done")
    /\ queue' = queue \o <<ValueOf(p)>> \o carried[p]
    /\ carried' = [carried EXCEPT ![p] = <<>>]
    /\ UNCHANGED get

CarriedBy(p, q) ==
    /\ p # q
    /\ put[q].step = "called"
    /\ PutStep(p, "called", "done")
    /\ carried' = [carried EXCEPT ![q] = @ \o <<ValueOf(p)>> \o carried[p],
                                  ![p] = <<>>]
    /\ UNCHANGED <<queue, get>>

PutReturn(p) ==
    /\ PutStep(p, "done", "idle")
    /\ UNCHANGED <<queue, carried, get>>

GetCall(c) ==
    /\ get[c].step = "idle"
    /\ get' = [get EXCEPT ![c] = [step |-> "called", value |-> NoValue]]
    /\ UNCHANGED <<queue, put, carried>>

Get(c) ==
    /\ get[c].step = "called"
    /\ queue # <<>>
    /\ queue' = Tail(queue)
    /\ get' = [get EXCEPT ![c] = [step |-> "done", value |-> Head(queue)]]
    /\ UNCHANGED <<put, carried>>

GetReturn(c) ==
    /\ \/ get[c].step = "done"
       \/ get[c].step = "called" /\ seen[c]
    /\ get' = [get EXCEPT ![c].step = "idle"]
    /\ UNCHANGED <<queue, put, carried>>

(* Every call under way sees the queue when it is empty.                   *)
Sees == seen' = [c \in Consumer |-> /\ get'[c].step # "idle"
                                    /\ (get[c].step # "idle" /\ seen[c]) \/ queue' = <<>>]

FifoNext ==
    /\ \/ \E p \in Producer : \/ PutCall(p) \/ Put(p) \/ PutReturn(p)
                              \/ \E q \in Producer : CarriedBy(p, q)
       \/ \E c \in Consumer : GetCall(c) \/ Get(c) \/ GetReturn(c)
    /\ Sees

FifoSpec == FifoInit /\ [][FifoNext]_fifoVars

=============================================================================
