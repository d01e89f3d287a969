---------------------------- MODULE LockFreeQueue ----------------------------
(***************************************************************************)
(* The lock-free queue of src/Source/Library/cLockFreeQueue.h, through     *)
(* which the threads of every server hand each other messages, packets and *)
(* free sessions, with the pool its nodes come from (cMemoryPool.h).       *)
(*                                                                         *)
(* The nodes form a chain; head points at a dummy before the first value,  *)
(* tail at the last node or the one before it.  Head and tail carry an     *)
(* index that is compared with them; the pNext of a node, compared alone,  *)
(* carries none.  One action is one access to memory that is shared, with  *)
(* the private work around it.                                             *)
(***************************************************************************)
EXTENDS Integers, Sequences, FiniteSets, QueueState

nodeVars == <<next, data, pool, fresh>>
vars     == <<nodeVars, head, tail, enq, deq, seen>>

-----------------------------------------------------------------------------
null  == 0
Value == Producer \X (1 .. MaxPut)
Node  == 1 .. 1 + MaxPut

EnqStep == {"idle", "index", "node", "next", "link", "help", "swing"}
DeqStep == {"idle", "index", "node", "next", "tindex", "tnode", "check", "help",
            "data", "take", "free"}

(* The locals: pNewNode, tail, pTailNext; head, pNext, tail, data.         *)
Put0(n) == [step |-> "idle", n |-> n, new |-> null, index |-> 0, node |-> null,
            next |-> null]
Get0(v) == [step |-> "idle", index |-> 0, node |-> null, next |-> null,
            tindex |-> 0, tnode |-> null, value |-> v]

Init ==
    /\ next = [m \in Node |-> null]
    /\ data = [m \in Node |-> NoValue]
    /\ head = [index |-> 0, node |-> 1]
    /\ tail = [index |-> 0, node |-> 1]
    /\ pool = <<>>
    /\ fresh = 1
    /\ enq = [p \in Producer |-> Put0(0)]
    /\ deq = [c \in Consumer |-> Get0(NoValue)]
    /\ seen = [c \in Consumer |-> FALSE]

-----------------------------------------------------------------------------
(* The nodes from one on, as pNext leads, and the values in the queue.     *)

Chain(to, m) ==
    LET walk[k \in 0 .. MaxPut] ==
            IF k = 0 THEN m ELSE IF walk[k - 1] = null THEN null ELSE to[walk[k - 1]]
    IN  [k \in {j \in Node : walk[j - 1] # null} |-> walk[k - 1]]

Values(m) == LET chain == Chain(next, m) IN [k \in DOMAIN chain |-> data[chain[k]]]

(* The node at head is a dummy: its value was taken, or never was.         *)
Queued == Tail(Values(head.node))

(* Each call under way takes note when the queue is empty.                 *)
Sees == seen' = [c \in Consumer |-> /\ deq'[c].step # "idle"
                                    /\ (deq[c].step # "idle" /\ seen[c]) \/ Queued' = <<>>]

-----------------------------------------------------------------------------
(* InterlockedCompareExchange128 on head or tail: the node and the index   *)
(* must be as they were read.                                              *)
Same_NodeOnly(point, r) == point.node = r.node   \* Fault: no index

Same(point, r) == point.index = r.index /\ point.node = r.node

Swing(point, r, m) == IF Same(point, r) THEN [index |-> r.index + 1, node |-> m] ELSE point

At(p, step)   == enq[p].step = step
AtDeq(c, step) == deq[c].step = step

Calls == Cardinality({v \in Value : v[2] <= enq[v[1]].n})

(* Alloc: the node freed last, or a new one; then data and pNext are set.  *)
Enqueue(p) ==
    /\ At(p, "idle")
    /\ Calls < MaxPut
    /\ LET m == IF pool # <<>> THEN Head(pool) ELSE fresh + 1
       IN  /\ enq' = [enq EXCEPT ![p] = [Put0(@.n + 1) EXCEPT !.step = "index", !.new = m]]
           /\ next' = [next EXCEPT ![m] = null]
           /\ data' = [data EXCEPT ![m] = <<p, enq[p].n + 1>>]
    /\ IF pool # <<>> THEN pool' = Tail(pool) /\ UNCHANGED fresh
                      ELSE fresh' = fresh + 1 /\ UNCHANGED pool
    /\ UNCHANGED <<head, tail, deq>>

Enqueue_Index(p) ==
    /\ At(p, "index")
    /\ enq' = [enq EXCEPT ![p].step = "node", ![p].index = tail.index]
    /\ UNCHANGED <<nodeVars, head, tail, deq>>

Enqueue_Node(p) ==
    /\ At(p, "node")
    /\ enq' = [enq EXCEPT ![p].step = "next", ![p].node = tail.node]
    /\ UNCHANGED <<nodeVars, head, tail, deq>>

Enqueue_Next(p) ==
    /\ At(p, "next")
    /\ LET m == next[enq[p].node]
       IN  enq' = [enq EXCEPT ![p].step = IF m = null THEN "link" ELSE "help",
                              ![p].next = m]
    /\ UNCHANGED <<nodeVars, head, tail, deq>>

(* The new node is linked if the other still ends its chain.               *)
Enqueue_Link(p) ==
    /\ At(p, "link")
    /\ IF next[enq[p].node] = null
       THEN /\ next' = [next EXCEPT ![enq[p].node] = enq[p].new]
            /\ enq' = [enq EXCEPT ![p].step = "swing"]
       ELSE /\ enq' = [enq EXCEPT ![p].step = "index"]
            /\ UNCHANGED next
    /\ UNCHANGED <<data, pool, fresh, head, tail, deq>>

Enqueue_Swing(p) ==
    /\ At(p, "swing")
    /\ tail' = Swing(tail, enq[p], enq[p].new)
    /\ enq' = [enq EXCEPT ![p] = Put0(@.n)]
    /\ UNCHANGED <<nodeVars, head, deq>>

Enqueue_Help(p) ==
    /\ At(p, "help")
    /\ tail' = Swing(tail, enq[p], enq[p].next)
    /\ enq' = [enq EXCEPT ![p].step = "index"]
    /\ UNCHANGED <<nodeVars, head, deq>>

-----------------------------------------------------------------------------
Go(c, step) == deq' = [deq EXCEPT ![c].step = step]

Dequeue(c) ==
    /\ AtDeq(c, "idle")
    /\ deq' = [deq EXCEPT ![c] = [Get0(NoValue) EXCEPT !.step = "index"]]
    /\ UNCHANGED <<nodeVars, head, tail, enq>>

Dequeue_Head(c) ==
    /\ \/ /\ AtDeq(c, "index")
          /\ deq' = [deq EXCEPT ![c].step = "node", ![c].index = head.index]
       \/ /\ AtDeq(c, "node")
          /\ deq' = [deq EXCEPT ![c].step = "next", ![c].node = head.node]
    /\ UNCHANGED <<nodeVars, head, tail, enq>>

Dequeue_Next(c) ==
    /\ AtDeq(c, "next")
    /\ deq' = [deq EXCEPT ![c].step = "tindex", ![c].next = next[deq[c].node]]
    /\ UNCHANGED <<nodeVars, head, tail, enq>>

Dequeue_Tail(c) ==
    /\ \/ /\ AtDeq(c, "tindex")
          /\ deq' = [deq EXCEPT ![c].step = "tnode", ![c].tindex = tail.index]
       \/ /\ AtDeq(c, "tnode")
          /\ deq' = [deq EXCEPT ![c].step = "check", ![c].tnode = tail.node]
    /\ UNCHANGED <<nodeVars, head, tail, enq>>

(* Fault: no look at tail before head is moved.                            *)

Dequeue_Check_NoTail(c) ==
    /\ AtDeq(c, "check")
    /\ LET r == deq[c]
       IN  \/ head.index # r.index /\ Go(c, "index")
           \/ /\ head.index = r.index \/ Elided
              /\ IF r.next = null THEN deq' = [deq EXCEPT ![c] = Get0(NoValue)]
                                  ELSE Go(c, "data")
    /\ UNCHANGED <<nodeVars, head, tail, enq>>

(* Head has moved: start again.  Empty: return.  Tail is behind: help.     *)
Dequeue_Check(c) ==
    /\ AtDeq(c, "check")
    /\ LET r == deq[c]
       IN  \/ /\ head.index # r.index
              /\ Go(c, "index")
           \/ /\ head.index = r.index \/ Elided
              /\ IF r.tnode = r.node
                 THEN IF r.next = null THEN deq' = [deq EXCEPT ![c] = Get0(NoValue)]
                                       ELSE Go(c, "help")
                 ELSE Go(c, IF r.next = null THEN "index" ELSE "data")
    /\ UNCHANGED <<nodeVars, head, tail, enq>>

(* Fault: it is left to the Enqueue that linked the node to move tail.     *)
Dequeue_Help_Not(c) ==
    /\ AtDeq(c, "help")
    /\ Go(c, "index")
    /\ UNCHANGED <<nodeVars, head, tail, enq>>

Dequeue_Help(c) ==
    /\ AtDeq(c, "help")
    /\ tail' = Swing(tail, [index |-> deq[c].tindex, node |-> deq[c].tnode], deq[c].next)
    /\ Go(c, "index")
    /\ UNCHANGED <<nodeVars, head, enq>>

(* The value is read before the node can be freed by another.              *)
Dequeue_Data(c) ==
    /\ AtDeq(c, "data")
    /\ deq' = [deq EXCEPT ![c].step = "take", ![c].value = data[deq[c].next]]
    /\ UNCHANGED <<nodeVars, head, tail, enq>>

Dequeue_Take(c) ==
    /\ AtDeq(c, "take")
    /\ head' = Swing(head, deq[c], deq[c].next)
    /\ Go(c, IF Same(head, deq[c]) THEN "free" ELSE "index")
    /\ UNCHANGED <<nodeVars, tail, enq>>

(* Free: the old dummy is the first the pool gives out again.              *)
Dequeue_Free(c) ==
    /\ AtDeq(c, "free")
    /\ pool' = <<deq[c].node>> \o pool
    /\ deq' = [deq EXCEPT ![c] = Get0(@.value)]
    /\ UNCHANGED <<next, data, fresh, head, tail, enq>>

-----------------------------------------------------------------------------
EnqueueStep(p) == \/ Enqueue_Index(p)
                  \/ Enqueue_Node(p)
                  \/ Enqueue_Next(p)
                  \/ Enqueue_Link(p)
                  \/ Enqueue_Swing(p)
                  \/ Enqueue_Help(p)

DequeueStep(c) == \/ Dequeue_Head(c)
                  \/ Dequeue_Next(c)
                  \/ Dequeue_Tail(c)
                  \/ Dequeue_Check(c)
                  \/ Dequeue_Help(c)
                  \/ Dequeue_Data(c)
                  \/ Dequeue_Take(c)
                  \/ Dequeue_Free(c)

Next == /\ \/ \E p \in Producer : Enqueue(p) \/ EnqueueStep(p)
           \/ \E c \in Consumer : Dequeue(c) \/ DequeueStep(c)
        /\ Sees

Spec == Init /\ [][Next]_vars

(* A call goes on, nobody need start one.                                  *)
FairSpec == /\ Spec
            /\ \A p \in Producer : WF_vars(EnqueueStep(p) /\ Sees)
            /\ \A c \in Consumer : WF_vars(DequeueStep(c) /\ Sees)

-----------------------------------------------------------------------------
(* Every variable stays within its type.                                   *)
TypeOK ==
    /\ next \in [Node -> Node \cup {null}]
    /\ data \in [Node -> Value \cup {NoValue}]
    /\ head \in [index : Nat, node : Node]
    /\ tail \in [index : Nat, node : Node]
    /\ pool \in Seq(Node)
    /\ fresh \in Node
    /\ enq \in [Producer -> [step : EnqStep, n : 0 .. MaxPut, new : Node \cup {null},
                             index : Nat, node : Node \cup {null},
                             next : Node \cup {null}]]
    /\ deq \in [Consumer -> [step : DeqStep, index : Nat, node : Node \cup {null},
                             next : Node \cup {null}, tindex : Nat,
                             tnode : Node \cup {null}, value : Value \cup {NoValue}]]
    /\ seen \in [Consumer -> BOOLEAN]

-----------------------------------------------------------------------------
(* The queue implements FifoQueue.  A value is in the queue when its node  *)
(* can be reached from head; it is carried by a producer when it can be    *)
(* reached from a node that this producer has not linked yet.              *)

Linked(p) == At(p, "swing")

Carried(p) == IF At(p, "idle") \/ Linked(p) THEN <<>> ELSE Tail(Values(enq[p].new))

PutPhase(p) == IF At(p, "idle") THEN "idle" ELSE IF Linked(p) THEN "done" ELSE "called"
GetPhase(c) == IF AtDeq(c, "idle") THEN "idle" ELSE IF AtDeq(c, "free") THEN "done" ELSE "called"
Answer(c)  == IF AtDeq(c, "idle") \/ AtDeq(c, "free") THEN deq[c].value ELSE NoValue

Fifo == INSTANCE FifoQueue WITH
    queue   <- Queued,
    put     <- [p \in Producer |-> [step |-> PutPhase(p), n |-> enq[p].n]],
    carried <- [p \in Producer |-> Carried(p)],
    get     <- [c \in Consumer |-> [step |-> GetPhase(c), value |-> Answer(c)]],
    seen    <- seen

(* A node is in the queue, in the pool, or with the one thread that is     *)
(* about to link or free it: never in two of them, and none is lost.  Tail *)
(* is never behind head: a Dequeue never takes what tail still points at,  *)
(* or a producer would link its value behind a freed node.                 *)
CopiesOf(m) ==
    Cardinality({k \in DOMAIN Chain(next, head.node) : Chain(next, head.node)[k] = m})
  + Cardinality({k \in DOMAIN pool : pool[k] = m})
  + Cardinality({p \in Producer : ~Linked(p) /\ ~At(p, "idle") /\
                   \E k \in DOMAIN Chain(next, enq[p].new) : Chain(next, enq[p].new)[k] = m})
  + Cardinality({c \in Consumer : AtDeq(c, "free") /\ deq[c].node = m})

NodesInOnePlace ==
    /\ \A m \in 1 .. fresh : CopiesOf(m) = 1
    /\ \E k \in DOMAIN Chain(next, head.node) : Chain(next, head.node)[k] = tail.node

(* Every call returns: those that fail at a compare-exchange go on to see  *)
(* what the others did.                                                    *)
CallsReturn == /\ \A p \in Producer : ~At(p, "idle") ~> At(p, "idle")
               /\ \A c \in Consumer : ~AtDeq(c, "idle") ~> AtDeq(c, "idle")

=============================================================================
