-------------------------- MODULE MMOSessionProofs --------------------------
(* Proofs about MMOSession, for any number of sessions, workers, callers    *)
(* and clients, and however the visits of the threads overlap; but that     *)
(* a session passes clean to its next client holds when they do not.        *)
EXTENDS MMOSession, Queues, FiniteSetTheorems, TLAPS

-----------------------------------------------------------------------------
(* Queues, and the sizes of sets.                                          *)

(* The tail of a queue is the queue without its first element.             *)
LEMMA TailElements ==
    ASSUME NEW S, NEW s \in Seq(S), s # <<>>
    PROVE  /\ Head(s) \in S /\ Tail(s) \in Seq(S)
           /\ 1 \in DOMAIN s /\ Head(s) = s[1]
           /\ \A i \in DOMAIN Tail(s) : i + 1 \in DOMAIN s /\ Tail(s)[i] = s[i + 1]
           /\ \A i \in DOMAIN s : i # 1 => i - 1 \in DOMAIN Tail(s) /\ Tail(s)[i - 1] = s[i]
  OBVIOUS

(* Append is a join with a queue of one.                                   *)
LEMMA AppendIsJoin ==
    ASSUME NEW S, NEW s \in Seq(S), NEW x \in S
    PROVE  /\ Append(s, x) = s \o <<x>>
           /\ Append(s, x) \in Seq(S) /\ <<x>> \in Seq(S)
  OBVIOUS

(* Two sets that agree on all but one element.                             *)
LEMMA CountStep ==
    ASSUME NEW A, NEW B, NEW x, IsFiniteSet(A), A \ {x} = B \ {x}
    PROVE  /\ IsFiniteSet(B)
           /\ Cardinality(A) \in Nat /\ Cardinality(B) \in Nat
           /\ Cardinality(B) = Cardinality(A) + One(x \in B) - One(x \in A)
           /\ Cardinality(A) >= One(x \in A)
<1> DEFINE C == A \ {x}
<1>1. IsFiniteSet(C) /\ Cardinality(C) = Cardinality(A) - One(x \in A)
  BY FS_RemoveElement, FS_CardinalityType DEF One
<1>2. x \notin C
  OBVIOUS
<1>3. B = C \/ B = C \cup {x}
  OBVIOUS
<1>4. B = C <=> x \notin B
  OBVIOUS
<1> HIDE DEF C
<1>5. IsFiniteSet(C \cup {x}) /\ Cardinality(C \cup {x}) = Cardinality(C) + 1
  BY <1>1, <1>2, FS_AddElement
<1>6. Cardinality(A) \in Nat /\ Cardinality(C) \in Nat
  BY <1>1, FS_CardinalityType
<1>7. CASE x \in B
  <2>1. B = C \cup {x}
    BY <1>3, <1>4, <1>7
  <2> QED
    BY <1>1, <1>5, <1>6, <1>7, <2>1 DEF One
<1>8. CASE x \notin B
  BY <1>4, <1>8, <1>1, <1>6 DEF One
<1> QED
  BY <1>7, <1>8

(* The places of x in a queue are finitely many.                           *)
LEMMA PlacesFinite ==
    ASSUME NEW S, NEW q \in Seq(S), NEW x
    PROVE  IsFiniteSet(PlacesOf(q, x)) /\ Cardinality(PlacesOf(q, x)) \in Nat
<1>1. IsFiniteSet(1 .. Len(q))
  BY FS_Interval
<1>2. PlacesOf(q, x) \in SUBSET (1 .. Len(q))
  BY DEF PlacesOf
<1> QED
  BY <1>1, <1>2, FS_Subset, FS_CardinalityType

LEMMA PlacesAppend ==
    ASSUME NEW S, NEW q \in Seq(S), NEW y \in S, NEW x
    PROVE  Cardinality(PlacesOf(Append(q, y), x)) = Cardinality(PlacesOf(q, x)) + One(x = y)
<1>1. PlacesOf(q, x) \ {Len(q) + 1} = PlacesOf(Append(q, y), x) \ {Len(q) + 1}
  BY DEF PlacesOf
<1>2. Len(q) + 1 \notin PlacesOf(q, x)
  BY DEF PlacesOf
<1>3. Len(q) + 1 \in PlacesOf(Append(q, y), x) <=> x = y
  BY DEF PlacesOf
<1> HIDE DEF PlacesOf
<1>4. IsFiniteSet(PlacesOf(q, x))
  BY PlacesFinite
<1>5. /\ Cardinality(PlacesOf(q, x)) \in Nat
      /\ Cardinality(PlacesOf(Append(q, y), x))
           = Cardinality(PlacesOf(q, x)) + One(Len(q) + 1 \in PlacesOf(Append(q, y), x))
                                         - One(Len(q) + 1 \in PlacesOf(q, x))
  BY <1>1, <1>4, CountStep
<1> QED
  BY <1>2, <1>3, <1>5 DEF One

LEMMA PlacesTail ==
    ASSUME NEW S, NEW q \in Seq(S), q # <<>>, NEW x
    PROVE  Cardinality(PlacesOf(Tail(q), x)) = Cardinality(PlacesOf(q, x)) - One(x = Head(q))
<1> DEFINE f == [n \in PlacesOf(Tail(q), x) |-> n + 1]
           R == PlacesOf(q, x) \ {1}
<1>1. f \in Bijection(PlacesOf(Tail(q), x), R)
  <2>1. \A n \in PlacesOf(Tail(q), x) : n \in Nat /\ n >= 1 /\ n + 1 \in R
    BY TailElements DEF PlacesOf
  <2>2. \A m \in R : m \in Nat /\ m - 1 \in PlacesOf(Tail(q), x)
    BY TailElements DEF PlacesOf
  <2> HIDE DEF R
  <2>3. f \in [PlacesOf(Tail(q), x) -> R]
    BY <2>1
  <2>4. \A a, b \in PlacesOf(Tail(q), x) : f[a] = f[b] => a = b
    BY <2>1
  <2>5. \A m \in R : \E n \in PlacesOf(Tail(q), x) : f[n] = m
    BY <2>2
  <2> QED
    BY <2>3, <2>4, <2>5 DEF Bijection, Injection, Surjection, IsInjective
<1>2. ExistsBijection(PlacesOf(Tail(q), x), R)
  BY <1>1 DEF ExistsBijection
<1>3. IsFiniteSet(PlacesOf(Tail(q), x)) /\ IsFiniteSet(PlacesOf(q, x))
  BY PlacesFinite, TailElements
<1>4. Cardinality(R) = Cardinality(PlacesOf(Tail(q), x))
  BY <1>2, <1>3, FS_Bijection
<1>5. Cardinality(R) = Cardinality(PlacesOf(q, x)) - One(1 \in PlacesOf(q, x))
  BY <1>3, FS_CardinalityType, FS_RemoveElement DEF One
<1>6. 1 \in PlacesOf(q, x) <=> x = Head(q)
  BY TailElements DEF PlacesOf
<1> QED
  BY <1>4, <1>5, <1>6 DEF One

-----------------------------------------------------------------------------
(* What CountsSound and SessionInOnePlace rest on, besides TypeOK and       *)
(* IoCountExact.                                                            *)

(* A session is in one place, or in none once its accept is given up.       *)
PlacesOK ==
    /\ \A s \in Session : Places(s) <= 1
    /\ SessionInOnePlace

(* A session in use serves a client, and has not been released.             *)
ModeOK ==
    \A s \in Session :
      session[s].mode # "NONE" => session[s].clientID # 0 /\ ~session[s].bDisconnect

(* What the threads that visit a session know of it: the Game thread of one *)
(* it releases, a caller of whom its packet is meant for.                   *)
TaskOK ==
    \A t \in Thread :
      /\ task[t].step \in {"ioCount", "ReleaseSession"} =>
           /\ t = "game"
           /\ task[t].session \in Session
           /\ session[task[t].session].mode = "WAIT_LOGOUT"
      /\ task[t].step = "ReleaseSession" => Entering(task[t].session) = {}
      /\ task[t].step \in {"SendPacket", "enqueue"} => task[t].packet # 0

(* One worker at most lets a client in, into a session that is in use.      *)
EnterOK ==
    \A s \in Session :
      /\ \A v, w \in Entering(s) : v = w
      /\ Entering(s) # {} => session[s].mode # "NONE"

(* The next clientID is free for every client that is joining.              *)
ClientsOK == curID + Cardinality(Joining) <= MaxClient

(* Until the workers are gone the accepts that may come back are counted.   *)
PostedOK ==
    /\ main \in {"run", "off", "shut", "worker"} =>
         curPosted >= fails + Cardinality(Unposted) + Cardinality(Accepting)
    /\ main \notin {"run", "off", "shut", "worker"} =>
         \A w \in Worker : worker[w].step = "exit"

SessionInv == /\ TypeOK
              /\ IoCountExact
              /\ CountersExact
              /\ PlacesOK
              /\ ModeOK
              /\ TaskOK
              /\ EnterOK
              /\ ClientsOK
              /\ PostedOK

-----------------------------------------------------------------------------
(* The operators on a session record.                                       *)

(* An update that leaves the client, the mode and the references alone.     *)
SameUse(r, q) == /\ q.mode = r.mode /\ q.clientID = r.clientID
                 /\ q.bDisconnect = r.bDisconnect

LEMMA CountUse ==
    ASSUME NEW r \in SessionRec, NEW d \in Int
    PROVE  /\ Count(r, d) \in SessionRec
           /\ SameUse(r, Count(r, d))
           /\ Count(r, d).ioCount = r.ioCount + d
  BY DEF SessionRec, Count, SameUse

LEMMA FreeUse ==
    ASSUME NEW r \in SessionRec
    PROVE  /\ FreeSentPacket(r) \in SessionRec
           /\ SameUse(r, FreeSentPacket(r))
           /\ FreeSentPacket(r).ioCount = r.ioCount
<1> DEFINE q == [r EXCEPT !.sendPacketSize = 0, !.packetBuffer = <<>>]
<1>1. <<>> \in Seq(Client)
  OBVIOUS
<1>2. q \in SessionRec
  BY <1>1 DEF SessionRec
<1>3. q.mode = r.mode /\ q.clientID = r.clientID /\ q.bDisconnect = r.bDisconnect
      /\ q.ioCount = r.ioCount
  BY DEF SessionRec
<1> QED
  BY <1>2, <1>3 DEF FreeSentPacket, SameUse

LEMMA InitBufferUse ==
    ASSUME NEW r \in SessionRec
    PROVE  /\ InitBuffer(r) \in SessionRec
           /\ SameUse(r, InitBuffer(r))
           /\ InitBuffer(r).ioCount = r.ioCount
<1> DEFINE q == FreeSentPacket(r)
<1>1. q \in SessionRec /\ SameUse(r, q) /\ q.ioCount = r.ioCount
  BY FreeUse
<1> HIDE DEF q
<1> DEFINE p == [q EXCEPT !.sendq = <<>>]
<1>2. <<>> \in Seq(Client)
  OBVIOUS
<1>3. p \in SessionRec
  BY <1>1, <1>2 DEF SessionRec
<1>4. p.mode = q.mode /\ p.clientID = q.clientID /\ p.bDisconnect = q.bDisconnect
      /\ p.ioCount = q.ioCount
  BY <1>1 DEF SessionRec
<1> QED
  BY <1>1, <1>3, <1>4 DEF InitBuffer, SameUse, q

LEMMA JoinedUse ==
    ASSUME NEW r \in SessionRec, NEW id \in Client
    PROVE  /\ Joined(r, id) \in SessionRec
           /\ Joined(r, id).mode = "AUTH" /\ Joined(r, id).clientID = id
           /\ ~Joined(r, id).bDisconnect
           /\ Joined(r, id).ioCount = r.ioCount
<1> DEFINE q == InitBuffer(r)
<1>1. q \in SessionRec /\ q.ioCount = r.ioCount
  BY InitBufferUse
<1> HIDE DEF q
<1> DEFINE j == [q EXCEPT !.clientID = id, !.sendIO = 0, !.mode = "AUTH",
                    !.bAuthToGameFlag = FALSE, !.bLogoutFlag = FALSE,
                    !.bShutdown = FALSE, !.bDisconnect = FALSE]
<1>2. /\ j \in SessionRec /\ j.mode = "AUTH" /\ j.clientID = id
      /\ ~j.bDisconnect /\ j.ioCount = r.ioCount
  BY <1>1 DEF SessionRec, Mode
<1> QED
  BY <1>2 DEF Joined, q

LEMMA ReleasedUse ==
    ASSUME NEW r \in SessionRec
    PROVE  LET q == [InitSession(r) EXCEPT !.bDisconnect = TRUE]
           IN  q \in SessionRec /\ q.mode = "NONE" /\ q.ioCount = r.ioCount
<1> DEFINE q == InitBuffer(r)
<1>1. q \in SessionRec /\ q.ioCount = r.ioCount
  BY InitBufferUse
<1> HIDE DEF q
<1> DEFINE j == [[q EXCEPT !.mode = "NONE", !.clientID = 0] EXCEPT !.bDisconnect = TRUE]
<1>2. j \in SessionRec /\ j.mode = "NONE" /\ j.ioCount = r.ioCount
  BY <1>1 DEF SessionRec, Mode
<1> QED
  BY <1>2 DEF InitSession, q

-----------------------------------------------------------------------------
(* Who holds and who joins, when one thread takes a step.                   *)

LEMMA FiniteSets == IsFiniteSet(Session) /\ IsFiniteSet(Worker) /\ IsFiniteSet(Thread)
<1>1. IsFiniteSet(Caller \cup {"auth"})
  BY MMOSessionAssumption, FS_AddElement
<1>2. IsFiniteSet((Caller \cup {"auth"}) \cup {"game"})
  BY <1>1, FS_AddElement
<1>3. Thread = (Caller \cup {"auth"}) \cup {"game"}
  BY DEF Thread
<1> QED
  BY <1>2, <1>3, MMOSessionAssumption

HoldsAs(r, s) == r.session = s /\ r.step \in {"handle", "port", "posted", "user", "release"}
JoinsAs(r)    == r.step = "handle" /\ r.outcome = "accepted"
UnpostedAs(r) == JoinsAs(r) \/ r.step \in {"port", "posted"}
EntersAs(r, s) == r.session = s /\ r.step \in {"port", "posted", "user"}
CallsAs(r, s) == r.session = s /\ r.step \in {"enqueue", "shut", "unref"}

LEMMA HoldersFinite ==
    ASSUME NEW s
    PROVE  /\ IsFiniteSet(HoldingWorkers(s)) /\ Cardinality(HoldingWorkers(s)) \in Nat
           /\ IsFiniteSet(HoldingTasks(s)) /\ Cardinality(HoldingTasks(s)) \in Nat
           /\ IsFiniteSet(Joining) /\ Cardinality(Joining) \in Nat
           /\ IsFiniteSet(JoiningAt(s)) /\ Cardinality(JoiningAt(s)) \in Nat
           /\ IsFiniteSet(Unposted) /\ Cardinality(Unposted) \in Nat
<1>1. /\ HoldingWorkers(s) \subseteq Worker /\ HoldingTasks(s) \subseteq Thread
      /\ Joining \subseteq Worker /\ JoiningAt(s) \subseteq Worker /\ Unposted \subseteq Worker
  BY DEF HoldingWorkers, HoldingTasks, Joining, JoiningAt, Unposted
<1> QED
  BY <1>1, FiniteSets, FS_Subset, FS_CardinalityType

LEMMA WorkerCounts ==
    ASSUME TypeOK, NEW w \in Worker, NEW r, worker' = [worker EXCEPT ![w] = r], NEW s
    PROVE  /\ Cardinality(HoldingWorkers(s))'
                = Cardinality(HoldingWorkers(s)) + One(HoldsAs(r, s)) - One(HoldsAs(worker[w], s))
           /\ Cardinality(HoldingWorkers(s)) >= One(HoldsAs(worker[w], s))
           /\ Cardinality(Joining)'
                = Cardinality(Joining) + One(JoinsAs(r)) - One(JoinsAs(worker[w]))
           /\ Cardinality(JoiningAt(s))'
                = Cardinality(JoiningAt(s)) + One(JoinsAs(r) /\ r.session = s)
                  - One(JoinsAs(worker[w]) /\ worker[w].session = s)
           /\ Cardinality(Joining) >= One(JoinsAs(worker[w]))
           /\ Cardinality(JoiningAt(s)) >= One(JoinsAs(worker[w]) /\ worker[w].session = s)
           /\ Cardinality(Unposted)'
                = Cardinality(Unposted) + One(UnpostedAs(r)) - One(UnpostedAs(worker[w]))
           /\ Cardinality(Unposted) >= One(UnpostedAs(worker[w]))
<1>1. /\ worker'[w] = r
      /\ \A x \in Worker \ {w} : worker'[x] = worker[x]
  BY DEF TypeOK
<1>2. /\ HoldingWorkers(s) \ {w} = HoldingWorkers(s)' \ {w}
      /\ w \in HoldingWorkers(s)' <=> HoldsAs(r, s)
      /\ w \in HoldingWorkers(s) <=> HoldsAs(worker[w], s)
  BY <1>1 DEF HoldingWorkers, HoldsAs
<1>3. /\ Joining \ {w} = Joining' \ {w}
      /\ w \in Joining' <=> JoinsAs(r)
      /\ w \in Joining <=> JoinsAs(worker[w])
  BY <1>1 DEF Joining, JoinsAs
<1>4. /\ JoiningAt(s) \ {w} = JoiningAt(s)' \ {w}
      /\ w \in JoiningAt(s)' <=> JoinsAs(r) /\ r.session = s
      /\ w \in JoiningAt(s) <=> JoinsAs(worker[w]) /\ worker[w].session = s
  BY <1>1, <1>3 DEF JoiningAt
<1>5. Cardinality(HoldingWorkers(s)') = Cardinality(HoldingWorkers(s))
         + One(w \in HoldingWorkers(s)') - One(w \in HoldingWorkers(s))
      /\ Cardinality(HoldingWorkers(s)) >= One(w \in HoldingWorkers(s))
  BY <1>2, HoldersFinite, CountStep
<1>6. Cardinality(Joining') = Cardinality(Joining) + One(w \in Joining') - One(w \in Joining)
      /\ Cardinality(Joining) >= One(w \in Joining)
  BY <1>3, HoldersFinite, CountStep
<1>7. Cardinality(JoiningAt(s)') = Cardinality(JoiningAt(s))
         + One(w \in JoiningAt(s)') - One(w \in JoiningAt(s))
      /\ Cardinality(JoiningAt(s)) >= One(w \in JoiningAt(s))
  BY <1>4, HoldersFinite, CountStep
<1>8. /\ Unposted \ {w} = Unposted' \ {w}
      /\ w \in Unposted' <=> UnpostedAs(r)
      /\ w \in Unposted <=> UnpostedAs(worker[w])
  BY <1>1, <1>3 DEF Unposted, UnpostedAs
<1>9. Cardinality(Unposted') = Cardinality(Unposted) + One(w \in Unposted') - One(w \in Unposted)
      /\ Cardinality(Unposted) >= One(w \in Unposted)
  BY <1>8, HoldersFinite, CountStep
<1> QED
  BY <1>2, <1>3, <1>4, <1>5, <1>6, <1>7, <1>8, <1>9 DEF One

LEMMA JoiningCounts ==
    ASSUME TypeOK, NEW w \in Worker, NEW r, worker' = [worker EXCEPT ![w] = r]
    PROVE  \A x \in Session : Cardinality(JoiningAt(x))'
             = Cardinality(JoiningAt(x)) + One(JoinsAs(r) /\ r.session = x)
               - One(JoinsAs(worker[w]) /\ worker[w].session = x)
<1> TAKE x \in Session
<1> QED
  BY WorkerCounts

LEMMA TaskCounts ==
    ASSUME TypeOK, NEW t \in Thread, NEW r, task' = [task EXCEPT ![t] = r], NEW s
    PROVE  /\ Cardinality(HoldingTasks(s))'
                = Cardinality(HoldingTasks(s)) + One(CallsAs(r, s)) - One(CallsAs(task[t], s))
           /\ Cardinality(HoldingTasks(s)) >= One(CallsAs(task[t], s))
<1>1. /\ task'[t] = r
      /\ \A x \in Thread \ {t} : task'[x] = task[x]
  BY DEF TypeOK
<1>2. /\ HoldingTasks(s) \ {t} = HoldingTasks(s)' \ {t}
      /\ t \in HoldingTasks(s)' <=> CallsAs(r, s)
      /\ t \in HoldingTasks(s) <=> CallsAs(task[t], s)
  BY <1>1 DEF HoldingTasks, CallsAs
<1>3. Cardinality(HoldingTasks(s)') = Cardinality(HoldingTasks(s))
         + One(t \in HoldingTasks(s)') - One(t \in HoldingTasks(s))
      /\ Cardinality(HoldingTasks(s)) >= One(t \in HoldingTasks(s))
  BY <1>2, HoldersFinite, CountStep
<1> QED
  BY <1>2, <1>3 DEF One

-----------------------------------------------------------------------------
(* What most steps leave as it is.                                          *)

SameUses  == \A x \in Session : SameUse(session[x], session'[x])
SameModes == \A x \in Session : /\ session'[x].mode = "NONE" <=> session[x].mode = "NONE"
                                /\ session'[x].clientID = session[x].clientID
                                /\ session'[x].bDisconnect = session[x].bDisconnect
SamePool  == UNCHANGED <<indexQueue, curPosted, curUser, curID, fails, lost, main>>
SameAccepts == \A x \in Session : posted'[x]["accept"] = posted[x]["accept"]
SameJoins == /\ Joining' = Joining
             /\ Unposted' = Unposted
             /\ \A x \in Session : /\ JoiningAt(x)' = JoiningAt(x)
                                   /\ Entering(x)' = Entering(x)
             /\ \A w \in Worker : worker[w].step = "exit" => worker'[w].step = "exit"

(* The places of a session, whether it is in use, what is accepting: all as *)
(* before.                                                                  *)
LEMMA PoolKept ==
    ASSUME SameModes, SamePool, SameAccepts, SameJoins,
           CountersExact, PlacesOK, ModeOK, EnterOK, ClientsOK, PostedOK
    PROVE  CountersExact' /\ PlacesOK' /\ ModeOK' /\ EnterOK' /\ ClientsOK' /\ PostedOK'
<1>1. Served' = Served
  BY DEF SameModes, SameJoins, InUse, Served
<1>2. Accepting' = Accepting
  BY DEF SameAccepts, Accepting
<1>3. Listening' = Listening
  BY DEF SamePool, Listening
<1>4. CountersExact'
  BY <1>1, <1>2, <1>3 DEF CountersExact, SamePool, SameJoins
<1>5. \A x \in Session : Places(x)' = Places(x)
  BY DEF Places, SamePool, SameAccepts, SameJoins, SameModes
<1>6. PlacesOK'
  BY <1>3, <1>5 DEF PlacesOK, SessionInOnePlace, SamePool
<1>7. ModeOK'
  BY DEF ModeOK, SameModes
<1>8. ClientsOK'
  BY DEF ClientsOK, SamePool, SameJoins
<1>9. PostedOK'
  BY <1>2 DEF PostedOK, SamePool, SameJoins
<1>10. EnterOK'
  BY DEF EnterOK, SameJoins, SameModes
<1> QED
  BY <1>4, <1>6, <1>7, <1>8, <1>9, <1>10

LEMMA UsesAreModes == SameUses => SameModes
  BY DEF SameUses, SameModes, SameUse

(* A session is set to a record that has the same use.                      *)
LEMMA SetUse ==
    ASSUME TypeOK, NEW s \in Session, NEW r \in SessionRec, Set(s, r)
    PROVE  /\ session' \in [Session -> SessionRec]
           /\ session'[s] = r
           /\ \A x \in Session : x # s => session'[x] = session[x]
           /\ SameUse(session[s], r) => SameUses /\ SameModes
  BY UsesAreModes DEF TypeOK, Set, SameUses, SameUse

LEMMA SessionKept == UNCHANGED session => SameUses /\ SameModes
  BY DEF SameUses, SameModes, SameUse

LEMMA WorkerKept == UNCHANGED worker => SameJoins
  BY DEF SameJoins, Joining, JoiningAt, Unposted, Entering

(* A worker that is not joining a client goes on, and does not start to; it *)
(* lets one in before and after, or neither.                                *)
LEMMA JoinsKept ==
    ASSUME TypeOK, NEW w \in Worker, NEW r, worker' = [worker EXCEPT ![w] = r],
           ~JoinsAs(worker[w]), ~JoinsAs(r), worker[w].step # "exit" \/ r.step = "exit",
           UnpostedAs(worker[w]) <=> UnpostedAs(r),
           \A x \in Session : EntersAs(worker[w], x) <=> EntersAs(r, x)
    PROVE  SameJoins
<1>1. /\ worker'[w] = r
      /\ \A x \in Worker \ {w} : worker'[x] = worker[x]
  BY DEF TypeOK
<1>2. Joining' = Joining
  BY <1>1 DEF Joining, JoinsAs
<1>3. Unposted' = Unposted
  BY <1>1, <1>2 DEF Unposted, UnpostedAs
<1>4. \A x \in Session : JoiningAt(x)' = JoiningAt(x)
  BY <1>1, <1>2 DEF JoiningAt, Joining, JoinsAs
<1>5. \A x \in Session : Entering(x)' = Entering(x)
  BY <1>1 DEF Entering, EntersAs
<1>6. \A x \in Worker : worker[x].step = "exit" => worker'[x].step = "exit"
  BY <1>1
<1> QED
  BY <1>2, <1>3, <1>4, <1>5, <1>6 DEF SameJoins

(* The threads that visit a session keep what they know of it.              *)
LEMMA TaskKept ==
    ASSUME TaskOK, UNCHANGED task,
           \A x \in Session : session[x].mode = "WAIT_LOGOUT" =>
             session'[x].mode = "WAIT_LOGOUT" /\ Entering(x)' \subseteq Entering(x)
    PROVE  TaskOK'
  BY DEF TaskOK

LEMMA TaskKeptUse == ASSUME TaskOK, UNCHANGED task, SameUses, SameJoins PROVE TaskOK'
  BY TaskKept DEF SameUses, SameUse, SameJoins

(* Nothing of what _ioCount counts changes.                                 *)
SameCounts == \A x \in Session : session'[x].ioCount = session[x].ioCount
SameHolders ==
    \A x \in Session : /\ HoldingWorkers(x)' = HoldingWorkers(x)
                       /\ HoldingTasks(x)' = HoldingTasks(x)
                       /\ (sender' = [step |-> "send", session |-> x])
                            <=> (sender = [step |-> "send", session |-> x])

LEMMA IoKept ==
    ASSUME IoCountExact, SameCounts, UNCHANGED <<posted, crash>>, SameHolders
    PROVE  IoCountExact'
  BY DEF Holders, SameHolders, IoCountExact, SameCounts

LEMMA HoldersKept == UNCHANGED <<worker, task, sender>> => SameHolders
  BY DEF SameHolders, HoldingWorkers, HoldingTasks

LEMMA SessionCountsKept == UNCHANGED session => SameCounts
  BY DEF SameCounts

(* A worker goes on, and holds its session neither more nor less.           *)
LEMMA WorkerHoldsOn ==
    ASSUME TypeOK, NEW w \in Worker, NEW r, worker' = [worker EXCEPT ![w] = r],
           \A x \in Session : HoldsAs(worker[w], x) <=> HoldsAs(r, x),
           UNCHANGED <<task, sender>>
    PROVE  SameHolders
  BY DEF TypeOK, HoldingWorkers, HoldsAs, SameHolders, HoldingTasks

LEMMA TaskHoldsOn ==
    ASSUME TypeOK, NEW t \in Thread, NEW r, task' = [task EXCEPT ![t] = r],
           \A x \in Session : CallsAs(task[t], x) <=> CallsAs(r, x),
           UNCHANGED <<worker, sender>>
    PROVE  SameHolders
  BY DEF TypeOK, HoldingTasks, CallsAs, SameHolders, HoldingWorkers

(* An operation is posted on s.                                             *)
LEMMA PostUse ==
    ASSUME TypeOK, NEW s \in Session, NEW o \in Op, Post(s, o)
    PROVE  /\ posted' \in [Session -> [Op -> Nat]]
           /\ posted'[s][o] = posted[s][o] + 1
           /\ \A p \in Op : p # o => posted'[s][p] = posted[s][p]
           /\ \A x \in Session : x # s => posted'[x] = posted[x]
           /\ o # "accept" => SameAccepts
  BY DEF TypeOK, Post, SameAccepts, Op

LEMMA PostedKept == UNCHANGED posted => SameAccepts
  BY DEF SameAccepts

(* A reference is taken by who starts to hold s, or by what is posted on s, *)
(* and given back in turn.                                                  *)
LEMMA IoMoves ==
    ASSUME TypeOK, IoCountExact, NEW s \in Session, TypeOK',
           session'[s].ioCount - session[s].ioCount
             = posted'[s]["accept"] - posted[s]["accept"]
               + posted'[s]["recv"] - posted[s]["recv"]
               + posted'[s]["send"] - posted[s]["send"]
               + Cardinality(HoldingWorkers(s))' - Cardinality(HoldingWorkers(s))
               + Cardinality(HoldingTasks(s))' - Cardinality(HoldingTasks(s))
               + One(sender' = [step |-> "send", session |-> s])
               - One(sender = [step |-> "send", session |-> s]),
           \A x \in Session : x # s =>
             /\ session'[x].ioCount = session[x].ioCount
             /\ posted'[x] = posted[x]
             /\ Cardinality(HoldingWorkers(x))' = Cardinality(HoldingWorkers(x))
             /\ Cardinality(HoldingTasks(x))' = Cardinality(HoldingTasks(x))
             /\ (sender' = [step |-> "send", session |-> x])
                  <=> (sender = [step |-> "send", session |-> x]),
           ~crash'
    PROVE  IoCountExact'
<1>1. \A x \in Session : x # s =>
        session'[x].ioCount = posted'[x]["accept"] + posted'[x]["recv"] + posted'[x]["send"]
                              + Holders(x)'
  BY DEF IoCountExact, Holders
<1>2. /\ session[s].ioCount \in Int /\ session'[s].ioCount \in Int
      /\ \A o \in {"accept", "recv", "send"} : posted[s][o] \in Nat /\ posted'[s][o] \in Nat
  BY DEF TypeOK, SessionRec, Op
<1>3. /\ Cardinality(HoldingWorkers(s)) \in Nat /\ Cardinality(HoldingTasks(s)) \in Nat
      /\ Cardinality(HoldingWorkers(s))' \in Nat /\ Cardinality(HoldingTasks(s))' \in Nat
  BY FiniteSets, FS_Subset, FS_CardinalityType, HoldersFinite DEF HoldingWorkers, HoldingTasks
<1> DEFINE sends == One(sender = [step |-> "send", session |-> s])
<1>4. sends \in Nat /\ sends' \in Nat
  BY DEF One
<1>5. /\ Holders(s) = Cardinality(HoldingWorkers(s)) + Cardinality(HoldingTasks(s)) + sends
      /\ Holders(s)' = Cardinality(HoldingWorkers(s))' + Cardinality(HoldingTasks(s))' + sends'
  BY DEF Holders, One
<1>6. session'[s].ioCount - session[s].ioCount
        = posted'[s]["accept"] - posted[s]["accept"] + posted'[s]["recv"] - posted[s]["recv"]
          + posted'[s]["send"] - posted[s]["send"]
          + Cardinality(HoldingWorkers(s))' - Cardinality(HoldingWorkers(s))
          + Cardinality(HoldingTasks(s))' - Cardinality(HoldingTasks(s)) + sends' - sends
  BY DEF One
<1> HIDE DEF sends
<1>7. session[s].ioCount = posted[s]["accept"] + posted[s]["recv"] + posted[s]["send"]
                           + Holders(s)
  BY DEF IoCountExact
<1>8. session'[s].ioCount = posted'[s]["accept"] + posted'[s]["recv"] + posted'[s]["send"]
                            + Holders(s)'
  BY <1>2, <1>3, <1>4, <1>5, <1>6, <1>7
<1> QED
  BY <1>1, <1>8 DEF IoCountExact

(* A step in which s alone gains as many references as operations pending.  *)
LEMMA IoPosted ==
    ASSUME TypeOK, TypeOK', IoCountExact, NEW s \in Session, SameHolders, ~crash',
           session'[s].ioCount - session[s].ioCount
             = posted'[s]["accept"] - posted[s]["accept"] + posted'[s]["recv"] - posted[s]["recv"]
               + posted'[s]["send"] - posted[s]["send"],
           \A x \in Session : x # s => /\ session'[x].ioCount = session[x].ioCount
                                       /\ posted'[x] = posted[x]
    PROVE  IoCountExact'
<1> DEFINE sends == One(sender = [step |-> "send", session |-> s])
<1>1. sends \in Nat /\ sends' = sends
  BY DEF One, SameHolders
<1>2. \A x \in Session :
        /\ Cardinality(HoldingWorkers(x))' = Cardinality(HoldingWorkers(x))
        /\ Cardinality(HoldingTasks(x))' = Cardinality(HoldingTasks(x))
        /\ (sender' = [step |-> "send", session |-> x])
             <=> (sender = [step |-> "send", session |-> x])
  BY DEF SameHolders
<1>3. /\ \A o \in {"accept", "recv", "send"} : posted[s][o] \in Nat /\ posted'[s][o] \in Nat
  BY DEF TypeOK, Op
<1>4. Cardinality(HoldingWorkers(s)) \in Nat /\ Cardinality(HoldingTasks(s)) \in Nat
  BY HoldersFinite
<1> HIDE DEF sends
<1>5. session'[s].ioCount - session[s].ioCount
        = posted'[s]["accept"] - posted[s]["accept"] + posted'[s]["recv"] - posted[s]["recv"]
          + posted'[s]["send"] - posted[s]["send"]
          + Cardinality(HoldingWorkers(s))' - Cardinality(HoldingWorkers(s))
          + Cardinality(HoldingTasks(s))' - Cardinality(HoldingTasks(s)) + sends' - sends
  BY <1>1, <1>2, <1>3, <1>4
<1> QED
  BY <1>2, <1>5, IoMoves DEF sends

-----------------------------------------------------------------------------
(* The steps of the accept thread and of the clients.                       *)

SessionVars == <<session, posted, worker, task, sender, main, indexQueue,
                 curPosted, curUser, curID, fails, lost, crash>>

LEMMA QuietStep ==
    ASSUME SessionInv, TypeOK', UNCHANGED SessionVars
    PROVE  SessionInv'
  BY SessionCountsKept, HoldersKept, SessionKept, PostedKept, WorkerKept, IoKept, PoolKept,
     TaskKeptUse DEF SessionVars, SamePool, SessionInv

LEMMA AcceptorStep ==
    ASSUME SessionInv, acceptor' \in {"check", "drowsy", "asleep", "go", "exit"},
           UNCHANGED <<session, line, posted, worker, task, sender, main, poolVars, crash>>
    PROVE  SessionInv'
  BY QuietStep DEF SessionInv, TypeOK, poolVars, SessionVars

LEMMA ClientClosesKeeps ==
    ASSUME SessionInv, NEW s \in Session, ClientCloses(s) PROVE SessionInv'
  BY QuietStep DEF SessionInv, TypeOK, ClientCloses, poolVars, threadVars, SessionVars

(* The steps that put a session from one place into another leave what      *)
(* counts the others.                                                       *)
LEMMA PlacesType ==
    ASSUME TypeOK, NEW s \in Session
    PROVE  /\ Cardinality(PlacesOf(indexQueue, s)) \in Nat
           /\ posted[s]["accept"] \in Nat
           /\ Cardinality(JoiningAt(s)) \in Nat
           /\ Places(s) = Cardinality(PlacesOf(indexQueue, s)) + posted[s]["accept"]
                          + Cardinality(JoiningAt(s)) + One(session[s].mode # "NONE")
           /\ Places(s) \in Nat
<1>1. Cardinality(PlacesOf(indexQueue, s)) \in Nat
  BY PlacesFinite DEF TypeOK
<1>2. posted[s]["accept"] \in Nat
  BY DEF TypeOK, Op
<1>3. Cardinality(JoiningAt(s)) \in Nat
  BY HoldersFinite
<1> QED
  BY <1>1, <1>2, <1>3 DEF Places, PlacesOf, One

LEMMA PoolFinite ==
    /\ IsFiniteSet(InUse) /\ Cardinality(InUse) \in Nat
    /\ IsFiniteSet(Served) /\ Cardinality(Served) \in Nat
    /\ IsFiniteSet(Accepting) /\ Cardinality(Accepting) \in Nat
<1>1. InUse \subseteq Session /\ Served \subseteq Session /\ Accepting \subseteq Session
  BY DEF InUse, Served, Accepting
<1> QED
  BY <1>1, FiniteSets, FS_Subset, FS_CardinalityType

LEMMA Accept_PostKeeps ==
    ASSUME SessionInv, NEW s \in Session, Accept_Post(s) PROVE SessionInv'
<1>0. TypeOK /\ IoCountExact /\ CountersExact /\ PlacesOK /\ ModeOK /\ TaskOK /\ EnterOK /\ ClientsOK /\ PostedOK
  BY DEF SessionInv
<1>1. session[s] \in SessionRec /\ Count(session[s], 1) \in SessionRec
      /\ SameUse(session[s], Count(session[s], 1))
      /\ Count(session[s], 1).ioCount = session[s].ioCount + 1
  BY <1>0, CountUse DEF TypeOK
<1>2. /\ session' \in [Session -> SessionRec]
      /\ session'[s].ioCount = session[s].ioCount + 1
      /\ \A x \in Session : x # s => session'[x] = session[x]
      /\ SameUses /\ SameModes
  BY <1>0, <1>1, SetUse DEF Accept_Post
<1>3. /\ posted' \in [Session -> [Op -> Nat]]
      /\ posted'[s]["accept"] = posted[s]["accept"] + 1
      /\ posted'[s]["recv"] = posted[s]["recv"] /\ posted'[s]["send"] = posted[s]["send"]
      /\ \A x \in Session : x # s => posted'[x] = posted[x]
  BY <1>0, PostUse DEF Accept_Post, Op
<1>4. /\ indexQueue # <<>> /\ s = Head(indexQueue) /\ indexQueue' = Tail(indexQueue)
      /\ curPosted' = curPosted + 1
      /\ UNCHANGED <<worker, task, sender, main, curUser, curID, fails, lost, freed, crash>>
      /\ bound' = bound \ {s}
      /\ main = "run" /\ acceptor' = "check"
      /\ line' = [line EXCEPT ![s] = "none"]
  BY DEF Accept_Post, ServerOn
<1>5. TypeOK'
  <2>1. indexQueue' \in Seq(Session)
    BY <1>0, <1>4, TailElements DEF TypeOK
  <2>2. session' \in [Session -> SessionRec] /\ posted' \in [Session -> [Op -> Nat]]
    BY <1>2, <1>3
  <2>3. /\ line' \in [Session -> {"none", "open", "closed", "shut"}]
        /\ curPosted' \in Nat /\ acceptor' = "check"
        /\ bound' \subseteq Session
        /\ UNCHANGED <<worker, task, sender, main, curUser, curID, fails, lost, freed, crash>>
    BY <1>0, <1>4 DEF TypeOK
  <2> QED
    BY <1>0, <2>1, <2>2, <2>3 DEF TypeOK
<1>6. IoCountExact'
  <2>1. SameHolders
    BY <1>4, HoldersKept
  <2>2. ~crash'
    BY <1>0, <1>4 DEF IoCountExact
  <2>3. session[s].ioCount \in Int /\ \A o \in {"accept", "recv", "send"} : posted[s][o] \in Nat
    BY <1>0 DEF TypeOK, SessionRec, Op
  <2>4. session'[s].ioCount - session[s].ioCount
          = posted'[s]["accept"] - posted[s]["accept"] + posted'[s]["recv"] - posted[s]["recv"]
            + posted'[s]["send"] - posted[s]["send"]
    BY <1>2, <1>3, <2>3
  <2> QED
    BY <1>0, <1>2, <1>3, <1>5, <2>1, <2>2, <2>4, IoPosted
<1>7. SameJoins
  BY <1>4, WorkerKept
<1>8. Listening /\ Listening'
  BY <1>4 DEF Listening
<1>9. \A x \in Session : Places(x)' = Places(x)
  <2> SUFFICES ASSUME NEW x \in Session PROVE Places(x)' = Places(x)
    OBVIOUS
  <2>1. Cardinality(PlacesOf(indexQueue', x)) = Cardinality(PlacesOf(indexQueue, x)) - One(x = s)
    BY <1>0, <1>4, PlacesTail DEF TypeOK
  <2>2. posted'[x]["accept"] = posted[x]["accept"] + One(x = s)
    BY <1>0, PlacesType, <1>3 DEF One
  <2>3. JoiningAt(x)' = JoiningAt(x)
    BY <1>7 DEF SameJoins
  <2>4. session'[x].mode = "NONE" <=> session[x].mode = "NONE"
    BY <1>2 DEF SameModes
  <2>5. /\ Cardinality(PlacesOf(indexQueue, x)) \in Nat
        /\ posted[x]["accept"] \in Nat /\ Cardinality(JoiningAt(x)) \in Nat
    BY <1>0, PlacesType
  <2> QED
    BY <2>1, <2>2, <2>3, <2>4, <2>5 DEF Places, PlacesOf, One
<1>10. PlacesOK'
  BY <1>0, <1>4, <1>8, <1>9 DEF PlacesOK, SessionInOnePlace
<1>11. Cardinality(Accepting)' = Cardinality(Accepting) + 1
  <2>1. Cardinality(PlacesOf(indexQueue, s)) >= 1
    <3>1. Cardinality(PlacesOf(Tail(indexQueue), s)) = Cardinality(PlacesOf(indexQueue, s)) - 1
      BY <1>0, <1>4, PlacesTail DEF TypeOK, One
    <3>2. Cardinality(PlacesOf(Tail(indexQueue), s)) \in Nat
      BY <1>0, <1>4, TailElements, PlacesFinite DEF TypeOK
    <3> QED
      BY <1>0, <3>1, <3>2, PlacesType
  <2>2. posted[s]["accept"] = 0
    BY <1>0, <2>1, PlacesType DEF PlacesOK, One
  <2>3. s \notin Accepting /\ s \in Accepting' /\ Accepting \ {s} = Accepting' \ {s}
    BY <1>3, <2>2 DEF Accepting
  <2>4. Cardinality(Accepting') = Cardinality(Accepting) + One(s \in Accepting') - One(s \in Accepting)
    BY <2>3, PoolFinite, CountStep
  <2> QED
    BY <2>3, <2>4, PoolFinite DEF One
<1>12. CountersExact' /\ PostedOK'
  <2>1. Served' = Served
    BY <1>2, <1>7 DEF InUse, Served, SameModes, SameJoins
  <2>2. Unposted' = Unposted
    BY <1>7 DEF SameJoins
  <2>3. curPosted \in Nat /\ fails \in Nat /\ Cardinality(Unposted) \in Nat /\ Cardinality(Accepting) \in Nat
    BY <1>0, HoldersFinite, PoolFinite DEF TypeOK
  <2>4. CountersExact'
    BY <1>0, <1>4, <1>8, <1>11, <2>1, <2>2, <2>3 DEF CountersExact
  <2>5. PostedOK'
    BY <1>0, <1>4, <1>11, <2>2, <2>3 DEF PostedOK
  <2> QED
    BY <2>4, <2>5
<1>13. ModeOK' /\ EnterOK' /\ ClientsOK' /\ TaskOK'
  BY <1>0, <1>2, <1>4, <1>7, TaskKeptUse DEF ModeOK, EnterOK, ClientsOK, SameModes, SameJoins
<1> QED
  BY <1>5, <1>6, <1>10, <1>12, <1>13 DEF SessionInv

LEMMA Accept_Post_FailKeeps ==
    ASSUME SessionInv, NEW s \in Session, Accept_Post_Fail(s) PROVE SessionInv'
<1>0. TypeOK /\ IoCountExact /\ CountersExact /\ PlacesOK /\ ModeOK /\ TaskOK /\ EnterOK /\ ClientsOK /\ PostedOK
  BY DEF SessionInv
<1>1. /\ indexQueue # <<>> /\ s = Head(indexQueue)
      /\ indexQueue' = Append(Tail(indexQueue), s)
      /\ curPosted' = curPosted + 1 /\ fails' = fails + 1
      /\ UNCHANGED <<session, posted, worker, task, sender, main, curUser, curID, lost, freed, crash>>
      /\ bound' = bound \ {s}
      /\ main = "run" /\ acceptor' = "check"
      /\ line' = [line EXCEPT ![s] = "none"]
  BY DEF Accept_Post_Fail, ServerOn
<1>2. Tail(indexQueue) \in Seq(Session)
  BY <1>0, <1>1, TailElements DEF TypeOK
<1>3. TypeOK'
  BY <1>0, <1>1, <1>2 DEF TypeOK
<1>4. SameCounts /\ SameHolders /\ SameUses /\ SameModes /\ SameAccepts /\ SameJoins
  BY <1>1, SessionCountsKept, HoldersKept, SessionKept, PostedKept, WorkerKept
<1>5. IoCountExact'
  BY <1>0, <1>1, <1>4, IoKept
<1>6. \A x \in Session : Places(x)' = Places(x)
  <2> SUFFICES ASSUME NEW x \in Session PROVE Places(x)' = Places(x)
    OBVIOUS
  <2>1. Cardinality(PlacesOf(Tail(indexQueue), x)) = Cardinality(PlacesOf(indexQueue, x)) - One(x = s)
    BY <1>0, <1>1, PlacesTail DEF TypeOK
  <2>2. Cardinality(PlacesOf(indexQueue', x)) = Cardinality(PlacesOf(Tail(indexQueue), x)) + One(x = s)
    <3> DEFINE q == Tail(indexQueue)
    <3>1. q \in Seq(Session) /\ indexQueue' = Append(q, s)
      BY <1>1, <1>2
    <3> HIDE DEF q
    <3>2. Cardinality(PlacesOf(Append(q, s), x)) = Cardinality(PlacesOf(q, x)) + One(x = s)
      BY <3>1, PlacesAppend
    <3> QED
      BY <3>1, <3>2 DEF q
  <2>3. Cardinality(PlacesOf(indexQueue', x)) = Cardinality(PlacesOf(indexQueue, x))
    BY <1>0, <2>1, <2>2, PlacesType DEF One
  <2> QED
    BY <1>1, <1>4, <2>3 DEF Places, PlacesOf, SameJoins
<1>7. Listening /\ Listening' /\ Served' = Served /\ Accepting' = Accepting /\ Unposted' = Unposted
  BY <1>1, <1>4 DEF Listening, InUse, Served, Accepting, SameJoins
<1>8. PlacesOK'
  BY <1>0, <1>1, <1>6, <1>7 DEF PlacesOK, SessionInOnePlace
<1>9. curPosted \in Nat /\ fails \in Nat /\ Cardinality(Unposted) \in Nat /\ Cardinality(Accepting) \in Nat
  BY <1>0, HoldersFinite, PoolFinite DEF TypeOK
<1>10. CountersExact'
  BY <1>0, <1>1, <1>7, <1>9 DEF CountersExact
<1>11. PostedOK'
  BY <1>0, <1>1, <1>7, <1>9 DEF PostedOK
<1>12. ModeOK' /\ EnterOK' /\ ClientsOK' /\ TaskOK'
  BY <1>0, <1>1, <1>4, <1>7, TaskKeptUse DEF ModeOK, EnterOK, ClientsOK, SameModes, SameJoins
<1> QED
  BY <1>3, <1>5, <1>8, <1>10, <1>11, <1>12 DEF SessionInv

-----------------------------------------------------------------------------
(* The steps of a worker thread.                                            *)

WorkerRec == [step : WorkerStep, session : Session \cup {NoSession}, outcome : Outcome]

LEMMA Ends ==
    /\ EndOf("accepted") = "accept" /\ EndOf("refused") = "accept"
    /\ EndOf("received") = "recv" /\ EndOf("spoilt") = "recv" /\ EndOf("closed") = "recv"
    /\ EndOf("sent") = "send"
  BY DEF EndOf

LEMMA MayEndAccept ==
    ASSUME NEW s
    PROVE  MayEnd(s, "accepted") => Listening /\ curID + Cardinality(Joining) < MaxClient
  BY DEF MayEnd

(* w goes on from its handler to the reference that it gives back.          *)
LEMMA HandlesUse ==
    ASSUME TypeOK, NEW w \in Worker, NEW s \in Session, NEW o, o # "accepted", Handles(w, s, o)
    PROVE  /\ worker' \in [Worker -> WorkerRec]
           /\ UNCHANGED <<task, sender>> => SameHolders
           /\ SameJoins
<1> DEFINE r == [worker[w] EXCEPT !.step = "release"]
<1>1. worker[w] \in WorkerRec
  BY DEF TypeOK, WorkerRec
<1>2. /\ r \in WorkerRec /\ r.step = "release"
      /\ r.session = worker[w].session
  BY <1>1 DEF WorkerRec, WorkerStep
<1>3. /\ worker[w].step = "handle" /\ worker[w].session = s /\ worker[w].outcome = o
      /\ worker' = [worker EXCEPT ![w] = r]
  BY DEF Handles
<1> HIDE DEF r
<1>4. worker' \in [Worker -> WorkerRec]
  BY <1>2, <1>3 DEF TypeOK, WorkerRec
<1>5. UNCHANGED <<task, sender>> => SameHolders
  BY <1>2, <1>3, WorkerHoldsOn DEF HoldsAs
<1>6. SameJoins
  BY <1>2, <1>3, JoinsKept DEF JoinsAs, UnpostedAs, EntersAs
<1> QED
  BY <1>4, <1>5, <1>6

(* A handler that leaves the references and the use of every session alone. *)
LEMMA PlainHandler ==
    ASSUME SessionInv, NEW w \in Worker, NEW s \in Session, NEW o, o # "accepted",
           Handles(w, s, o), session' \in [Session -> SessionRec],
           line' \in [Session -> {"none", "open", "closed", "shut"}],
           SameUses, SameCounts, UNCHANGED <<posted, task, sender, acceptor, main, poolVars, crash>>
    PROVE  SessionInv'
  BY HandlesUse, IoKept, PoolKept, PostedKept, UsesAreModes, TaskKeptUse DEF SessionInv, TypeOK,
     WorkerRec, poolVars, SamePool

(* What a set to r makes of the fields that the parts speak of.             *)
LEMMA SetPlain ==
    ASSUME TypeOK, NEW s \in Session, NEW r \in SessionRec, Set(s, r),
           SameUse(session[s], r), r.ioCount = session[s].ioCount
    PROVE  session' \in [Session -> SessionRec] /\ SameUses /\ SameModes /\ SameCounts
  BY SetUse DEF SameCounts

LEMMA SentUse ==
    ASSUME NEW r \in SessionRec
    PROVE  /\ [FreeSentPacket(r) EXCEPT !.sendIO = 0] \in SessionRec
           /\ SameUse(r, [FreeSentPacket(r) EXCEPT !.sendIO = 0])
           /\ [FreeSentPacket(r) EXCEPT !.sendIO = 0].ioCount = r.ioCount
<1> DEFINE q == FreeSentPacket(r)
<1>1. q \in SessionRec /\ SameUse(r, q) /\ q.ioCount = r.ioCount
  BY FreeUse
<1> HIDE DEF q
<1>2. /\ [q EXCEPT !.sendIO = 0] \in SessionRec
      /\ SameUse(r, [q EXCEPT !.sendIO = 0])
      /\ [q EXCEPT !.sendIO = 0].ioCount = r.ioCount
  BY <1>1 DEF SessionRec, SameUse
<1> QED
  BY <1>2 DEF q

LEMMA FlagUse ==
    ASSUME NEW r \in SessionRec
    PROVE  /\ [r EXCEPT !.bLogoutFlag = TRUE] \in SessionRec
           /\ SameUse(r, [r EXCEPT !.bLogoutFlag = TRUE])
           /\ [r EXCEPT !.bLogoutFlag = TRUE].ioCount = r.ioCount
  BY DEF SessionRec, SameUse

LEMMA DropKeeps ==
    ASSUME SessionInv, NEW w \in Worker, NEW s \in Session, Update_WorkerThread_Drop(w, s)
    PROVE  SessionInv'
  BY PlainHandler, SessionKept, SessionCountsKept DEF Update_WorkerThread_Drop, SessionInv, TypeOK

LEMMA ZeroKeeps ==
    ASSUME SessionInv, NEW w \in Worker, NEW s \in Session, Update_WorkerThread_Zero(w, s)
    PROVE  SessionInv'
  BY PlainHandler, SessionKept, SessionCountsKept DEF Update_WorkerThread_Zero, SessionInv, TypeOK

LEMMA Send_CompleteKeeps ==
    ASSUME SessionInv, NEW w \in Worker, NEW s \in Session, Send_Complete(w, s)
    PROVE  SessionInv'
<1> DEFINE r == [FreeSentPacket(session[s]) EXCEPT !.sendIO = 0]
<1>1. /\ Handles(w, s, "sent") /\ Set(s, r)
      /\ UNCHANGED <<line, posted, task, sender, acceptor, main, poolVars, crash>>
  BY DEF Send_Complete
<1>2. r \in SessionRec /\ SameUse(session[s], r) /\ r.ioCount = session[s].ioCount
  BY SentUse DEF SessionInv, TypeOK
<1> HIDE DEF r
<1>3. session' \in [Session -> SessionRec] /\ SameUses /\ SameCounts
  BY <1>1, <1>2, SetPlain DEF SessionInv
<1>4. line' \in [Session -> {"none", "open", "closed", "shut"}]
  BY <1>1 DEF SessionInv, TypeOK
<1> QED
  BY <1>1, <1>3, <1>4, PlainHandler

(* A receive is posted with a reference of its own, or neither.             *)
LEMMA RecvUse ==
    ASSUME TypeOK, NEW s \in Session, NEW r \in SessionRec, Recv_Post(s, r)
    PROVE  /\ session' \in [Session -> SessionRec]
           /\ SameUse(r, session'[s])
           /\ \A x \in Session : x # s => session'[x] = session[x]
           /\ posted' \in [Session -> [Op -> Nat]] /\ SameAccepts
           /\ \A x \in Session : x # s => posted'[x] = posted[x]
           /\ posted'[s]["send"] = posted[s]["send"]
           /\ session'[s].ioCount - r.ioCount = posted'[s]["recv"] - posted[s]["recv"]
<1>0. r.ioCount \in Int /\ posted[s]["recv"] \in Nat
  BY DEF SessionRec, TypeOK, Op
<1>1. CASE Set(s, Count(r, 1)) /\ Post(s, "recv")
  <2>1. Count(r, 1) \in SessionRec /\ SameUse(r, Count(r, 1)) /\ Count(r, 1).ioCount = r.ioCount + 1
    BY CountUse
  <2>2. /\ session' \in [Session -> SessionRec] /\ session'[s] = Count(r, 1)
        /\ \A x \in Session : x # s => session'[x] = session[x]
    BY <1>1, <2>1, SetUse
  <2>3. /\ posted' \in [Session -> [Op -> Nat]] /\ SameAccepts
        /\ posted'[s]["recv"] = posted[s]["recv"] + 1 /\ posted'[s]["send"] = posted[s]["send"]
        /\ \A x \in Session : x # s => posted'[x] = posted[x]
    BY <1>1, PostUse DEF Op
  <2>4. session'[s].ioCount - r.ioCount = posted'[s]["recv"] - posted[s]["recv"]
    BY <1>0, <2>1, <2>2, <2>3
  <2> QED
    BY <2>1, <2>2, <2>3, <2>4
<1>2. CASE Set(s, r) /\ UNCHANGED posted
  BY <1>2, SetUse, PostedKept, <1>0 DEF TypeOK, SameUse
<1> QED
  BY <1>1, <1>2 DEF Recv_Post

LEMMA WorkerHoldCounts ==
    ASSUME TypeOK, NEW w \in Worker, NEW r, worker' = [worker EXCEPT ![w] = r]
    PROVE  \A x \in Session :
             Cardinality(HoldingWorkers(x))'
               = Cardinality(HoldingWorkers(x)) + One(HoldsAs(r, x)) - One(HoldsAs(worker[w], x))
<1> TAKE x \in Session
<1>1. worker'[w] = r /\ \A v \in Worker \ {w} : worker'[v] = worker[v]
  BY DEF TypeOK
<1>2. /\ HoldingWorkers(x) \ {w} = HoldingWorkers(x)' \ {w}
      /\ w \in HoldingWorkers(x)' <=> HoldsAs(r, x)
      /\ w \in HoldingWorkers(x) <=> HoldsAs(worker[w], x)
  BY <1>1 DEF HoldingWorkers, HoldsAs
<1>3. Cardinality(HoldingWorkers(x)') = Cardinality(HoldingWorkers(x))
         + One(w \in HoldingWorkers(x)') - One(w \in HoldingWorkers(x))
  BY <1>2, HoldersFinite, CountStep
<1> QED
  BY <1>2, <1>3 DEF One

(* A step of w after which it holds s, or no longer does.                   *)
LEMMA IoWorker ==
    ASSUME TypeOK, TypeOK', IoCountExact, NEW s \in Session, NEW w \in Worker, NEW r,
           worker' = [worker EXCEPT ![w] = r], UNCHANGED <<task, sender>>, ~crash',
           session'[s].ioCount - session[s].ioCount
             = posted'[s]["accept"] - posted[s]["accept"] + posted'[s]["recv"] - posted[s]["recv"]
               + posted'[s]["send"] - posted[s]["send"]
               + One(HoldsAs(r, s)) - One(HoldsAs(worker[w], s)),
           \A x \in Session : x # s => /\ session'[x].ioCount = session[x].ioCount
                                       /\ posted'[x] = posted[x]
                                       /\ HoldsAs(r, x) <=> HoldsAs(worker[w], x)
    PROVE  IoCountExact'
<1> DEFINE sends == One(sender = [step |-> "send", session |-> s])
           old == One(HoldsAs(worker[w], s))
           new == One(HoldsAs(r, s))
<1>1. sends \in Nat /\ sends' = sends /\ old \in Nat /\ new \in Nat
  BY DEF One
<1>2. \A x \in Session :
        Cardinality(HoldingWorkers(x))'
          = Cardinality(HoldingWorkers(x)) + One(HoldsAs(r, x)) - One(HoldsAs(worker[w], x))
  BY WorkerHoldCounts
<1>3. \A x \in Session : Cardinality(HoldingWorkers(x)) \in Nat
  BY HoldersFinite
<1>4. \A x \in Session : x # s =>
        Cardinality(HoldingWorkers(x))' = Cardinality(HoldingWorkers(x))
  BY <1>2, <1>3 DEF One
<1>5. \A x \in Session : HoldingTasks(x)' = HoldingTasks(x)
  BY DEF HoldingTasks
<1>6. \A o \in {"accept", "recv", "send"} : posted[s][o] \in Nat /\ posted'[s][o] \in Nat
  <2>1. posted \in [Session -> [Op -> Nat]] /\ posted' \in [Session -> [Op -> Nat]]
    BY DEF TypeOK
  <2> QED
    BY <2>1 DEF Op
<1>7. Cardinality(HoldingTasks(s)) \in Nat
  BY HoldersFinite
<1>8. Cardinality(HoldingWorkers(s))' = Cardinality(HoldingWorkers(s)) + new - old
  BY <1>2
<1>9. session'[s].ioCount - session[s].ioCount
        = posted'[s]["accept"] - posted[s]["accept"] + posted'[s]["recv"] - posted[s]["recv"]
          + posted'[s]["send"] - posted[s]["send"] + new - old
  OBVIOUS
<1> HIDE DEF sends, old, new
<1>10. session'[s].ioCount - session[s].ioCount
        = posted'[s]["accept"] - posted[s]["accept"] + posted'[s]["recv"] - posted[s]["recv"]
          + posted'[s]["send"] - posted[s]["send"]
          + Cardinality(HoldingWorkers(s))' - Cardinality(HoldingWorkers(s))
          + Cardinality(HoldingTasks(s))' - Cardinality(HoldingTasks(s)) + sends' - sends
  BY <1>1, <1>3, <1>5, <1>6, <1>7, <1>8, <1>9
<1> QED
  BY <1>4, <1>5, <1>10, IoMoves DEF sends

LEMMA IoAtLeast ==
    ASSUME TypeOK, IoCountExact, NEW s \in Session
    PROVE  /\ session[s].ioCount >= Cardinality(HoldingWorkers(s))
           /\ session[s].ioCount >= Cardinality(HoldingTasks(s))
           /\ session[s].ioCount >= One(sender = [step |-> "send", session |-> s])
           /\ session[s].ioCount \in Nat
<1>1. \A o \in {"accept", "recv", "send"} : posted[s][o] \in Nat
  BY DEF TypeOK, Op
<1>2. Cardinality(HoldingWorkers(s)) \in Nat /\ Cardinality(HoldingTasks(s)) \in Nat
  BY HoldersFinite
<1>3. session[s].ioCount = posted[s]["accept"] + posted[s]["recv"] + posted[s]["send"] + Holders(s)
  BY DEF IoCountExact
<1> QED
  BY <1>1, <1>2, <1>3 DEF Holders, One

LEMMA GetQueuedCompletionStatusKeeps ==
    ASSUME SessionInv, NEW w \in Worker, NEW s \in Session, NEW o \in Outcome,
           GetQueuedCompletionStatus(w, s, o)
    PROVE  SessionInv'
<1>0. TypeOK /\ IoCountExact /\ CountersExact /\ PlacesOK /\ ModeOK /\ TaskOK /\ EnterOK /\ ClientsOK /\ PostedOK
  BY DEF SessionInv
<1> DEFINE r == [step |-> "handle", session |-> s, outcome |-> o]
           k == EndOf(o)
<1>1. /\ worker[w].step = "idle" /\ worker' = [worker EXCEPT ![w] = r]
      /\ posted[s][k] > 0 /\ MayEnd(s, o)
      /\ posted' = [posted EXCEPT ![s][k] = @ - 1]
      /\ IF o = "refused" /\ Listening
         THEN fails' = fails + 1 /\ lost' = lost \cup {s}
         ELSE UNCHANGED <<fails, lost>>
      /\ UNCHANGED <<session, line, task, sender, acceptor, main, indexQueue, curPosted,
                     curUser, curID, bound, freed, crash>>
  BY DEF GetQueuedCompletionStatus
<1>2. k \in Op
  BY Ends DEF Outcome, Op
<1>3. r \in WorkerRec /\ (\A x : HoldsAs(r, x) <=> x = s) /\ (JoinsAs(r) <=> o = "accepted")
      /\ (UnpostedAs(r) <=> o = "accepted") /\ (\A x : ~EntersAs(r, x))
      /\ r.session = s /\ r.step = "handle"
  BY DEF WorkerRec, WorkerStep, HoldsAs, JoinsAs, UnpostedAs, EntersAs
<1>4. /\ (\A x : ~HoldsAs(worker[w], x)) /\ ~JoinsAs(worker[w]) /\ worker[w].step # "exit"
      /\ ~UnpostedAs(worker[w]) /\ (\A x : ~EntersAs(worker[w], x))
  BY <1>1 DEF HoldsAs, JoinsAs, UnpostedAs, EntersAs
<1>5. k = "accept" <=> o \in {"accepted", "refused"}
  BY Ends DEF Outcome
<1> HIDE DEF r, k
<1>6. /\ posted' \in [Session -> [Op -> Nat]]
      /\ posted'[s][k] = posted[s][k] - 1
      /\ \A p \in Op : p # k => posted'[s][p] = posted[s][p]
      /\ \A x \in Session : x # s => posted'[x] = posted[x]
  BY <1>0, <1>1, <1>2 DEF TypeOK
<1>7. TypeOK'
  <2>1. fails' \in Nat /\ lost' \subseteq Session
    BY <1>0, <1>1 DEF TypeOK
  <2>2. worker' \in [Worker -> WorkerRec]
    BY <1>0, <1>1, <1>3 DEF TypeOK, WorkerRec
  <2> QED
    BY <1>0, <1>1, <1>6, <2>1, <2>2 DEF TypeOK, WorkerRec
<1>8. IoCountExact'
  <2>1. One(HoldsAs(r, s)) = 1 /\ One(HoldsAs(worker[w], s)) = 0
    BY <1>3, <1>4 DEF One
  <2>2. posted[s][k] \in Nat /\ \A p \in Op : posted[s][p] \in Nat
    BY <1>0, <1>2 DEF TypeOK
  <2>3. posted'[s]["accept"] - posted[s]["accept"] + posted'[s]["recv"] - posted[s]["recv"]
          + posted'[s]["send"] - posted[s]["send"] = 0 - 1
    BY <1>2, <1>6, <2>2 DEF Op
  <2>4. session[s].ioCount \in Int /\ session'[s].ioCount - session[s].ioCount = 0
    BY <1>0, <1>1 DEF TypeOK, SessionRec
  <2>5. session'[s].ioCount - session[s].ioCount
          = posted'[s]["accept"] - posted[s]["accept"] + posted'[s]["recv"] - posted[s]["recv"]
            + posted'[s]["send"] - posted[s]["send"]
            + One(HoldsAs(r, s)) - One(HoldsAs(worker[w], s))
    BY <2>1, <2>3, <2>4
  <2>6. \A x \in Session : x # s => /\ session'[x].ioCount = session[x].ioCount
                                    /\ posted'[x] = posted[x]
                                    /\ HoldsAs(r, x) <=> HoldsAs(worker[w], x)
    BY <1>1, <1>3, <1>4, <1>6
  <2>7. ~crash' /\ worker' = [worker EXCEPT ![w] = r] /\ UNCHANGED <<task, sender>>
    BY <1>0, <1>1 DEF IoCountExact
  <2> QED
    BY <1>0, <1>7, <2>5, <2>6, <2>7, IoWorker
<1>9. SameUses /\ SameModes
  BY <1>1, SessionKept
<1>10. \A x \in Session : Entering(x)' = Entering(x)
  <2>1. worker'[w] = r /\ \A v \in Worker \ {w} : worker'[v] = worker[v]
    BY <1>0, <1>1 DEF TypeOK
  <2> QED
    BY <1>3, <1>4, <2>1 DEF Entering, EntersAs
<1>11. TaskOK'
  BY <1>0, <1>1, <1>10, TaskKept
<1>12. CASE k # "accept"
  <2>1. SameAccepts
    BY <1>6, <1>12 DEF SameAccepts, Op
  <2>2. SameJoins
    BY <1>0, <1>1, <1>3, <1>4, <1>5, <1>12, JoinsKept
  <2>3. SamePool
    BY <1>1, <1>5, <1>12 DEF SamePool
  <2>4. CountersExact' /\ PlacesOK' /\ ModeOK' /\ EnterOK' /\ ClientsOK' /\ PostedOK'
    BY <1>0, <1>9, <2>1, <2>2, <2>3, PoolKept
  <2> QED
    BY <1>7, <1>8, <1>11, <2>4 DEF SessionInv
<1>13. CASE k = "accept"
  <2>1. \A x \in Session : posted'[x]["accept"] = posted[x]["accept"] - One(x = s)
    BY <1>0, PlacesType, <1>6, <1>13 DEF One
  <2>2. \A x \in Session : Cardinality(JoiningAt(x))' = Cardinality(JoiningAt(x))
                             + One(o = "accepted" /\ x = s)
    <3> TAKE x \in Session
    <3>1. Cardinality(JoiningAt(x))'
            = Cardinality(JoiningAt(x)) + One(JoinsAs(r) /\ r.session = x)
              - One(JoinsAs(worker[w]) /\ worker[w].session = x)
      BY <1>0, <1>1, JoiningCounts
    <3>2. Cardinality(JoiningAt(x)) \in Nat
      BY HoldersFinite
    <3> QED
      BY <1>3, <1>4, <3>1, <3>2 DEF One
  <2>3. /\ Cardinality(Joining)' = Cardinality(Joining) + One(o = "accepted")
        /\ Cardinality(Unposted)' = Cardinality(Unposted) + One(o = "accepted")
    <3>1. /\ Cardinality(Joining)' = Cardinality(Joining) + One(JoinsAs(r)) - One(JoinsAs(worker[w]))
          /\ Cardinality(Unposted)'
               = Cardinality(Unposted) + One(UnpostedAs(r)) - One(UnpostedAs(worker[w]))
      BY <1>0, <1>1, WorkerCounts
    <3>2. Cardinality(Joining) \in Nat /\ Cardinality(Unposted) \in Nat
      BY HoldersFinite
    <3> QED
      BY <1>3, <1>4, <3>1, <3>2 DEF One
  <2>4. /\ \A x \in Session : Places(x)' = Places(x) - One(o = "refused" /\ x = s)
        /\ \A x \in Session : Places(x) \in Nat
    BY <1>1, <1>5, <1>13, <1>0, <2>1, <2>2, PlacesType DEF Places, PlacesOf, One
  <2>5. /\ Listening' = Listening
        /\ o = "accepted" => curID + Cardinality(Joining) < MaxClient
    BY <1>1, MayEndAccept DEF Listening
  <2>6. PlacesOK'
    <3>1. posted[s]["accept"] > 0 /\ posted[s]["accept"] \in Nat
      BY <1>0, <1>1, <1>13, PlacesType
    <3>2. Places(s) >= 1
      BY <1>0, <3>1, PlacesType DEF One
    <3>3. \A x \in Session : Places(x)' <= 1
      BY <1>0, <2>4 DEF PlacesOK, One
    <3>4. ASSUME Listening, NEW x \in Session
          PROVE  Places(x)' = IF x \in lost' THEN 0 ELSE 1
      <4>1. Places(x) = IF x \in lost THEN 0 ELSE 1
        BY <1>0, <3>4 DEF PlacesOK, SessionInOnePlace
      <4>2. x = s => x \notin lost
        BY <3>2, <4>1
      <4> QED
        BY <1>1, <2>4, <3>4, <4>1, <4>2 DEF One
    <3> QED
      BY <2>5, <3>3, <3>4 DEF PlacesOK, SessionInOnePlace
  <2>7. Cardinality(Accepting)' = Cardinality(Accepting) - 1 /\ Cardinality(Accepting) >= 1
    <3>1. posted[s]["accept"] = 1
      <4>1. posted[s]["accept"] > 0
        BY <1>1, <1>13
      <4> QED
        BY <1>0, <4>1, PlacesType DEF PlacesOK, One
    <3>2. s \in Accepting /\ s \notin Accepting' /\ Accepting \ {s} = Accepting' \ {s}
      BY <1>6, <1>13, <3>1 DEF Accepting
    <3>3. /\ Cardinality(Accepting') = Cardinality(Accepting) + One(s \in Accepting') - One(s \in Accepting)
          /\ Cardinality(Accepting) >= One(s \in Accepting)
      BY <3>2, PoolFinite, CountStep
    <3> QED
      BY <3>2, <3>3, PoolFinite DEF One
  <2>8. /\ Served' = Served
        /\ UNCHANGED <<curPosted, curUser, curID, main>>
        /\ fails' = fails + One(o = "refused" /\ Listening)
    BY <1>0, <1>1, <1>10 DEF InUse, Served, One, TypeOK
  <2>9. curPosted \in Nat /\ fails \in Nat /\ curID \in Nat /\ MaxClient \in Nat
        /\ Cardinality(Joining) \in Nat /\ Cardinality(Unposted) \in Nat
        /\ Cardinality(Accepting) \in Nat
    BY <1>0, HoldersFinite, PoolFinite, MMOSessionAssumption DEF TypeOK
  <2>10. o = "accepted" \/ o = "refused"
    BY <1>5, <1>13
  <2>15. EnterOK'
    BY <1>0, <1>9, <1>10 DEF EnterOK, SameModes
  <2>11. CountersExact'
    BY <1>0, <2>3, <2>5, <2>7, <2>8, <2>9, <2>10 DEF CountersExact, One
  <2>12. PostedOK'
    BY <1>0, <1>4, <2>3, <2>7, <2>8, <2>9, <2>10 DEF PostedOK, One
  <2>13. ClientsOK'
    BY <1>0, <2>3, <2>5, <2>8, <2>9 DEF ClientsOK, One
  <2>14. ModeOK'
    BY <1>0, <1>9 DEF ModeOK, SameModes
  <2> QED
    BY <1>7, <1>8, <1>11, <2>6, <2>11, <2>12, <2>13, <2>14, <2>15 DEF SessionInv
<1> QED
  BY <1>12, <1>13

(* w goes on from one step of Accept_Complete to the next.                  *)
Joiner == {"handle", "port", "posted", "user", "release"}

LEMMA JoinsUse ==
    ASSUME TypeOK, NEW w \in Worker, NEW s \in Session, NEW from \in Joiner, NEW to \in Joiner,
           Joins(w, s, from, to), UNCHANGED <<task, sender>>
    PROVE  /\ \E r \in WorkerRec : /\ worker' = [worker EXCEPT ![w] = r]
                                    /\ r.step = to /\ r.session = s
           /\ worker[w].step = from /\ worker[w].session = s
           /\ worker' \in [Worker -> WorkerRec]
           /\ SameHolders
           /\ \A x \in Worker : worker[x].step = "exit" => worker'[x].step = "exit"
<1> DEFINE r == [worker[w] EXCEPT !.step = to]
<1>1. worker[w] \in WorkerRec
  BY DEF TypeOK, WorkerRec
<1>2. r \in WorkerRec /\ r.step = to /\ r.session = worker[w].session
  BY <1>1 DEF WorkerRec, WorkerStep, Joiner
<1>3. worker[w].step = from /\ worker[w].session = s /\ worker' = [worker EXCEPT ![w] = r]
  BY DEF Joins
<1> HIDE DEF r
<1>4. worker' \in [Worker -> WorkerRec]
  BY <1>2, <1>3 DEF TypeOK, WorkerRec
<1>5. SameHolders
  BY <1>2, <1>3, WorkerHoldsOn DEF HoldsAs, Joiner
<1>6. \A x \in Worker : worker[x].step = "exit" => worker'[x].step = "exit"
  BY <1>3 DEF TypeOK, Joiner
<1> QED
  BY <1>2, <1>3, <1>4, <1>5, <1>6

(* What that makes of the workers that join a client, or let one in.        *)
LEMMA JoinsCounts ==
    ASSUME TypeOK, NEW w \in Worker, NEW s \in Session, NEW from \in Joiner, NEW to \in Joiner,
           Joins(w, s, from, to), UNCHANGED <<task, sender>>, to # "handle"
    PROVE  /\ from # "handle" => /\ Joining' = Joining
                                 /\ \A x \in Session : JoiningAt(x)' = JoiningAt(x)
           /\ from = "handle" /\ worker[w].outcome = "accepted" =>
                /\ Cardinality(Joining)' = Cardinality(Joining) - 1 /\ Cardinality(Joining) >= 1
                /\ Cardinality(JoiningAt(s)) >= 1
                /\ \A x \in Session :
                     Cardinality(JoiningAt(x))' = Cardinality(JoiningAt(x)) - One(x = s)
           /\ from # "handle" \/ worker[w].outcome = "accepted" =>
                Cardinality(Unposted)' = Cardinality(Unposted) + One(to \in {"port", "posted"})
                                         - One(from \in {"handle", "port", "posted"})
           /\ from \in {"port", "posted"} => Cardinality(Unposted) >= 1
           /\ w \in Entering(s) <=> from \in {"port", "posted", "user"}
           /\ w \in Entering(s)' <=> to \in {"port", "posted", "user"}
           /\ Entering(s) \ {w} = Entering(s)' \ {w}
           /\ \A x \in Session : x # s => Entering(x)' = Entering(x)
<1>0. worker[w].step = from /\ worker[w].session = s
  BY JoinsUse
<1>11. PICK r \in WorkerRec : worker' = [worker EXCEPT ![w] = r] /\ r.step = to /\ r.session = s
  BY JoinsUse
<1>1. /\ worker' = [worker EXCEPT ![w] = r] /\ r.step = to /\ r.session = s
      /\ worker[w].step = from /\ worker[w].session = s
  BY <1>0, <1>11
<1>2. worker'[w] = r /\ \A x \in Worker \ {w} : worker'[x] = worker[x]
  BY <1>1 DEF TypeOK
<1>3. /\ ~JoinsAs(r) /\ (UnpostedAs(r) <=> to \in {"port", "posted"})
      /\ JoinsAs(worker[w]) <=> from = "handle" /\ worker[w].outcome = "accepted"
      /\ UnpostedAs(worker[w]) <=>
           (from = "handle" /\ worker[w].outcome = "accepted") \/ from \in {"port", "posted"}
  BY <1>1 DEF JoinsAs, UnpostedAs
<1>4. /\ Cardinality(Joining)' = Cardinality(Joining) + One(JoinsAs(r)) - One(JoinsAs(worker[w]))
      /\ Cardinality(Joining) >= One(JoinsAs(worker[w]))
      /\ Cardinality(JoiningAt(s)) >= One(JoinsAs(worker[w]) /\ worker[w].session = s)
      /\ Cardinality(Unposted)'
           = Cardinality(Unposted) + One(UnpostedAs(r)) - One(UnpostedAs(worker[w]))
      /\ Cardinality(Unposted) >= One(UnpostedAs(worker[w]))
  BY <1>1, WorkerCounts
<1>5. \A x \in Session : Cardinality(JoiningAt(x))'
         = Cardinality(JoiningAt(x)) + One(JoinsAs(r) /\ r.session = x)
           - One(JoinsAs(worker[w]) /\ worker[w].session = x)
  BY <1>1, JoiningCounts
<1>6. /\ Cardinality(Joining) \in Nat /\ Cardinality(Unposted) \in Nat
      /\ \A x \in Session : Cardinality(JoiningAt(x)) \in Nat
  BY HoldersFinite
<1>7. from # "handle" => Joining' = Joining /\ \A x \in Session : JoiningAt(x)' = JoiningAt(x)
  BY <1>1, <1>2, <1>3 DEF Joining, JoiningAt, JoinsAs
<1>8. from = "handle" /\ worker[w].outcome = "accepted" =>
        /\ Cardinality(Joining)' = Cardinality(Joining) - 1 /\ Cardinality(Joining) >= 1
        /\ Cardinality(JoiningAt(s)) >= 1
        /\ \A x \in Session : Cardinality(JoiningAt(x))' = Cardinality(JoiningAt(x)) - One(x = s)
  BY <1>1, <1>3, <1>4, <1>5, <1>6 DEF One
<1>9. /\ from # "handle" \/ worker[w].outcome = "accepted" =>
           Cardinality(Unposted)' = Cardinality(Unposted) + One(to \in {"port", "posted"})
                                    - One(from \in {"handle", "port", "posted"})
      /\ from \in {"port", "posted"} => Cardinality(Unposted) >= 1
  BY <1>3, <1>4, <1>6 DEF One, Joiner
<1>10. /\ w \in Entering(s) <=> from \in {"port", "posted", "user"}
       /\ w \in Entering(s)' <=> to \in {"port", "posted", "user"}
       /\ Entering(s) \ {w} = Entering(s)' \ {w}
       /\ \A x \in Session : x # s => Entering(x)' = Entering(x)
  BY <1>1, <1>2 DEF Entering
<1> QED
  BY <1>7, <1>8, <1>9, <1>10

LEMMA Accept_CompleteKeeps ==
    ASSUME SessionInv, NEW w \in Worker, NEW s \in Session, Accept_Complete(w, s)
    PROVE  SessionInv'
<1>0. TypeOK /\ IoCountExact /\ CountersExact /\ PlacesOK /\ ModeOK /\ TaskOK /\ EnterOK /\ ClientsOK /\ PostedOK
  BY DEF SessionInv
<1> DEFINE r == Joined(session[s], curID + 1)
<1>1. /\ worker[w].outcome = "accepted" /\ Joins(w, s, "handle", "port") /\ Set(s, r)
      /\ curID' = curID + 1
      /\ line' = [line EXCEPT ![s] = "open"]
      /\ UNCHANGED <<posted, task, sender, acceptor, main, indexQueue, curPosted, curUser,
                     fails, lost, bound, freed, crash>>
  BY DEF Accept_Complete
<1>2. /\ worker' \in [Worker -> WorkerRec] /\ SameHolders
      /\ worker[w].step = "handle"
      /\ \A x \in Worker : worker[x].step = "exit" => worker'[x].step = "exit"
  BY <1>0, <1>1, JoinsUse DEF Joiner
<1>3. /\ Cardinality(Joining)' = Cardinality(Joining) - 1 /\ Cardinality(Joining) >= 1
      /\ Cardinality(JoiningAt(s)) >= 1
      /\ \A x \in Session : Cardinality(JoiningAt(x))' = Cardinality(JoiningAt(x)) - One(x = s)
      /\ Cardinality(Unposted)' = Cardinality(Unposted) + 1 - 1
      /\ w \in Entering(s)'
      /\ Entering(s) \ {w} = Entering(s)' \ {w} /\ w \notin Entering(s)
      /\ \A x \in Session : x # s => Entering(x)' = Entering(x)
  <2>1. One("port" \in {"port", "posted"}) = 1 /\ One("handle" \in {"handle", "port", "posted"}) = 1
    BY DEF One
  <2> QED
    BY <1>0, <1>1, <2>1, JoinsCounts DEF Joiner
<1>4. /\ curID \in Nat /\ MaxClient \in Nat /\ Cardinality(Joining) \in Nat
      /\ Cardinality(Unposted)' = Cardinality(Unposted)
  BY <1>0, <1>3, HoldersFinite, MMOSessionAssumption DEF TypeOK
<1>5. curID + 1 \in Client
  BY <1>0, <1>3, <1>4 DEF ClientsOK, Client
<1>6. /\ r \in SessionRec /\ r.mode = "AUTH" /\ r.clientID = curID + 1 /\ ~r.bDisconnect
      /\ r.ioCount = session[s].ioCount
  BY <1>0, <1>5, JoinedUse DEF TypeOK
<1> HIDE DEF r
<1>7. /\ session' \in [Session -> SessionRec] /\ session'[s] = r
      /\ \A x \in Session : x # s => session'[x] = session[x]
  BY <1>0, <1>1, <1>6, SetUse
<1>8. session[s].mode = "NONE" /\ Entering(s) = {}
  BY <1>0, <1>3, PlacesType DEF PlacesOK, EnterOK, One
<1>9. main \in {"run", "off", "shut", "worker"} /\ UNCHANGED main
  BY <1>0, <1>1, <1>2 DEF PostedOK
<1>10. TypeOK'
  <2>1. line' \in [Session -> {"none", "open", "closed", "shut"}] /\ curID' \in Nat
    BY <1>0, <1>1, <1>4 DEF TypeOK
  <2> QED
    BY <1>0, <1>1, <1>2, <1>7, <2>1 DEF TypeOK, WorkerRec
<1>11. IoCountExact'
  BY <1>0, <1>1, <1>2, <1>6, <1>7, IoKept DEF SameCounts
<1>12. \A x \in Session : Places(x)' = Places(x)
  <2> SUFFICES ASSUME NEW x \in Session PROVE Places(x)' = Places(x)
    OBVIOUS
  <2>1. Places(x)' = Cardinality(PlacesOf(indexQueue, x)) + posted[x]["accept"]
                     + (Cardinality(JoiningAt(x)) - One(x = s)) + One(session'[x].mode # "NONE")
    BY <1>1, <1>3 DEF Places, PlacesOf, One
  <2>2. One(session'[x].mode # "NONE") = One(session[x].mode # "NONE") + One(x = s)
    BY <1>6, <1>7, <1>8 DEF One
  <2>3. One(x = s) \in Nat /\ One(session[x].mode # "NONE") \in Nat
    BY DEF One
  <2>4. /\ Cardinality(PlacesOf(indexQueue, x)) \in Nat /\ posted[x]["accept"] \in Nat
        /\ Cardinality(JoiningAt(x)) \in Nat
        /\ Places(x) = Cardinality(PlacesOf(indexQueue, x)) + posted[x]["accept"]
                       + Cardinality(JoiningAt(x)) + One(session[x].mode # "NONE")
    BY <1>0, PlacesType
  <2> QED
    BY <2>1, <2>2, <2>3, <2>4
<1>13. PlacesOK'
  BY <1>0, <1>1, <1>12 DEF PlacesOK, SessionInOnePlace, Listening
<1>14. Served' = Served /\ Accepting' = Accepting
  BY <1>1, <1>3, <1>7, <1>8 DEF InUse, Served, Accepting
<1>15. CountersExact' /\ PostedOK'
  BY <1>0, <1>1, <1>4, <1>9, <1>14 DEF CountersExact, PostedOK, Listening
<1>16. ClientsOK'
  BY <1>0, <1>1, <1>3, <1>4 DEF ClientsOK
<1>17. ModeOK'
  BY <1>0, <1>4, <1>6, <1>7 DEF ModeOK
<1>18. EnterOK'
  <2>1. \A v \in Entering(s)' : v = w
    BY <1>3, <1>8
  <2>2. session'[s].mode # "NONE"
    BY <1>6, <1>7
  <2> QED
    BY <1>0, <1>3, <1>7, <2>1, <2>2 DEF EnterOK
<1>19. TaskOK'
  BY <1>0, <1>1, <1>3, <1>7, <1>8, TaskKept
<1> QED
  BY <1>10, <1>11, <1>13, <1>15, <1>16, <1>17, <1>18, <1>19 DEF SessionInv

(* A step that moves no session from its place.                             *)
LEMMA UseStep ==
    ASSUME SessionInv, TypeOK', IoCountExact', SameModes, SamePool, SameAccepts, SameJoins, TaskOK'
    PROVE  SessionInv'
  BY PoolKept DEF SessionInv

LEMMA SetIoCompletionPortKeeps ==
    ASSUME SessionInv, NEW w \in Worker, NEW s \in Session, SetIoCompletionPort(w, s)
    PROVE  SessionInv'
<1>0. TypeOK /\ IoCountExact /\ TaskOK
  BY DEF SessionInv
<1>1. /\ Joins(w, s, "port", "posted")
      /\ UNCHANGED <<line, task, sender, acceptor, main, indexQueue, curPosted, curUser, curID,
                     fails, lost, freed, crash>>
      /\ bound' \subseteq Session
  BY <1>0 DEF SetIoCompletionPort, TypeOK
<1>2. session[s] \in SessionRec
  BY <1>0 DEF TypeOK
<1>3. /\ session' \in [Session -> SessionRec]
      /\ SameUse(session[s], session'[s])
      /\ \A x \in Session : x # s => session'[x] = session[x]
      /\ posted' \in [Session -> [Op -> Nat]] /\ SameAccepts
      /\ \A x \in Session : x # s => posted'[x] = posted[x]
      /\ posted'[s]["send"] = posted[s]["send"]
      /\ session'[s].ioCount - session[s].ioCount = posted'[s]["recv"] - posted[s]["recv"]
  <2>1. CASE Recv_Post(s, session[s])
    BY <1>0, <1>2, <2>1, RecvUse
  <2>2. CASE UNCHANGED <<session, posted>>
    <3>1. session[s].ioCount \in Int /\ posted[s]["recv"] \in Nat
      BY <1>0, <1>2 DEF TypeOK, SessionRec, Op
    <3> QED
      BY <1>0, <2>2, <3>1, PostedKept DEF TypeOK, SameUse
  <2> QED
    BY <2>1, <2>2 DEF SetIoCompletionPort
<1>4. worker' \in [Worker -> WorkerRec] /\ SameHolders
  BY <1>0, <1>1, JoinsUse DEF Joiner
<1>5. SameJoins
  <2>1. worker[w].step = "port" /\ worker[w].session = s
    BY <1>1 DEF Joins
  <2>2. PICK r \in WorkerRec : /\ worker' = [worker EXCEPT ![w] = r]
                              /\ r.step = "posted" /\ r.session = s
    BY <1>0, <1>1, JoinsUse DEF Joiner
  <2>3. /\ ~JoinsAs(worker[w]) /\ ~JoinsAs(r) /\ worker[w].step # "exit"
        /\ UnpostedAs(worker[w]) /\ UnpostedAs(r)
        /\ \A x \in Session : EntersAs(worker[w], x) <=> EntersAs(r, x)
    BY <2>1, <2>2 DEF JoinsAs, UnpostedAs, EntersAs
  <2> QED
    BY <1>0, <2>2, <2>3, JoinsKept
<1>6. TypeOK'
  BY <1>0, <1>1, <1>3, <1>4 DEF TypeOK, WorkerRec
<1>7. SameUses
  BY <1>3 DEF SameUses, SameUse
<1>8. IoCountExact'
  <2>1. \A o \in {"accept", "recv", "send"} : posted[s][o] \in Nat /\ posted'[s][o] \in Nat
    BY <1>0, <1>3 DEF TypeOK, Op
  <2>2. session'[s].ioCount - session[s].ioCount
          = posted'[s]["accept"] - posted[s]["accept"] + posted'[s]["recv"] - posted[s]["recv"]
            + posted'[s]["send"] - posted[s]["send"]
    BY <1>3, <2>1 DEF SameAccepts
  <2>3. ~crash'
    BY <1>0, <1>1 DEF IoCountExact
  <2> QED
    BY <1>0, <1>3, <1>4, <1>6, <2>2, <2>3, IoPosted
<1>9. TaskOK'
  BY <1>0, <1>1, <1>5, <1>7, TaskKeptUse
<1> QED
  BY <1>1, <1>3, <1>5, <1>6, <1>7, <1>8, <1>9, UseStep, UsesAreModes DEF SamePool

LEMMA PostedKeeps ==
    ASSUME SessionInv, NEW w \in Worker, NEW s \in Session, Accept_Complete_Posted(w, s)
    PROVE  SessionInv'
<1>0. TypeOK /\ IoCountExact /\ CountersExact /\ PlacesOK /\ ModeOK /\ TaskOK /\ EnterOK /\ ClientsOK /\ PostedOK
  BY DEF SessionInv
<1>1. /\ Joins(w, s, "posted", "user") /\ curPosted' = curPosted - 1
      /\ UNCHANGED <<session, line, posted, task, sender, acceptor, main, indexQueue,
                     curUser, curID, fails, lost, bound, freed, crash>>
  BY DEF Accept_Complete_Posted
<1>2. /\ worker' \in [Worker -> WorkerRec] /\ SameHolders
      /\ worker[w].step = "posted"
      /\ \A x \in Worker : worker[x].step = "exit" => worker'[x].step = "exit"
  BY <1>0, <1>1, JoinsUse DEF Joiner
<1>3. /\ Joining' = Joining /\ \A x \in Session : JoiningAt(x)' = JoiningAt(x)
      /\ Cardinality(Unposted)' = Cardinality(Unposted) + 0 - 1
      /\ Cardinality(Unposted) >= 1
      /\ \A x \in Session : Entering(x)' = Entering(x)
  <2>1. One("user" \in {"port", "posted"}) = 0 /\ One("posted" \in {"handle", "port", "posted"}) = 1
    BY DEF One
  <2> QED
    BY <1>0, <1>1, <2>1, JoinsCounts DEF Joiner
<1>4. /\ curPosted \in Nat /\ fails \in Nat
      /\ Cardinality(Unposted) \in Nat /\ Cardinality(Accepting) \in Nat
      /\ Cardinality(Unposted)' = Cardinality(Unposted) - 1
  BY <1>0, <1>3, HoldersFinite, PoolFinite DEF TypeOK
<1>5. main \in {"run", "off", "shut", "worker"} /\ UNCHANGED main
  BY <1>0, <1>1, <1>2 DEF PostedOK
<1>6. TypeOK'
  <2>1. curPosted' \in Nat
    BY <1>0, <1>1, <1>3, <1>4, <1>5 DEF PostedOK
  <2> QED
    BY <1>0, <1>1, <1>2, <2>1 DEF TypeOK, WorkerRec
<1>7. SameUses /\ SameModes /\ SameCounts
  BY <1>1, SessionKept, SessionCountsKept
<1>8. IoCountExact'
  BY <1>0, <1>1, <1>2, <1>7, IoKept
<1>9. Served' = Served /\ Accepting' = Accepting
  BY <1>1, <1>3 DEF InUse, Served, Accepting
<1>10. CountersExact' /\ PostedOK'
  BY <1>0, <1>1, <1>4, <1>5, <1>9 DEF CountersExact, PostedOK, Listening
<1>11. \A x \in Session : Places(x)' = Places(x)
  BY <1>1, <1>3 DEF Places
<1>12. PlacesOK'
  BY <1>0, <1>1, <1>11 DEF PlacesOK, SessionInOnePlace, Listening
<1>13. ModeOK' /\ EnterOK' /\ ClientsOK'
  BY <1>0, <1>1, <1>3 DEF ModeOK, EnterOK, ClientsOK
<1>14. TaskOK'
  BY <1>0, <1>1, <1>3, TaskKept
<1> QED
  BY <1>6, <1>8, <1>10, <1>12, <1>13, <1>14 DEF SessionInv

LEMMA UserKeeps ==
    ASSUME SessionInv, NEW w \in Worker, NEW s \in Session, Accept_Complete_User(w, s)
    PROVE  SessionInv'
<1>0. TypeOK /\ IoCountExact /\ CountersExact /\ PlacesOK /\ ModeOK /\ TaskOK /\ EnterOK /\ ClientsOK /\ PostedOK
  BY DEF SessionInv
<1>1. /\ Joins(w, s, "user", "release") /\ curUser' = curUser + 1
      /\ acceptor' = (IF acceptor = "asleep" THEN "check" ELSE acceptor)
      /\ UNCHANGED <<session, line, posted, task, sender, main, indexQueue, curPosted,
                     curID, fails, lost, bound, freed, crash>>
  BY DEF Accept_Complete_User, WakeAcceptor
<1>2. /\ worker' \in [Worker -> WorkerRec] /\ SameHolders
      /\ \A x \in Worker : worker[x].step = "exit" => worker'[x].step = "exit"
      /\ worker[w].step = "user"
  BY <1>0, <1>1, JoinsUse DEF Joiner
<1>3. /\ Joining' = Joining /\ \A x \in Session : JoiningAt(x)' = JoiningAt(x)
      /\ Cardinality(Unposted)' = Cardinality(Unposted) + 0 - 0
      /\ w \in Entering(s) /\ w \notin Entering(s)' /\ Entering(s) \ {w} = Entering(s)' \ {w}
      /\ \A x \in Session : x # s => Entering(x)' = Entering(x)
  <2>1. One("release" \in {"port", "posted"}) = 0 /\ One("user" \in {"handle", "port", "posted"}) = 0
    BY DEF One
  <2> QED
    BY <1>0, <1>1, <2>1, JoinsCounts DEF Joiner
<1>4. Cardinality(Unposted)' = Cardinality(Unposted)
  BY <1>3, HoldersFinite
<1>5. Entering(s)' = {} /\ Entering(s) # {} /\ session[s].mode # "NONE"
  BY <1>0, <1>3 DEF EnterOK
<1>6. main \in {"run", "off", "shut", "worker"} /\ UNCHANGED main
  BY <1>0, <1>1, <1>2 DEF PostedOK
<1>7. TypeOK'
  <2>1. curUser' \in Nat /\ acceptor' \in {"check", "drowsy", "asleep", "go", "exit"}
    BY <1>0, <1>1 DEF TypeOK
  <2> QED
    BY <1>0, <1>1, <1>2, <2>1 DEF TypeOK, WorkerRec
<1>8. SameUses /\ SameModes /\ SameCounts
  BY <1>1, SessionKept, SessionCountsKept
<1>9. IoCountExact'
  BY <1>0, <1>1, <1>2, <1>8, IoKept
<1>10. Cardinality(Served)' = Cardinality(Served) + 1
  <2>1. s \notin Served /\ s \in Served' /\ Served \ {s} = Served' \ {s}
    BY <1>1, <1>3, <1>5 DEF InUse, Served
  <2>2. Cardinality(Served') = Cardinality(Served) + One(s \in Served') - One(s \in Served)
    BY <2>1, PoolFinite, CountStep
  <2> QED
    BY <2>1, <2>2, PoolFinite DEF One
<1>11. Accepting' = Accepting
  BY <1>1 DEF Accepting
<1>12. CountersExact' /\ PostedOK'
  BY <1>0, <1>1, <1>4, <1>6, <1>10, <1>11 DEF CountersExact, PostedOK, Listening
<1>13. \A x \in Session : Places(x)' = Places(x)
  BY <1>1, <1>3 DEF Places
<1>14. PlacesOK'
  BY <1>0, <1>1, <1>13 DEF PlacesOK, SessionInOnePlace, Listening
<1>15. EnterOK'
  BY <1>0, <1>1, <1>3, <1>5 DEF EnterOK
<1>16. ModeOK' /\ ClientsOK'
  BY <1>0, <1>1, <1>3 DEF ModeOK, ClientsOK
<1>17. \A x \in Session : Entering(x)' \subseteq Entering(x)
  BY <1>3, <1>5
<1>18. TaskOK'
  BY <1>0, <1>1, <1>17, TaskKept
<1> QED
  BY <1>7, <1>9, <1>12, <1>14, <1>15, <1>16, <1>18 DEF SessionInv

LEMMA Recv_CompleteKeeps ==
    ASSUME SessionInv, NEW w \in Worker, NEW s \in Session, Recv_Complete(w, s)
    PROVE  SessionInv'
<1>0. TypeOK /\ IoCountExact /\ TaskOK
  BY DEF SessionInv
<1>1. /\ Handles(w, s, "received") /\ Recv_Post(s, session[s])
      /\ UNCHANGED <<line, task, sender, acceptor, main, poolVars, crash>>
  BY DEF Recv_Complete
<1>2. worker' \in [Worker -> WorkerRec] /\ SameHolders /\ SameJoins
  BY <1>0, <1>1, HandlesUse
<1>3. session[s] \in SessionRec
  BY <1>0 DEF TypeOK
<1>4. /\ session' \in [Session -> SessionRec]
      /\ SameUse(session[s], session'[s])
      /\ \A x \in Session : x # s => session'[x] = session[x]
      /\ posted' \in [Session -> [Op -> Nat]] /\ SameAccepts
      /\ \A x \in Session : x # s => posted'[x] = posted[x]
      /\ posted'[s]["send"] = posted[s]["send"]
      /\ session'[s].ioCount - session[s].ioCount = posted'[s]["recv"] - posted[s]["recv"]
  BY <1>0, <1>1, <1>3, RecvUse
<1>5. TypeOK'
  BY <1>0, <1>1, <1>2, <1>4 DEF TypeOK, WorkerRec, poolVars
<1>6. SameUses
  BY <1>4 DEF SameUses, SameUse
<1>7. IoCountExact'
  <2>1. \A o \in {"accept", "recv", "send"} : posted[s][o] \in Nat /\ posted'[s][o] \in Nat
    BY <1>0, <1>4 DEF TypeOK, Op
  <2>2. session'[s].ioCount - session[s].ioCount
          = posted'[s]["accept"] - posted[s]["accept"] + posted'[s]["recv"] - posted[s]["recv"]
            + posted'[s]["send"] - posted[s]["send"]
    BY <1>4, <2>1 DEF SameAccepts
  <2>3. ~crash'
    BY <1>0, <1>1 DEF IoCountExact
  <2> QED
    BY <1>0, <1>2, <1>4, <1>5, <2>2, <2>3, IoPosted
<1>8. TaskOK'
  BY <1>0, <1>1, <1>2, <1>6, TaskKeptUse
<1> QED
  BY <1>1, <1>2, <1>4, <1>5, <1>6, <1>7, <1>8, UseStep, UsesAreModes DEF SamePool, poolVars

LEMMA ReleaseKeeps ==
    ASSUME SessionInv, NEW w \in Worker, NEW s \in Session, Update_WorkerThread_Release(w, s)
    PROVE  SessionInv'
<1>0. TypeOK /\ IoCountExact /\ TaskOK
  BY DEF SessionInv
<1> DEFINE r == IF session[s].ioCount - 1 = 0
                THEN [worker[w] EXCEPT !.step = "flag"] ELSE NoWork
           q == Count(session[s], -1)
<1>1. /\ worker[w].step = "release" /\ worker[w].session = s
      /\ worker' = [worker EXCEPT ![w] = r] /\ Set(s, q)
      /\ crash' = (session[s].ioCount - 1 < 0)
      /\ UNCHANGED <<line, posted, task, sender, acceptor, main, poolVars>>
  BY DEF Update_WorkerThread_Release
<1>2. r \in WorkerRec /\ r.step \in {"flag", "idle"}
  BY <1>0 DEF TypeOK, WorkerRec, NoWork, WorkerStep, Outcome
<1>3. /\ q \in SessionRec /\ SameUse(session[s], q) /\ q.ioCount = session[s].ioCount - 1
      /\ session[s].ioCount \in Int
  <2>1. session[s] \in SessionRec
    BY <1>0 DEF TypeOK
  <2>2. session[s].ioCount \in Int
    BY <2>1 DEF SessionRec
  <2>3. /\ q \in SessionRec /\ SameUse(session[s], q)
        /\ q.ioCount = session[s].ioCount + (-1)
    BY <2>1, CountUse
  <2> QED
    BY <2>2, <2>3
<1> HIDE DEF r, q
<1>4. /\ session' \in [Session -> SessionRec]
      /\ session'[s].ioCount = session[s].ioCount - 1
      /\ \A x \in Session : x # s => session'[x] = session[x]
      /\ SameUses /\ SameModes
  BY <1>0, <1>1, <1>3, SetUse
<1>5. /\ (\A x : HoldsAs(worker[w], x) <=> x = s) /\ (\A x : ~HoldsAs(r, x))
      /\ ~JoinsAs(worker[w]) /\ ~JoinsAs(r) /\ worker[w].step # "exit"
      /\ ~UnpostedAs(worker[w]) /\ ~UnpostedAs(r)
      /\ \A x : ~EntersAs(worker[w], x) /\ ~EntersAs(r, x)
  BY <1>1, <1>2 DEF HoldsAs, JoinsAs, UnpostedAs, EntersAs
<1>6. ~crash'
  <2>1. Cardinality(HoldingWorkers(s)) >= One(HoldsAs(worker[w], s))
    BY <1>0, <1>1, WorkerCounts
  <2>2. session[s].ioCount >= Cardinality(HoldingWorkers(s)) /\ Cardinality(HoldingWorkers(s)) \in Nat
    BY <1>0, IoAtLeast, HoldersFinite
  <2>3. One(HoldsAs(worker[w], s)) = 1
    BY <1>5 DEF One
  <2>4. ~(session[s].ioCount - 1 < 0)
    BY <1>3, <2>1, <2>2, <2>3
  <2> QED
    BY <1>1, <2>4
<1>7. TypeOK'
  BY <1>0, <1>1, <1>2, <1>4 DEF TypeOK, WorkerRec, poolVars
<1>8. IoCountExact'
  <2>1. One(HoldsAs(worker[w], s)) = 1 /\ One(HoldsAs(r, s)) = 0
    BY <1>5 DEF One
  <2>2. posted' = posted /\ \A o \in {"accept", "recv", "send"} : posted[s][o] \in Nat
    BY <1>0, <1>1 DEF TypeOK, Op
  <2>3. session'[s].ioCount - session[s].ioCount
          = posted'[s]["accept"] - posted[s]["accept"] + posted'[s]["recv"] - posted[s]["recv"]
            + posted'[s]["send"] - posted[s]["send"]
            + One(HoldsAs(r, s)) - One(HoldsAs(worker[w], s))
    BY <1>3, <1>4, <2>1, <2>2
  <2>4. \A x \in Session : x # s => /\ session'[x].ioCount = session[x].ioCount
                                    /\ posted'[x] = posted[x]
                                    /\ HoldsAs(r, x) <=> HoldsAs(worker[w], x)
    BY <1>4, <1>5, <2>2
  <2>5. worker' = [worker EXCEPT ![w] = r] /\ UNCHANGED <<task, sender>>
    BY <1>1
  <2> QED
    BY <1>0, <1>6, <1>7, <2>3, <2>4, <2>5, IoWorker
<1>9. SameJoins
  BY <1>0, <1>1, <1>5, JoinsKept
<1>10. TaskOK' /\ SamePool /\ SameAccepts
  BY <1>0, <1>1, <1>4, <1>9, TaskKeptUse, PostedKept DEF SamePool, poolVars
<1> QED
  BY <1>4, <1>7, <1>8, <1>9, <1>10, UseStep

(* What follows the release: the mark, and the packets that are dropped.    *)
LEMMA AfterRelease ==
    ASSUME SessionInv, NEW w \in Worker, NEW s \in Session, NEW q \in SessionRec, Set(s, q),
           SameUse(session[s], q), q.ioCount = session[s].ioCount,
           NEW r \in WorkerRec, worker' = [worker EXCEPT ![w] = r],
           worker[w].step \in {"flag", "free"}, r.step \in {"free", "idle"},
           UNCHANGED <<line, posted, task, sender, acceptor, main, poolVars, crash>>
    PROVE  SessionInv'
<1>0. TypeOK /\ IoCountExact /\ TaskOK
  BY DEF SessionInv
<1>1. session' \in [Session -> SessionRec] /\ SameUses /\ SameModes /\ SameCounts
  BY <1>0, SetPlain
<1>2. /\ \A x \in Session : HoldsAs(worker[w], x) <=> HoldsAs(r, x)
      /\ ~JoinsAs(worker[w]) /\ ~JoinsAs(r) /\ worker[w].step # "exit"
      /\ ~UnpostedAs(worker[w]) /\ ~UnpostedAs(r)
      /\ \A x : ~EntersAs(worker[w], x) /\ ~EntersAs(r, x)
  BY DEF HoldsAs, JoinsAs, UnpostedAs, EntersAs
<1>3. SameHolders /\ SameJoins
  BY <1>0, <1>2, WorkerHoldsOn, JoinsKept
<1>4. TypeOK'
  BY <1>0, <1>1 DEF TypeOK, WorkerRec, poolVars
<1>5. IoCountExact'
  BY <1>0, <1>1, <1>3, IoKept
<1>6. TaskOK' /\ SamePool /\ SameAccepts
  BY <1>0, <1>1, <1>3, TaskKeptUse, PostedKept DEF SamePool, poolVars
<1> QED
  BY <1>1, <1>3, <1>4, <1>5, <1>6, UseStep

LEMMA FlagKeeps ==
    ASSUME SessionInv, NEW w \in Worker, NEW s \in Session, Update_WorkerThread_Flag(w, s)
    PROVE  SessionInv'
<1> DEFINE q == [session[s] EXCEPT !.bLogoutFlag = TRUE]
           r == [worker[w] EXCEPT !.step = "free"]
<1>1. /\ worker[w].step = "flag" /\ Set(s, q) /\ worker' = [worker EXCEPT ![w] = r]
      /\ UNCHANGED <<line, posted, task, sender, acceptor, main, poolVars, crash>>
  BY DEF Update_WorkerThread_Flag
<1>2. q \in SessionRec /\ SameUse(session[s], q) /\ q.ioCount = session[s].ioCount
  BY FlagUse DEF SessionInv, TypeOK
<1>3. r \in WorkerRec /\ r.step = "free"
  BY DEF SessionInv, TypeOK, WorkerRec, WorkerStep
<1> HIDE DEF q, r
<1> QED
  BY <1>1, <1>2, <1>3, AfterRelease

LEMMA FreeKeeps ==
    ASSUME SessionInv, NEW w \in Worker, NEW s \in Session, Update_WorkerThread_Free(w, s)
    PROVE  SessionInv'
<1> DEFINE q == [FreeSentPacket(session[s]) EXCEPT !.sendIO = 0]
<1>1. /\ worker[w].step = "free" /\ Set(s, q) /\ worker' = [worker EXCEPT ![w] = NoWork]
      /\ UNCHANGED <<line, posted, task, sender, acceptor, main, poolVars, crash>>
  BY DEF Update_WorkerThread_Free
<1>2. q \in SessionRec /\ SameUse(session[s], q) /\ q.ioCount = session[s].ioCount
  BY SentUse DEF SessionInv, TypeOK
<1>3. NoWork \in WorkerRec /\ NoWork.step = "idle"
  BY DEF WorkerRec, WorkerStep, Outcome, NoWork
<1> HIDE DEF q
<1> QED
  BY <1>1, <1>2, <1>3, AfterRelease

LEMMA WorkerExitKeeps ==
    ASSUME SessionInv, NEW w \in Worker, Update_WorkerThread_Exit(w) PROVE SessionInv'
<1>0. TypeOK /\ IoCountExact /\ TaskOK
  BY DEF SessionInv
<1> DEFINE r == [worker[w] EXCEPT !.step = "exit"]
<1>1. /\ worker[w].step = "idle" /\ worker' = [worker EXCEPT ![w] = r]
      /\ UNCHANGED <<session, line, posted, task, sender, acceptor, main, poolVars, crash>>
  BY DEF Update_WorkerThread_Exit
<1>2. r \in WorkerRec /\ r.step = "exit"
  BY <1>0 DEF TypeOK, WorkerRec, WorkerStep
<1> HIDE DEF r
<1>3. /\ \A x \in Session : HoldsAs(worker[w], x) <=> HoldsAs(r, x)
      /\ ~JoinsAs(worker[w]) /\ ~JoinsAs(r)
      /\ ~UnpostedAs(worker[w]) /\ ~UnpostedAs(r)
      /\ \A x : ~EntersAs(worker[w], x) /\ ~EntersAs(r, x)
  BY <1>1, <1>2 DEF HoldsAs, JoinsAs, UnpostedAs, EntersAs
<1>4. SameHolders /\ SameJoins
  BY <1>0, <1>1, <1>2, <1>3, WorkerHoldsOn, JoinsKept
<1>5. SameUses /\ SameModes /\ SameCounts /\ SameAccepts /\ SamePool
  BY <1>1, SessionKept, SessionCountsKept, PostedKept DEF SamePool, poolVars
<1>6. TypeOK'
  BY <1>0, <1>1, <1>2 DEF TypeOK, WorkerRec, poolVars
<1>7. IoCountExact' /\ TaskOK'
  BY <1>0, <1>1, <1>4, <1>5, IoKept, TaskKeptUse
<1> QED
  BY <1>4, <1>5, <1>6, <1>7, UseStep

-----------------------------------------------------------------------------
(* The steps of the send thread.                                            *)

SenderRec == [step : SenderStep, session : Session \cup {NoSession}]

Sends(r, s) == r = [step |-> "send", session |-> s]

(* The send thread goes from p to r: s gains as many references as are      *)
(* posted on it and held by the thread.                                     *)
LEMMA IoSender ==
    ASSUME TypeOK, TypeOK', IoCountExact, NEW s \in Session, UNCHANGED <<worker, task>>, ~crash',
           session'[s].ioCount - session[s].ioCount
             = posted'[s]["send"] - posted[s]["send"]
               + One(Sends(sender', s)) - One(Sends(sender, s)),
           posted'[s]["accept"] = posted[s]["accept"], posted'[s]["recv"] = posted[s]["recv"],
           \A x \in Session : x # s => /\ session'[x].ioCount = session[x].ioCount
                                       /\ posted'[x] = posted[x]
                                       /\ ~Sends(sender, x) /\ ~Sends(sender', x)
    PROVE  IoCountExact'
<1> DEFINE sends == One(sender = [step |-> "send", session |-> s])
<1>1. sends \in Nat /\ sends' \in Nat
  BY DEF One
<1>2. \A x \in Session : HoldingWorkers(x)' = HoldingWorkers(x) /\ HoldingTasks(x)' = HoldingTasks(x)
  BY DEF HoldingTasks, HoldingWorkers
<1>3. \A o \in {"accept", "recv", "send"} : posted[s][o] \in Nat /\ posted'[s][o] \in Nat
  <2>1. posted \in [Session -> [Op -> Nat]] /\ posted' \in [Session -> [Op -> Nat]]
    BY DEF TypeOK
  <2> QED
    BY <2>1 DEF Op
<1>4. Cardinality(HoldingTasks(s)) \in Nat /\ Cardinality(HoldingWorkers(s)) \in Nat
  BY HoldersFinite
<1>5. session'[s].ioCount - session[s].ioCount = posted'[s]["send"] - posted[s]["send"] + sends' - sends
  BY DEF Sends
<1> HIDE DEF sends
<1>6. session'[s].ioCount - session[s].ioCount
        = posted'[s]["accept"] - posted[s]["accept"] + posted'[s]["recv"] - posted[s]["recv"]
          + posted'[s]["send"] - posted[s]["send"]
          + Cardinality(HoldingWorkers(s))' - Cardinality(HoldingWorkers(s))
          + Cardinality(HoldingTasks(s))' - Cardinality(HoldingTasks(s)) + sends' - sends
  BY <1>1, <1>2, <1>3, <1>4, <1>5
<1>7. \A x \in Session : x # s =>
        /\ session'[x].ioCount = session[x].ioCount
        /\ posted'[x] = posted[x]
        /\ Cardinality(HoldingWorkers(x))' = Cardinality(HoldingWorkers(x))
        /\ Cardinality(HoldingTasks(x))' = Cardinality(HoldingTasks(x))
        /\ (sender' = [step |-> "send", session |-> x])
             <=> (sender = [step |-> "send", session |-> x])
  BY <1>2 DEF Sends
<1> QED
  BY <1>6, <1>7, IoMoves DEF sends

LEMMA SenderKeeps ==
    ASSUME SessionInv, TypeOK', IoCountExact', UNCHANGED UnchangedBySender, SameUses, SameAccepts
    PROVE  SessionInv'
  BY UsesAreModes, WorkerKept, TaskKeptUse, UseStep DEF SamePool, poolVars, UnchangedBySender,
     SessionInv

(* The send thread goes on; it neither takes a reference nor gives one back.*)
LEMMA SenderQuiet ==
    ASSUME SessionInv, sender' \in SenderRec, sender.step # "send", sender'.step # "send",
           session' \in [Session -> SessionRec], SameUses, SameCounts,
           UNCHANGED <<UnchangedBySender, posted, crash>>
    PROVE  SessionInv'
  BY IoKept, PostedKept, SenderKeeps DEF SessionInv, TypeOK, SenderRec, UnchangedBySender,
     poolVars, SameHolders, HoldingWorkers, HoldingTasks

LEMMA AtUse ==
    ASSUME TypeOK, NEW s \in Session, NEW k, At(s, k)
    PROVE  /\ sender.step = k /\ sender.session = s
           /\ \A j \in SenderStep : [sender EXCEPT !.step = j] = [step |-> j, session |-> s]
           /\ \A j \in SenderStep : [sender EXCEPT !.step = j] \in SenderRec
           /\ Idle \in SenderRec /\ Idle.step = "idle"
  BY DEF TypeOK, At, SenderRec, SenderStep, Idle

LEMMA ClaimKeeps ==
    ASSUME SessionInv, NEW s \in Session, Update_SendThread_Claim(s) PROVE SessionInv'
<1> DEFINE q == [session[s] EXCEPT !.sendIO = 1]
<1>1. /\ sender.step = "idle" /\ Set(s, q) /\ sender' = [step |-> "check", session |-> s]
      /\ UNCHANGED <<UnchangedBySender, posted, crash>>
  BY DEF Update_SendThread_Claim
<1>2. q \in SessionRec /\ SameUse(session[s], q) /\ q.ioCount = session[s].ioCount
  <2>1. session[s] \in SessionRec
    BY DEF SessionInv, TypeOK
  <2> QED
    BY <2>1 DEF SessionRec, SameUse
<1>3. sender' \in SenderRec /\ sender'.step = "check"
  BY <1>1 DEF SenderRec, SenderStep
<1> HIDE DEF q
<1>4. session' \in [Session -> SessionRec] /\ SameUses /\ SameCounts
  BY <1>1, <1>2, SetPlain DEF SessionInv
<1> QED
  BY <1>1, <1>3, <1>4, SenderQuiet

LEMMA CheckKeeps ==
    ASSUME SessionInv, NEW s \in Session, Update_SendThread_Check(s) PROVE SessionInv'
<1>0. TypeOK /\ session[s] \in SessionRec
  BY DEF SessionInv, TypeOK
<1>1. At(s, "check") /\ UNCHANGED <<UnchangedBySender, posted, crash>>
  BY DEF Update_SendThread_Check
<1>2. /\ sender.step = "check" /\ Idle \in SenderRec /\ Idle.step = "idle"
      /\ [sender EXCEPT !.step = "dequeue"] \in SenderRec
      /\ [sender EXCEPT !.step = "dequeue"].step = "dequeue"
  BY <1>0, <1>1, AtUse DEF SenderStep
<1> DEFINE q == [session[s] EXCEPT !.sendIO = 0]
<1>3. q \in SessionRec /\ SameUse(session[s], q) /\ q.ioCount = session[s].ioCount
  BY <1>0 DEF SessionRec, SameUse
<1>4. CASE Set(s, q) /\ sender' = Idle
  <2> HIDE DEF q
  <2>1. session' \in [Session -> SessionRec] /\ SameUses /\ SameCounts
    BY <1>0, <1>3, <1>4, SetPlain
  <2> QED
    BY <1>1, <1>2, <1>4, <2>1, SenderQuiet
<1>5. CASE sender' = [sender EXCEPT !.step = "dequeue"] /\ UNCHANGED session
  BY <1>0, <1>5, SessionKept, SessionCountsKept, <1>1, <1>2, SenderQuiet DEF TypeOK
<1> QED
  BY <1>4, <1>5 DEF Update_SendThread_Check

LEMMA DequeueKeeps ==
    ASSUME SessionInv, NEW s \in Session, Send_Post_Dequeue(s) PROVE SessionInv'
<1>0. TypeOK /\ session[s] \in SessionRec
  BY DEF SessionInv, TypeOK
<1> DEFINE q == [session[s] EXCEPT !.packetBuffer = session[s].sendq, !.sendq = <<>>]
<1>1. /\ At(s, "dequeue") /\ Set(s, q) /\ sender' = [sender EXCEPT !.step = "count"]
      /\ UNCHANGED <<UnchangedBySender, posted, crash>>
  BY DEF Send_Post_Dequeue
<1>2. <<>> \in Seq(Client) /\ session[s].sendq \in Seq(Client)
  BY <1>0 DEF SessionRec
<1>3. q \in SessionRec
  BY <1>0, <1>2 DEF SessionRec
<1>4. SameUse(session[s], q) /\ q.ioCount = session[s].ioCount
  BY <1>0 DEF SessionRec, SameUse
<1>5. sender.step = "dequeue" /\ sender' \in SenderRec /\ sender'.step = "count"
  <2>1. "count" \in SenderStep
    BY DEF SenderStep
  <2> QED
    BY <1>0, <1>1, <2>1, AtUse
<1> HIDE DEF q
<1>6. session' \in [Session -> SessionRec] /\ SameUses /\ SameCounts
  BY <1>0, <1>1, <1>3, <1>4, SetPlain
<1> QED
  BY <1>1, <1>5, <1>6, SenderQuiet

LEMMA UnsendKeeps ==
    ASSUME SessionInv, NEW s \in Session, Send_Post_Unsend(s) PROVE SessionInv'
<1>0. TypeOK /\ session[s] \in SessionRec
  BY DEF SessionInv, TypeOK
<1> DEFINE q == [FreeSentPacket(session[s]) EXCEPT !.sendIO = 0]
<1>1. /\ At(s, "unsend") \/ At(s, "unsend_last")
      /\ Set(s, q) /\ sender' \in {Idle, [sender EXCEPT !.step = "flag"]}
      /\ UNCHANGED <<UnchangedBySender, posted, crash>>
  BY DEF Send_Post_Unsend
<1>2. q \in SessionRec /\ SameUse(session[s], q) /\ q.ioCount = session[s].ioCount
  BY <1>0, SentUse
<1>3. sender.step \in {"unsend", "unsend_last"} /\ sender' \in SenderRec /\ sender'.step \in {"idle", "flag"}
  BY <1>0, <1>1, AtUse DEF SenderStep
<1> HIDE DEF q
<1>4. session' \in [Session -> SessionRec] /\ SameUses /\ SameCounts
  BY <1>0, <1>1, <1>2, SetPlain
<1> QED
  BY <1>1, <1>3, <1>4, SenderQuiet

LEMMA SendFlagKeeps ==
    ASSUME SessionInv, NEW s \in Session, Send_Post_Flag(s) PROVE SessionInv'
<1>0. TypeOK /\ session[s] \in SessionRec
  BY DEF SessionInv, TypeOK
<1> DEFINE q == [session[s] EXCEPT !.bLogoutFlag = TRUE]
<1>1. /\ At(s, "flag") /\ Set(s, q) /\ sender' = Idle
      /\ UNCHANGED <<UnchangedBySender, posted, crash>>
  BY DEF Send_Post_Flag
<1>2. q \in SessionRec /\ SameUse(session[s], q) /\ q.ioCount = session[s].ioCount
  BY <1>0, FlagUse
<1>3. sender.step = "flag" /\ sender' \in SenderRec /\ sender'.step = "idle"
  BY <1>0, <1>1, AtUse
<1> HIDE DEF q
<1>4. session' \in [Session -> SessionRec] /\ SameUses /\ SameCounts
  BY <1>0, <1>1, <1>2, SetPlain
<1> QED
  BY <1>1, <1>3, <1>4, SenderQuiet

LEMMA SenderExitKeeps ==
    ASSUME SessionInv, Update_SendThread_Exit PROVE SessionInv'
  BY SessionKept, SessionCountsKept, SenderQuiet DEF Update_SendThread_Exit, Idle, SenderRec,
     SenderStep, SessionInv, TypeOK, UnchangedBySender

LEMMA CountKeeps ==
    ASSUME SessionInv, NEW s \in Session, Send_Post_Count(s) PROVE SessionInv'
<1>0. TypeOK /\ IoCountExact /\ session[s] \in SessionRec
  BY DEF SessionInv, TypeOK
<1> DEFINE c == Count(session[s], 1)
           q == [c EXCEPT !.sendPacketSize = Len(session[s].packetBuffer)]
<1>1. /\ At(s, "count") /\ Set(s, q) /\ sender' = [sender EXCEPT !.step = "send"]
      /\ UNCHANGED <<UnchangedBySender, posted, crash>>
  BY DEF Send_Post_Count
<1>2. Len(session[s].packetBuffer) \in Nat /\ session[s].ioCount \in Int
  BY <1>0 DEF SessionRec
<1>3. c \in SessionRec /\ SameUse(session[s], c) /\ c.ioCount = session[s].ioCount + 1
  BY <1>0, CountUse
<1> HIDE DEF c
<1>4. q \in SessionRec /\ SameUse(session[s], q) /\ q.ioCount = session[s].ioCount + 1
  BY <1>2, <1>3 DEF SessionRec, SameUse
<1> HIDE DEF q
<1>5. sender.step = "count" /\ sender' \in SenderRec /\ sender' = [step |-> "send", session |-> s]
  BY <1>0, <1>1, AtUse DEF SenderStep
<1>6. /\ session' \in [Session -> SessionRec]
      /\ session'[s].ioCount = session[s].ioCount + 1
      /\ \A x \in Session : x # s => session'[x] = session[x]
      /\ SameUses
  BY <1>0, <1>1, <1>4, SetUse
<1>7. TypeOK'
  BY <1>0, <1>1, <1>5, <1>6 DEF TypeOK, SenderRec, UnchangedBySender, poolVars
<1>8. IoCountExact'
  <2>1. One(Sends(sender, s)) = 0 /\ One(Sends(sender', s)) = 1
    BY <1>5 DEF Sends, One
  <2>2. posted' = posted /\ posted[s]["send"] \in Nat
    BY <1>0, <1>1 DEF TypeOK, Op
  <2>3. session'[s].ioCount - session[s].ioCount
          = posted'[s]["send"] - posted[s]["send"] + One(Sends(sender', s)) - One(Sends(sender, s))
    BY <1>2, <1>6, <2>1, <2>2
  <2>4. \A x \in Session : x # s => /\ session'[x].ioCount = session[x].ioCount
                                    /\ posted'[x] = posted[x]
                                    /\ ~Sends(sender, x) /\ ~Sends(sender', x)
    BY <1>5, <1>6, <2>2 DEF Sends
  <2>5. ~crash' /\ UNCHANGED <<worker, task>>
    BY <1>0, <1>1 DEF IoCountExact, UnchangedBySender
  <2> QED
    BY <1>0, <1>7, <2>2, <2>3, <2>4, <2>5, IoSender
<1>9. SameAccepts
  BY <1>1, PostedKept
<1> QED
  BY <1>1, <1>6, <1>7, <1>8, <1>9, SenderKeeps

LEMMA Send_PostKeeps ==
    ASSUME SessionInv, NEW s \in Session, Send_Post(s) PROVE SessionInv'
<1>0. TypeOK /\ IoCountExact /\ session[s] \in SessionRec
  BY DEF SessionInv, TypeOK
<1>1. /\ At(s, "send") /\ Post(s, "send") /\ sender' = Idle
      /\ UNCHANGED <<UnchangedBySender, session, crash>>
  BY DEF Send_Post
<1>2. /\ posted' \in [Session -> [Op -> Nat]]
      /\ posted'[s]["send"] = posted[s]["send"] + 1
      /\ posted'[s]["accept"] = posted[s]["accept"] /\ posted'[s]["recv"] = posted[s]["recv"]
      /\ \A x \in Session : x # s => posted'[x] = posted[x]
      /\ SameAccepts
  BY <1>0, <1>1, PostUse DEF Op
<1>3. sender = [step |-> "send", session |-> s] /\ sender' \in SenderRec /\ sender'.step = "idle"
  BY <1>0, <1>1, AtUse DEF At
<1>4. TypeOK'
  BY <1>0, <1>1, <1>2, <1>3 DEF TypeOK, SenderRec, UnchangedBySender, poolVars
<1>5. IoCountExact'
  <2>1. One(Sends(sender, s)) = 1 /\ One(Sends(sender', s)) = 0
    BY <1>3 DEF Sends, One
  <2>2. posted[s]["send"] \in Nat /\ session[s].ioCount \in Int /\ session' = session
    BY <1>0, <1>1 DEF TypeOK, Op, SessionRec
  <2>3. session'[s].ioCount - session[s].ioCount
          = posted'[s]["send"] - posted[s]["send"] + One(Sends(sender', s)) - One(Sends(sender, s))
    BY <1>2, <2>1, <2>2
  <2>4. \A x \in Session : x # s => /\ session'[x].ioCount = session[x].ioCount
                                    /\ posted'[x] = posted[x]
                                    /\ ~Sends(sender, x) /\ ~Sends(sender', x)
    BY <1>2, <1>3, <2>2 DEF Sends
  <2>5. ~crash' /\ UNCHANGED <<worker, task>>
    BY <1>0, <1>1 DEF IoCountExact, UnchangedBySender
  <2> QED
    BY <1>0, <1>2, <1>4, <2>3, <2>4, <2>5, IoSender
<1>6. SameUses
  BY <1>1, SessionKept
<1> QED
  BY <1>1, <1>2, <1>4, <1>5, <1>6, SenderKeeps

LEMMA Send_FailKeeps ==
    ASSUME SessionInv, NEW s \in Session, Send_Post_Fail(s) PROVE SessionInv'
<1>0. TypeOK /\ IoCountExact /\ session[s] \in SessionRec
  BY DEF SessionInv, TypeOK
<1> DEFINE q == Count(session[s], -1)
<1>1. /\ At(s, "send") /\ Set(s, q)
      /\ crash' = (session[s].ioCount - 1 < 0)
      /\ sender' \in {[sender EXCEPT !.step = "unsend"], [sender EXCEPT !.step = "unsend_last"]}
      /\ UNCHANGED <<UnchangedBySender, posted>>
  BY DEF Send_Post_Fail
<1>2. session[s].ioCount \in Int
  BY <1>0 DEF SessionRec
<1>3. q \in SessionRec /\ SameUse(session[s], q) /\ q.ioCount = session[s].ioCount - 1
  <2>1. q \in SessionRec /\ SameUse(session[s], q) /\ q.ioCount = session[s].ioCount + (-1)
    BY <1>0, CountUse
  <2> QED
    BY <1>2, <2>1
<1> HIDE DEF q
<1>4. /\ sender = [step |-> "send", session |-> s] /\ sender' \in SenderRec
      /\ sender'.step \in {"unsend", "unsend_last"}
  BY <1>0, <1>1, AtUse DEF At, SenderStep
<1>5. /\ session' \in [Session -> SessionRec]
      /\ session'[s].ioCount = session[s].ioCount - 1
      /\ \A x \in Session : x # s => session'[x] = session[x]
      /\ SameUses
  BY <1>0, <1>1, <1>3, SetUse
<1>6. ~crash'
  <2>1. session[s].ioCount >= 1
    BY <1>0, <1>4, IoAtLeast DEF One
  <2>2. ~(session[s].ioCount - 1 < 0)
    BY <1>2, <2>1
  <2> QED
    BY <1>1, <2>2
<1>7. TypeOK'
  BY <1>1, <1>0, <1>4, <1>5 DEF TypeOK, SenderRec, UnchangedBySender, poolVars
<1>8. IoCountExact'
  <2>1. One(Sends(sender, s)) = 1 /\ One(Sends(sender', s)) = 0
    BY <1>4 DEF Sends, One
  <2>2. posted' = posted /\ posted[s]["send"] \in Nat
    BY <1>0, <1>1 DEF TypeOK, Op
  <2>3. session'[s].ioCount - session[s].ioCount
          = posted'[s]["send"] - posted[s]["send"] + One(Sends(sender', s)) - One(Sends(sender, s))
    BY <1>2, <1>5, <2>1, <2>2
  <2>4. \A x \in Session : x # s => /\ session'[x].ioCount = session[x].ioCount
                                    /\ posted'[x] = posted[x]
                                    /\ ~Sends(sender, x) /\ ~Sends(sender', x)
    BY <1>4, <1>5, <2>2 DEF Sends
  <2>5. UNCHANGED <<worker, task>>
    BY <1>1 DEF UnchangedBySender
  <2> QED
    BY <1>0, <1>6, <1>7, <2>2, <2>3, <2>4, <2>5, IoSender
<1>9. SameAccepts
  BY <1>1, PostedKept
<1> QED
  BY <1>1, <1>5, <1>7, <1>8, <1>9, SenderKeeps

-----------------------------------------------------------------------------
(* The steps of the Auth and Game threads and of the callers.               *)

TaskRec == [step : TaskStep, session : Session \cup {NoSession}, packet : Client \cup {0}]

LEMMA TaskHoldCounts ==
    ASSUME TypeOK, NEW t \in Thread, NEW r, task' = [task EXCEPT ![t] = r]
    PROVE  \A x \in Session :
             Cardinality(HoldingTasks(x))'
               = Cardinality(HoldingTasks(x)) + One(CallsAs(r, x)) - One(CallsAs(task[t], x))
<1> TAKE x \in Session
<1>1. task'[t] = r /\ \A v \in Thread \ {t} : task'[v] = task[v]
  BY DEF TypeOK
<1>2. /\ HoldingTasks(x) \ {t} = HoldingTasks(x)' \ {t}
      /\ t \in HoldingTasks(x)' <=> CallsAs(r, x)
      /\ t \in HoldingTasks(x) <=> CallsAs(task[t], x)
  BY <1>1 DEF HoldingTasks, CallsAs
<1>3. Cardinality(HoldingTasks(x)') = Cardinality(HoldingTasks(x))
         + One(t \in HoldingTasks(x)') - One(t \in HoldingTasks(x))
  BY <1>2, HoldersFinite, CountStep
<1> QED
  BY <1>2, <1>3 DEF One

(* Thread t gains or loses its reference to s.                              *)
LEMMA IoTask ==
    ASSUME TypeOK, TypeOK', IoCountExact, NEW s \in Session, NEW t \in Thread, NEW r,
           task' = [task EXCEPT ![t] = r], UNCHANGED <<posted, worker, sender, crash>>,
           session'[s].ioCount - session[s].ioCount
             = One(CallsAs(r, s)) - One(CallsAs(task[t], s)),
           \A x \in Session : x # s => /\ session'[x].ioCount = session[x].ioCount
                                       /\ CallsAs(r, x) <=> CallsAs(task[t], x)
    PROVE  IoCountExact'
<1> DEFINE sends == One(sender = [step |-> "send", session |-> s])
           old == One(CallsAs(task[t], s))
           new == One(CallsAs(r, s))
<1>1. sends \in Nat /\ sends' = sends /\ old \in Nat /\ new \in Nat
  BY DEF One
<1>2. \A x \in Session :
        Cardinality(HoldingTasks(x))'
          = Cardinality(HoldingTasks(x)) + One(CallsAs(r, x)) - One(CallsAs(task[t], x))
  BY TaskHoldCounts
<1>3. \A x \in Session : Cardinality(HoldingTasks(x)) \in Nat
  BY HoldersFinite
<1>4. \A x \in Session : x # s =>
        Cardinality(HoldingTasks(x))' = Cardinality(HoldingTasks(x))
  BY <1>2, <1>3 DEF One
<1>5. \A x \in Session : HoldingWorkers(x)' = HoldingWorkers(x)
  BY DEF HoldingWorkers
<1>6. \A o \in {"accept", "recv", "send"} : posted[s][o] \in Nat /\ posted'[s][o] = posted[s][o]
  BY DEF TypeOK, Op
<1>7. Cardinality(HoldingWorkers(s)) \in Nat
  BY HoldersFinite
<1>8. Cardinality(HoldingTasks(s))' = Cardinality(HoldingTasks(s)) + new - old
  BY <1>2
<1>9. session'[s].ioCount - session[s].ioCount = new - old
  OBVIOUS
<1> HIDE DEF sends, old, new
<1>10. session'[s].ioCount - session[s].ioCount
        = posted'[s]["accept"] - posted[s]["accept"] + posted'[s]["recv"] - posted[s]["recv"]
          + posted'[s]["send"] - posted[s]["send"]
          + Cardinality(HoldingWorkers(s))' - Cardinality(HoldingWorkers(s))
          + Cardinality(HoldingTasks(s))' - Cardinality(HoldingTasks(s)) + sends' - sends
  BY <1>1, <1>3, <1>5, <1>6, <1>7, <1>8, <1>9
<1>11. ~crash'
  BY DEF IoCountExact
<1> QED
  BY <1>4, <1>5, <1>10, <1>11, IoMoves DEF sends

(* A thread may go on to r.                                                 *)
Allowed(t, r) ==
    /\ r.step \in {"ioCount", "ReleaseSession"} =>
         /\ t = "game" /\ r.session \in Session
         /\ session[r.session].mode = "WAIT_LOGOUT"
    /\ r.step = "ReleaseSession" => Entering(r.session) = {}
    /\ r.step \in {"SendPacket", "enqueue"} => r.packet # 0

LEMMA TaskGoesOn ==
    ASSUME TypeOK, TaskOK, NEW t \in Thread, NEW r \in TaskRec, task' = [task EXCEPT ![t] = r],
           SameUses, Allowed(t, r), UNCHANGED worker
    PROVE  task' \in [Thread -> TaskRec] /\ TaskOK'
<1>1. /\ task' \in [Thread -> TaskRec] /\ task'[t] = r
      /\ \A x \in Thread : x # t => task'[x] = task[x]
  BY DEF TypeOK, TaskRec
<1>2. \A x \in Session : session'[x].mode = session[x].mode
  BY DEF SameUses, SameUse
<1>3. TaskOK'
  <2>2. \A x \in Thread : task'[x].step \in {"ioCount", "ReleaseSession"} =>
           /\ x = "game" /\ task'[x].session \in Session
           /\ session'[task'[x].session].mode = "WAIT_LOGOUT"
    BY <1>1, <1>2 DEF TaskOK, Allowed
  <2>3. \A x \in Thread : task'[x].step = "ReleaseSession" => Entering(task'[x].session) = {}
    BY <1>1 DEF TaskOK, Allowed
  <2>4. \A x \in Thread : task'[x].step \in {"SendPacket", "enqueue"} => task'[x].packet # 0
    BY <1>1 DEF TaskOK, Allowed
  <2> QED
    BY <2>2, <2>3, <2>4 DEF TaskOK, Entering
<1> QED
  BY <1>1, <1>3

LEMMA TaskKeeps ==
    ASSUME SessionInv, TypeOK', IoCountExact', TaskOK', SameUses,
           UNCHANGED <<posted, worker, main, poolVars>>
    PROVE  SessionInv'
  BY UsesAreModes, WorkerKept, PostedKept, UseStep DEF SamePool, poolVars

(* A step of thread t on s: it sets s to q and goes on to r.                *)
LEMMA CallKeeps ==
    ASSUME SessionInv, NEW s \in Session, NEW t \in Thread, NEW q \in SessionRec,
           NEW r \in TaskRec, Set(s, q), task' = [task EXCEPT ![t] = r],
           SameUse(session[s], q), Allowed(t, r),
           line' \in [Session -> {"none", "open", "closed", "shut"}],
           UNCHANGED UnchangedByCall,
           q.ioCount - session[s].ioCount = One(CallsAs(r, s)) - One(CallsAs(task[t], s)),
           \A x \in Session : x # s => (CallsAs(r, x) <=> CallsAs(task[t], x))
    PROVE  SessionInv'
<1>0. TypeOK /\ IoCountExact /\ TaskOK
  BY DEF SessionInv
<1>1. /\ session' \in [Session -> SessionRec] /\ session'[s] = q
      /\ \A x \in Session : x # s => session'[x] = session[x]
      /\ SameUses
  BY <1>0, SetUse
<1>2. task' \in [Thread -> TaskRec] /\ TaskOK'
  BY <1>0, <1>1, TaskGoesOn DEF UnchangedByCall
<1>3. UNCHANGED <<posted, worker, sender, acceptor, main, indexQueue, curPosted, curUser,
                  curID, fails, lost, bound, freed, crash>>
  BY DEF UnchangedByCall, poolVars
<1>4. TypeOK'
  BY <1>0, <1>1, <1>2, <1>3 DEF TypeOK, TaskRec
<1>5. IoCountExact'
  BY <1>0, <1>1, <1>3, <1>4, IoTask
<1> QED
  BY <1>1, <1>2, <1>3, <1>4, <1>5, TaskKeeps DEF poolVars

(* A step of thread t that only goes on to r.                               *)
LEMMA IdleCallKeeps ==
    ASSUME SessionInv, NEW t \in Thread, NEW r \in TaskRec, task' = [task EXCEPT ![t] = r],
           Allowed(t, r), \A x \in Session : CallsAs(r, x) <=> CallsAs(task[t], x),
           UNCHANGED <<session, line, posted, worker, sender, acceptor, main, poolVars, crash>>
    PROVE  SessionInv'
  BY SessionKept, SessionCountsKept, TaskGoesOn, TaskHoldsOn, IoKept, TaskKeeps DEF SessionInv,
     TypeOK, TaskRec, poolVars

(* Where a thread is in its visit of s.                                     *)
LEMMA InUseOf ==
    ASSUME TypeOK, NEW t \in Thread, NEW s \in Session, NEW k, In(t, s, k)
    PROVE  /\ task[t].step = k /\ task[t].session = s
           /\ \A j \in TaskStep : /\ [task[t] EXCEPT !.step = j] \in TaskRec
                                  /\ [task[t] EXCEPT !.step = j].step = j
                                  /\ [task[t] EXCEPT !.step = j].session = s
                                  /\ [task[t] EXCEPT !.step = j].packet = task[t].packet
           /\ NoCall \in TaskRec /\ NoCall.step = "idle"
           /\ session[s] \in SessionRec
           /\ session[s].ioCount \in Int
  BY DEF TypeOK, TaskRec, SessionRec, NoCall, TaskStep, In

LEMMA CalledMode ==
    ASSUME NEW t, NEW m, MayCall(t, m) PROVE m # "NONE"
  BY DEF MayCall

LEMMA CallStarts ==
    ASSUME SessionInv, NEW t \in Thread, NEW s \in Session, Call(t, s) PROVE SessionInv'
<1>0. TypeOK /\ ModeOK
  BY DEF SessionInv
<1> DEFINE p == [step |-> "SendPacket", session |-> s, packet |-> session[s].clientID]
           d == [step |-> "Disconnect", session |-> s, packet |-> 0]
<1>1. /\ task[t].step = "idle" /\ MayCall(t, session[s].mode)
      /\ task' = [task EXCEPT ![t] = p] \/ task' = [task EXCEPT ![t] = d]
      /\ UNCHANGED <<session, line, posted, worker, sender, acceptor, main, poolVars, crash>>
  BY DEF Call
<1>2. session[s].clientID # 0 /\ session[s].clientID \in Client \cup {0}
  BY <1>0, <1>1, CalledMode DEF ModeOK, TypeOK, SessionRec
<1>3. p \in TaskRec /\ d \in TaskRec /\ Allowed(t, p) /\ Allowed(t, d)
  BY <1>2 DEF TaskRec, TaskStep, Allowed
<1>4. \A x \in Session : ~CallsAs(p, x) /\ ~CallsAs(d, x) /\ ~CallsAs(task[t], x)
  BY <1>1 DEF CallsAs
<1> HIDE DEF p, d
<1> QED
  BY <1>1, <1>3, <1>4, IdleCallKeeps

(* Thread t takes a reference to s, and goes on to k.                       *)
LEMMA ReferenceTaken ==
    ASSUME SessionInv, NEW t \in Thread, NEW s \in Session, NEW j, NEW k, In(t, s, j), Goto(t, k),
           \/ j = "SendPacket" /\ k \in {"unref", "enqueue"}
           \/ j = "Disconnect" /\ k \in {"unref", "shut"},
           Set(s, Count(session[s], 1)), UNCHANGED <<UnchangedByCall, line>>
    PROVE  SessionInv'
<1>0. TypeOK /\ TaskOK
  BY DEF SessionInv
<1> DEFINE q == Count(session[s], 1)
           r == [task[t] EXCEPT !.step = k]
<1>1. /\ task[t].step = j /\ task[t].session = s
      /\ r \in TaskRec /\ r.step = k /\ r.session = s /\ r.packet = task[t].packet
      /\ session[s] \in SessionRec /\ session[s].ioCount \in Int
  <2>1. k \in TaskStep
    BY DEF TaskStep
  <2> QED
    BY <1>0, <2>1, InUseOf
<1>2. q \in SessionRec /\ SameUse(session[s], q) /\ q.ioCount = session[s].ioCount + 1
  BY <1>1, CountUse
<1>3. task' = [task EXCEPT ![t] = r] /\ Set(s, q)
  BY DEF Goto
<1> HIDE DEF q, r
<1>4. Allowed(t, r)
  BY <1>0, <1>1 DEF Allowed, TaskOK
<1>5. /\ One(CallsAs(r, s)) = 1 /\ One(CallsAs(task[t], s)) = 0
      /\ \A x \in Session : x # s => (CallsAs(r, x) <=> CallsAs(task[t], x))
  BY <1>1 DEF CallsAs, One
<1>6. q.ioCount - session[s].ioCount = One(CallsAs(r, s)) - One(CallsAs(task[t], s))
  BY <1>1, <1>2, <1>5
<1>7. line' \in [Session -> {"none", "open", "closed", "shut"}] /\ UNCHANGED UnchangedByCall
  BY <1>0 DEF TypeOK
<1> QED
  BY <1>1, <1>2, <1>3, <1>4, <1>5, <1>6, <1>7, CallKeeps

(* Thread t keeps its reference to s, or holds none, and goes on to k.      *)
LEMMA ReferenceKept ==
    ASSUME SessionInv, NEW t \in Thread, NEW s \in Session, NEW j, In(t, s, j),
           NEW r \in TaskRec, task' = [task EXCEPT ![t] = r],
           \/ j \in {"enqueue", "shut"} /\ r.step = "unref" /\ r.session = s
           \/ j = "flag" /\ r.step = "idle",
           NEW q \in SessionRec, Set(s, q), SameUse(session[s], q), q.ioCount = session[s].ioCount,
           line' \in [Session -> {"none", "open", "closed", "shut"}], UNCHANGED UnchangedByCall
    PROVE  SessionInv'
<1>0. TypeOK
  BY DEF SessionInv
<1>1. task[t].step = j /\ task[t].session = s /\ session[s].ioCount \in Int
  BY <1>0, InUseOf
<1>2. Allowed(t, r)
  BY DEF Allowed
<1>3. /\ CallsAs(r, s) <=> CallsAs(task[t], s)
      /\ \A x \in Session : x # s => (CallsAs(r, x) <=> CallsAs(task[t], x))
  BY <1>1 DEF CallsAs
<1>4. q.ioCount - session[s].ioCount = One(CallsAs(r, s)) - One(CallsAs(task[t], s))
  BY <1>1, <1>3 DEF One
<1> QED
  BY <1>2, <1>3, <1>4, CallKeeps

LEMMA CallStepKeeps ==
    ASSUME SessionInv, NEW t \in Thread, NEW s \in Session, CallStep(t, s) PROVE SessionInv'
<1>0. TypeOK /\ TaskOK /\ IoCountExact
  BY DEF SessionInv
<1>1. CASE SendPacket(t, s)
  <2> DEFINE k == IF session[s].ioCount = 0 \/ session[s].bLogoutFlag \/ session[s].bShutdown
                  THEN "unref" ELSE "enqueue"
  <2>1. /\ In(t, s, "SendPacket") /\ Goto(t, k) /\ Set(s, Count(session[s], 1))
        /\ UNCHANGED <<UnchangedByCall, line>>
    BY <1>1 DEF SendPacket
  <2>2. k \in {"unref", "enqueue"}
    OBVIOUS
  <2> HIDE DEF k
  <2> QED
    BY <2>1, <2>2, ReferenceTaken
<1>2. CASE SendPacket_Enqueue(t, s)
  <2> DEFINE q == [session[s] EXCEPT !.sendq = Append(session[s].sendq, task[t].packet)]
             r == [task[t] EXCEPT !.step = "unref"]
  <2>1. /\ In(t, s, "enqueue") /\ Set(s, q) /\ task' = [task EXCEPT ![t] = r]
        /\ UNCHANGED <<UnchangedByCall, line>>
    BY <1>2 DEF SendPacket_Enqueue, Goto
  <2>2. /\ task[t].step = "enqueue" /\ session[s] \in SessionRec
        /\ r \in TaskRec /\ r.step = "unref" /\ r.session = s
    <3>1. "unref" \in TaskStep
      BY DEF TaskStep
    <3> QED
      BY <1>0, <2>1, <3>1, InUseOf
  <2>3. Append(session[s].sendq, task[t].packet) \in Seq(Client)
    BY <1>0, <2>2, AppendIsJoin DEF TaskOK, TypeOK, SessionRec
  <2>4. q \in SessionRec
    BY <2>2, <2>3 DEF SessionRec
  <2>5. SameUse(session[s], q) /\ q.ioCount = session[s].ioCount
    BY <2>2 DEF SessionRec, SameUse
  <2> HIDE DEF q, r
  <2>6. line' \in [Session -> {"none", "open", "closed", "shut"}]
    BY <1>0, <2>1 DEF TypeOK
  <2> QED
    BY <2>1, <2>2, <2>4, <2>5, <2>6, ReferenceKept
<1>3. CASE Disconnect(t, s)
  <2> DEFINE k == IF session[s].ioCount = 0 \/ session[s].bLogoutFlag THEN "unref" ELSE "shut"
  <2>1. /\ In(t, s, "Disconnect") /\ Goto(t, k) /\ Set(s, Count(session[s], 1))
        /\ UNCHANGED <<UnchangedByCall, line>>
    BY <1>3 DEF Disconnect
  <2>2. k \in {"unref", "shut"}
    OBVIOUS
  <2> HIDE DEF k
  <2> QED
    BY <2>1, <2>2, ReferenceTaken
<1>4. CASE Disconnect_Shutdown(t, s)
  <2> DEFINE q == [session[s] EXCEPT !.bShutdown = TRUE]
             r == [task[t] EXCEPT !.step = "unref"]
  <2>1. /\ In(t, s, "shut") /\ Set(s, q) /\ task' = [task EXCEPT ![t] = r]
        /\ UNCHANGED UnchangedByCall
        /\ line' = [line EXCEPT ![s] = IF @ = "none" THEN @ ELSE "shut"]
    BY <1>4 DEF Disconnect_Shutdown, Goto
  <2>2. /\ session[s] \in SessionRec
        /\ r \in TaskRec /\ r.step = "unref" /\ r.session = s
    BY <1>0, <2>1, InUseOf DEF TaskStep
  <2>3. q \in SessionRec /\ SameUse(session[s], q) /\ q.ioCount = session[s].ioCount
    BY <2>2 DEF SessionRec, SameUse
  <2> HIDE DEF q, r
  <2>4. line' \in [Session -> {"none", "open", "closed", "shut"}]
    BY <1>0, <2>1 DEF TypeOK
  <2> QED
    BY <2>1, <2>2, <2>3, <2>4, ReferenceKept
<1>5. CASE Unreference(t, s)
  <2> DEFINE q == Count(session[s], -1)
             r == IF session[s].ioCount = 1 THEN [task[t] EXCEPT !.step = "flag"] ELSE NoCall
  <2>1. /\ In(t, s, "unref") /\ Set(s, q) /\ task' = [task EXCEPT ![t] = r]
        /\ UNCHANGED <<UnchangedByCall, line>>
    BY <1>5 DEF Unreference
  <2>2. /\ session[s] \in SessionRec /\ session[s].ioCount \in Int
        /\ task[t].step = "unref" /\ task[t].session = s
        /\ r \in TaskRec /\ r.step \in {"flag", "idle"}
    <3>1. "flag" \in TaskStep
      BY DEF TaskStep
    <3> QED
      BY <1>0, <2>1, <3>1, InUseOf
  <2>3. q \in SessionRec /\ SameUse(session[s], q) /\ q.ioCount = session[s].ioCount + (-1)
    BY <2>2, CountUse
  <2> HIDE DEF q, r
  <2>4. Allowed(t, r)
    BY <2>2 DEF Allowed
  <2>5. /\ One(CallsAs(r, s)) = 0 /\ One(CallsAs(task[t], s)) = 1
        /\ \A x \in Session : x # s => (CallsAs(r, x) <=> CallsAs(task[t], x))
    BY <2>2 DEF CallsAs, One
  <2>6. q.ioCount - session[s].ioCount = One(CallsAs(r, s)) - One(CallsAs(task[t], s))
    BY <2>2, <2>3, <2>5
  <2>7. line' \in [Session -> {"none", "open", "closed", "shut"}] /\ UNCHANGED UnchangedByCall
    BY <1>0, <2>1 DEF TypeOK
  <2> QED
    BY <2>1, <2>2, <2>3, <2>4, <2>5, <2>6, <2>7, CallKeeps
<1>6. CASE Unreference_Flag(t, s)
  <2> DEFINE q == [session[s] EXCEPT !.bLogoutFlag = TRUE]
  <2>1. /\ In(t, s, "flag") /\ Set(s, q) /\ task' = [task EXCEPT ![t] = NoCall]
        /\ UNCHANGED <<UnchangedByCall, line>>
    BY <1>6 DEF Unreference_Flag
  <2>2. session[s] \in SessionRec /\ NoCall \in TaskRec /\ NoCall.step = "idle"
    BY <1>0, <2>1, InUseOf
  <2>3. q \in SessionRec /\ SameUse(session[s], q) /\ q.ioCount = session[s].ioCount
    BY <2>2, FlagUse
  <2> HIDE DEF q
  <2>4. line' \in [Session -> {"none", "open", "closed", "shut"}]
    BY <1>0, <2>1 DEF TypeOK
  <2> QED
    BY <2>1, <2>2, <2>3, <2>4, ReferenceKept
<1> QED
  BY <1>1, <1>2, <1>3, <1>4, <1>5, <1>6 DEF CallStep

LEMMA ThreadExitKeeps ==
    ASSUME SessionInv, NEW t \in Thread, Update_Thread_Exit(t) PROVE SessionInv'
<1> DEFINE r == [task[t] EXCEPT !.step = "exit"]
<1>1. /\ task[t].step = "idle" /\ task' = [task EXCEPT ![t] = r]
      /\ UNCHANGED <<session, line, posted, worker, sender, acceptor, main, poolVars, crash>>
  BY DEF Update_Thread_Exit
<1>2. r \in TaskRec /\ r.step = "exit"
  BY DEF SessionInv, TypeOK, TaskRec, TaskStep
<1> HIDE DEF r
<1>3. Allowed(t, r) /\ \A x \in Session : CallsAs(r, x) <=> CallsAs(task[t], x)
  BY <1>1, <1>2 DEF Allowed, CallsAs
<1> QED
  BY <1>1, <1>2, <1>3, IdleCallKeeps

(* A session is moved on, from one mode of a session in use to another.     *)
LEMMA MovesKeeps ==
    ASSUME SessionInv, NEW t, NEW s \in Session, NEW from, NEW to \in Mode, Moves(t, s, from, to),
           from \notin {"NONE", "WAIT_LOGOUT"}, to # "NONE"
    PROVE  SessionInv'
<1>0. TypeOK /\ IoCountExact /\ TaskOK /\ session[s] \in SessionRec
  BY DEF SessionInv, TypeOK
<1> DEFINE q == [session[s] EXCEPT !.mode = to]
<1>1. /\ session[s].mode = from /\ session' = [session EXCEPT ![s] = q]
      /\ UNCHANGED <<line, posted, worker, task, sender, acceptor, main, poolVars, crash>>
  BY DEF Moves, Set, threadVars
<1>2. /\ q \in SessionRec /\ q.mode = to /\ q.clientID = session[s].clientID
      /\ q.bDisconnect = session[s].bDisconnect /\ q.ioCount = session[s].ioCount
  BY <1>0 DEF SessionRec
<1> HIDE DEF q
<1>3. /\ session' \in [Session -> SessionRec] /\ session'[s] = q
      /\ \A x \in Session : x # s => session'[x] = session[x]
  BY <1>0, <1>1, <1>2 DEF TypeOK
<1>4. SameModes
  BY <1>1, <1>2, <1>3 DEF SameModes
<1>5. SameCounts
  BY <1>2, <1>3 DEF SameCounts
<1>6. TypeOK'
  BY <1>0, <1>1, <1>3 DEF TypeOK, poolVars
<1>7. SameHolders /\ SameJoins /\ SameAccepts /\ SamePool
  BY <1>1, HoldersKept, WorkerKept, PostedKept DEF SamePool, poolVars
<1>8. IoCountExact'
  BY <1>0, <1>1, <1>5, <1>7, IoKept
<1>9. TaskOK'
  BY <1>0, <1>1, <1>3, <1>7, TaskKept DEF SameJoins
<1> QED
  BY <1>4, <1>6, <1>7, <1>8, <1>9, UseStep

LEMMA SetMode_GAMEKeeps ==
    ASSUME SessionInv, NEW s \in Session, SetMode_GAME(s) PROVE SessionInv'
<1>0. TypeOK /\ IoCountExact /\ TaskOK /\ session[s] \in SessionRec
  BY DEF SessionInv, TypeOK
<1> DEFINE q == [session[s] EXCEPT !.bAuthToGameFlag = TRUE]
<1>1. /\ Set(s, q)
      /\ UNCHANGED <<line, posted, worker, task, sender, acceptor, main, poolVars, crash>>
  BY DEF SetMode_GAME, threadVars
<1>2. q \in SessionRec /\ SameUse(session[s], q) /\ q.ioCount = session[s].ioCount
  BY <1>0 DEF SessionRec, SameUse
<1> HIDE DEF q
<1>3. session' \in [Session -> SessionRec] /\ SameUses /\ SameModes /\ SameCounts
  BY <1>0, <1>1, <1>2, SetPlain
<1>4. TypeOK'
  BY <1>0, <1>1, <1>3 DEF TypeOK, poolVars
<1>5. SameHolders /\ SameJoins /\ SameAccepts /\ SamePool
  BY <1>1, HoldersKept, WorkerKept, PostedKept DEF SamePool, poolVars
<1>6. IoCountExact'
  BY <1>0, <1>1, <1>3, <1>5, IoKept
<1>7. TaskOK'
  BY <1>0, <1>1, <1>3, <1>5, TaskKeptUse
<1> QED
  BY <1>3, <1>4, <1>5, <1>6, <1>7, UseStep

LEMMA Game_ReleaseProcKeeps ==
    ASSUME SessionInv, NEW s \in Session, Game_ReleaseProc(s) PROVE SessionInv'
<1> DEFINE r == [step |-> "ioCount", session |-> s, packet |-> 0]
<1>1. /\ task["game"].step = "idle" /\ task' = [task EXCEPT !["game"] = r]
      /\ session[s].mode = "WAIT_LOGOUT"
      /\ UNCHANGED <<session, line, posted, worker, sender, acceptor, main, poolVars, crash>>
  BY DEF Game_ReleaseProc
<1>2. r \in TaskRec /\ r.step = "ioCount" /\ r.session = s /\ "game" \in Thread
  BY DEF TaskRec, TaskStep, Thread
<1> HIDE DEF r
<1>3. Allowed("game", r) /\ \A x \in Session : CallsAs(r, x) <=> CallsAs(task["game"], x)
  BY <1>1, <1>2 DEF Allowed, CallsAs
<1> QED
  BY <1>1, <1>2, <1>3, IdleCallKeeps

(* Who lets a client into s holds a reference to it.                        *)
LEMMA EntrantHolds ==
    ASSUME TypeOK, IoCountExact, NEW s \in Session, session[s].ioCount = 0
    PROVE  Entering(s) = {}
<1>1. Cardinality(HoldingWorkers(s)) = 0
  BY IoAtLeast, HoldersFinite
<1>2. HoldingWorkers(s) = {}
  BY <1>1, HoldersFinite, FS_EmptySet
<1> QED
  BY <1>2 DEF Entering, HoldingWorkers

LEMMA ReleaseSession_CheckKeeps ==
    ASSUME SessionInv, NEW s \in Session, ReleaseSession_Check(s) PROVE SessionInv'
<1>0. TypeOK /\ IoCountExact /\ TaskOK
  BY DEF SessionInv
<1> DEFINE r == IF session[s].ioCount # 0 THEN NoCall
                ELSE [task["game"] EXCEPT !.step = "ReleaseSession"]
<1>1. /\ In("game", s, "ioCount") /\ task' = [task EXCEPT !["game"] = r]
      /\ UNCHANGED <<session, line, posted, worker, sender, acceptor, main, poolVars, crash>>
  BY DEF ReleaseSession_Check
<1>2. "game" \in Thread /\ "ReleaseSession" \in TaskStep
  BY DEF Thread, TaskStep
<1>3. /\ task["game"].step = "ioCount" /\ task["game"].session = s
      /\ r \in TaskRec /\ r.step \in {"idle", "ReleaseSession"}
      /\ r.step = "ReleaseSession" => r.session = s /\ session[s].ioCount = 0
  BY <1>0, <1>1, <1>2, InUseOf
<1> HIDE DEF r
<1>4. session[s].mode = "WAIT_LOGOUT"
  BY <1>0, <1>2, <1>3 DEF TaskOK
<1>5. Allowed("game", r)
  BY <1>0, <1>3, <1>4, EntrantHolds DEF Allowed
<1>6. \A x \in Session : CallsAs(r, x) <=> CallsAs(task["game"], x)
  BY <1>3 DEF CallsAs
<1> QED
  BY <1>1, <1>2, <1>3, <1>5, <1>6, IdleCallKeeps

LEMMA ReleaseSessionKeeps ==
    ASSUME SessionInv, NEW s \in Session, ReleaseSession(s) PROVE SessionInv'
<1>0. TypeOK /\ IoCountExact /\ CountersExact /\ PlacesOK /\ ModeOK /\ TaskOK /\ EnterOK /\ ClientsOK /\ PostedOK
  BY DEF SessionInv
<1>1. "game" \in Thread /\ task["game"].step = "ReleaseSession" /\ task["game"].session = s
      /\ session[s] \in SessionRec
  BY <1>0 DEF ReleaseSession, In, Thread, TypeOK
<1>2. session[s].mode = "WAIT_LOGOUT" /\ ~session[s].bDisconnect /\ Entering(s) = {}
  BY <1>0, <1>1 DEF TaskOK, ModeOK
<1> DEFINE q == [InitSession(session[s]) EXCEPT !.bDisconnect = TRUE]
<1>3. /\ task' = [task EXCEPT !["game"] = NoCall] /\ Set(s, q)
      /\ curUser' = curUser - 1 /\ indexQueue' = Append(indexQueue, s)
      /\ acceptor' = (IF acceptor = "asleep" THEN "check" ELSE acceptor)
      /\ UNCHANGED <<line, posted, worker, sender, main, curPosted, curID, fails, lost, bound,
                     freed, crash>>
  BY <1>2 DEF ReleaseSession, WakeAcceptor
<1>4. q \in SessionRec /\ q.mode = "NONE" /\ q.ioCount = session[s].ioCount
  BY <1>1, ReleasedUse
<1> HIDE DEF q
<1>5. /\ session' \in [Session -> SessionRec] /\ session'[s] = q
      /\ \A x \in Session : x # s => session'[x] = session[x]
  BY <1>0, <1>3, <1>4, SetUse
<1>6. NoCall \in TaskRec /\ NoCall.step = "idle"
  BY DEF NoCall, TaskRec, TaskStep
<1>7. /\ task' \in [Thread -> TaskRec] /\ task'["game"] = NoCall
      /\ \A t \in Thread : t # "game" => task'[t] = task[t]
  BY <1>0, <1>1, <1>3, <1>6 DEF TypeOK, TaskRec
<1>8. Cardinality(Served)' = Cardinality(Served) - 1 /\ Cardinality(Served) >= 1
  <2>1. s \in Served /\ s \notin Served' /\ Served \ {s} = Served' \ {s}
    BY <1>2, <1>3, <1>4, <1>5 DEF InUse, Served, Entering
  <2>2. /\ Cardinality(Served') = Cardinality(Served) + One(s \in Served') - One(s \in Served)
        /\ Cardinality(Served) >= One(s \in Served)
    BY <2>1, PoolFinite, CountStep
  <2> QED
    BY <2>1, <2>2, PoolFinite DEF One
<1>9. curUser = Cardinality(Served) /\ curUser' = Cardinality(Served)' /\ curUser' \in Nat
  BY <1>0, <1>3, <1>8, PoolFinite DEF CountersExact
<1>10. TypeOK'
  BY <1>0, <1>3, AppendIsJoin, <1>5, <1>7, <1>9 DEF TypeOK, TaskRec
<1>11. SameCounts
  BY <1>4, <1>5 DEF SameCounts
<1>12. SameHolders
  BY <1>1, <1>6, <1>0, <1>3, TaskHoldsOn DEF CallsAs
<1>13. IoCountExact'
  BY <1>0, <1>3, <1>11, <1>12, IoKept
<1>14. SameJoins /\ SameAccepts /\ Accepting' = Accepting /\ Listening' = Listening
  BY <1>3, WorkerKept, PostedKept DEF Accepting, Listening
<1>15. \A x \in Session : Places(x)' = Places(x)
  <2> SUFFICES ASSUME NEW x \in Session PROVE Places(x)' = Places(x)
    OBVIOUS
  <2>1. Cardinality(PlacesOf(indexQueue', x)) = Cardinality(PlacesOf(indexQueue, x)) + One(x = s)
    BY <1>0, <1>3, PlacesAppend DEF TypeOK
  <2>2. One(session[x].mode # "NONE") = One(session'[x].mode # "NONE") + One(x = s)
    BY <1>2, <1>4, <1>5 DEF One
  <2>3. Places(x)' = Cardinality(PlacesOf(indexQueue', x)) + posted[x]["accept"]
                     + Cardinality(JoiningAt(x)) + One(session'[x].mode # "NONE")
    BY <1>14 DEF Places, PlacesOf, One, SameJoins, SameAccepts
  <2>4. /\ Cardinality(PlacesOf(indexQueue, x)) \in Nat /\ posted[x]["accept"] \in Nat
        /\ Cardinality(JoiningAt(x)) \in Nat
        /\ Places(x) = Cardinality(PlacesOf(indexQueue, x)) + posted[x]["accept"]
                       + Cardinality(JoiningAt(x)) + One(session[x].mode # "NONE")
    BY <1>0, PlacesType
  <2>5. One(x = s) \in Nat /\ One(session'[x].mode # "NONE") \in Nat
    BY DEF One
  <2> QED
    BY <2>1, <2>2, <2>3, <2>4, <2>5
<1>16. PlacesOK'
  BY <1>0, <1>3, <1>14, <1>15 DEF PlacesOK, SessionInOnePlace
<1>17. CountersExact'
  BY <1>0, <1>3, <1>9, <1>14 DEF CountersExact, SameJoins
<1>18. PostedOK' /\ ClientsOK'
  BY <1>0, <1>3, <1>14 DEF PostedOK, ClientsOK, SameJoins
<1>19. ModeOK' /\ EnterOK'
  BY <1>0, <1>2, <1>4, <1>5, <1>14 DEF ModeOK, EnterOK, SameJoins
<1>20. TaskOK'
  <2>1. \A t \in Thread : task'[t].step \notin {"ioCount", "ReleaseSession"}
    BY <1>0, <1>6, <1>7 DEF TaskOK
  <2> QED
    BY <1>0, <1>6, <1>7, <2>1 DEF TaskOK
<1> QED
  BY <1>10, <1>13, <1>16, <1>17, <1>18, <1>19, <1>20 DEF SessionInv

-----------------------------------------------------------------------------
(* The end of the server, the first state, and every step.                  *)

(* Stop goes on: no session moves, and once the workers are gone nothing of *)
(* what they gave up is counted.                                            *)
LEMMA StopKeeps ==
    ASSUME SessionInv, TypeOK',
           UNCHANGED <<session, posted, worker, task, sender, indexQueue, curUser, curID, fails, lost, crash>>,
           Listening' => Listening /\ curPosted' = curPosted,
           \/ /\ main \in {"run", "off", "shut"} /\ main' \in {"off", "shut", "worker"}
              /\ UNCHANGED curPosted
           \/ main \in {"worker", "acceptor", "sender", "game", "auth"}
              /\ main' \notin {"run", "off", "shut", "worker"}
              /\ \A w \in Worker : worker[w].step = "exit"
    PROVE  SessionInv'
<1>0. TypeOK /\ IoCountExact /\ CountersExact /\ PlacesOK /\ ModeOK /\ TaskOK /\ EnterOK /\ ClientsOK /\ PostedOK
  BY DEF SessionInv
<1>1. SameCounts /\ SameHolders /\ SameUses /\ SameModes /\ SameAccepts /\ SameJoins
  BY SessionCountsKept, HoldersKept, SessionKept, PostedKept, WorkerKept
<1>2. IoCountExact' /\ TaskOK'
  BY <1>0, <1>1, IoKept, TaskKeptUse
<1>3. /\ Served' = Served /\ Accepting' = Accepting
      /\ Joining' = Joining /\ Unposted' = Unposted
  BY <1>1 DEF InUse, Served, Accepting, SameJoins
<1>4. CountersExact'
  BY <1>0, <1>3 DEF CountersExact
<1>5. \A x \in Session : Places(x)' = Places(x)
  BY <1>1 DEF Places, SameAccepts, SameJoins
<1>6. PlacesOK'
  BY <1>0, <1>5 DEF PlacesOK, SessionInOnePlace
<1>7. ModeOK' /\ EnterOK' /\ ClientsOK'
  BY <1>0, <1>1, <1>3 DEF ModeOK, EnterOK, ClientsOK, SameModes, SameJoins
<1>8. PostedOK'
  BY <1>0, <1>3 DEF PostedOK
<1> QED
  BY <1>2, <1>4, <1>6, <1>7, <1>8 DEF SessionInv

LEMMA StopStepKeeps ==
    ASSUME SessionInv, Stop \/ StopSteps PROVE SessionInv'
<1>0. TypeOK /\ PostedOK
  BY DEF SessionInv
<1>1. CASE Stop
  BY <1>0, <1>1, StopKeeps DEF Stop, Stop_Go, TypeOK, poolVars, Listening
<1>2. CASE Stop_Shutdown
  BY <1>0, <1>2, StopKeeps DEF Stop_Shutdown, Stop_Go, TypeOK, poolVars, Listening
<1>3. CASE Stop_Listen
  BY <1>0, <1>3, StopKeeps DEF Stop_Listen, Stop_Go, TypeOK, poolVars, Listening
<1>4. CASE Stop_Accept
  BY <1>4, <1>0, StopKeeps DEF Stop_Accept, Stop_Go, ClearBuffer, WakeAcceptor, TypeOK, Listening
<1>5. CASE Stop_Send
  BY <1>5, <1>0, StopKeeps DEF Stop_Send, Stop_Go, ClearBuffer, TypeOK, Listening, PostedOK
<1>6. CASE Stop_Threads
  BY <1>6, <1>0, StopKeeps DEF Stop_Threads, Stop_Go, TypeOK, poolVars, Listening, PostedOK
<1> QED
  BY <1>1, <1>2, <1>3, <1>4, <1>5, <1>6 DEF StopSteps

(* A queue of as many places as sessions that holds each holds it once.     *)
LEMMA EachOnce ==
    ASSUME NEW q \in [1 .. Cardinality(Session) -> Session],
           \A s \in Session : \E n \in DOMAIN q : q[n] = s, NEW s \in Session
    PROVE  q \in Seq(Session) /\ Cardinality(PlacesOf(q, s)) = 1
<1> DEFINE N == Cardinality(Session)
<1>1. IsFiniteSet(Session) /\ N \in Nat
  BY MMOSessionAssumption, FS_CardinalityType
<1>2. q \in Seq(Session)
  BY <1>1
<1>3. IsFiniteSet(1 .. N) /\ Cardinality(1 .. N) = N
  BY <1>1, FS_Interval
<1>4. q \in Surjection(1 .. N, Session)
  BY DEF Surjection
<1> HIDE DEF N
<1>5. Cardinality(1 .. N) = Cardinality(Session)
  BY <1>3 DEF N
<1>6. q \in Injection(1 .. N, Session)
  BY <1>1, <1>3, <1>4, <1>5, FS_SurjSameCardinalityImpliesInj
<1>7. PICK n \in DOMAIN q : q[n] = s
  OBVIOUS
<1>8. PlacesOf(q, s) = {n}
  BY <1>6, <1>7 DEF PlacesOf, Injection, IsInjective
<1> QED
  BY <1>2, <1>8, FS_Singleton

LEMMA SessionInvInit == Init => SessionInv
<1> SUFFICES ASSUME Init PROVE SessionInv
  OBVIOUS
<1>1. /\ session = [s \in Session |-> NewSession]
      /\ posted = [s \in Session |-> [o \in Op |-> 0]]
      /\ worker = [w \in Worker |-> NoWork] /\ task = [t \in Thread |-> NoCall]
      /\ line = [s \in Session |-> "none"] /\ sender = Idle
      /\ acceptor = "check" /\ main = "run" /\ curPosted = 0 /\ curUser = 0 /\ curID = 0
      /\ fails = 0 /\ lost = {} /\ bound = {} /\ freed = 0 /\ crash = FALSE
  BY DEF Init
<1>2. /\ indexQueue \in [1 .. Cardinality(Session) -> Session]
      /\ \A s \in Session : \E n \in DOMAIN indexQueue : indexQueue[n] = s
  BY DEF Init
<1>3. \A s \in Session : indexQueue \in Seq(Session) /\ Cardinality(PlacesOf(indexQueue, s)) = 1
  BY <1>2, EachOnce
<1>4. indexQueue \in Seq(Session)
  BY MMOSessionAssumption, FS_CardinalityType, <1>2
<1>5. MaxClient \in Nat
  BY MMOSessionAssumption
<1>6. NewSession \in SessionRec
  BY DEF NewSession, SessionRec, Mode
<1>7. TypeOK
  BY <1>1, <1>6, <1>4 DEF NoWork, WorkerStep, Outcome, NoCall, TaskStep, Idle, SenderStep, TypeOK
<1>8. /\ Joining = {} /\ Unposted = {}
      /\ \A s \in Session : JoiningAt(s) = {} /\ Entering(s) = {}
  BY <1>1 DEF Joining, JoiningAt, Unposted, Entering, NoWork
<1>9. \A s \in Session : HoldingWorkers(s) = {} /\ HoldingTasks(s) = {}
  BY <1>1 DEF HoldingWorkers, HoldingTasks, NoWork, NoCall
<1>10. \A s \in Session : sender # [step |-> "send", session |-> s]
  BY <1>1 DEF Idle
<1>11. Cardinality({}) = 0
  BY FS_EmptySet
<1>12. \A s \in Session : Holders(s) = 0
  BY <1>9, <1>10, <1>11 DEF Holders
<1>13. \A s \in Session : /\ posted[s]["accept"] = 0 /\ posted[s]["recv"] = 0
                          /\ posted[s]["send"] = 0 /\ session[s].ioCount = 0
                          /\ session[s].mode = "NONE"
  BY <1>1 DEF Op, NewSession
<1>14. IoCountExact
  BY <1>1, <1>12, <1>13 DEF IoCountExact
<1>15. Served = {} /\ Accepting = {}
  BY <1>13 DEF InUse, Served, Accepting
<1>16. CountersExact
  BY <1>1, <1>8, <1>11, <1>15 DEF CountersExact
<1>17. \A s \in Session : Places(s) = 1
  <2> SUFFICES ASSUME NEW s \in Session PROVE Places(s) = 1
    OBVIOUS
  <2>1. /\ Cardinality(PlacesOf(indexQueue, s)) = 1 /\ Cardinality(JoiningAt(s)) = 0
        /\ posted[s]["accept"] = 0 /\ One(session[s].mode # "NONE") = 0
    BY <1>3, <1>8, <1>11, <1>13 DEF One
  <2> QED
    BY <1>7, <2>1, PlacesType
<1>18. PlacesOK
  BY <1>1, <1>17 DEF PlacesOK, SessionInOnePlace
<1>19. ModeOK /\ EnterOK
  BY <1>8, <1>13 DEF ModeOK, EnterOK
<1>20. TaskOK
  BY <1>1 DEF TaskOK, NoCall
<1>21. ClientsOK /\ PostedOK
  BY <1>1, <1>5, <1>8, <1>11, <1>15 DEF ClientsOK, PostedOK
<1> QED
  BY <1>7, <1>14, <1>16, <1>18, <1>19, <1>20, <1>21 DEF SessionInv

LEMMA AcceptThreadKeeps == ASSUME SessionInv, AcceptThread PROVE SessionInv'
  BY AcceptorStep, Accept_PostKeeps, Accept_Post_FailKeeps DEF Update_AcceptThread_Check,
     Update_AcceptThread_Sleep, Update_AcceptThread_Exit, AcceptThread

LEMMA WorkerThreadKeeps ==
    ASSUME SessionInv, NEW w \in Worker, WorkerThread(w) PROVE SessionInv'
<1>1. ASSUME NEW s \in Session, Handle(w, s) PROVE SessionInv'
  BY <1>1, Accept_CompleteKeeps, SetIoCompletionPortKeeps, PostedKeeps, UserKeeps, DropKeeps, Recv_CompleteKeeps, ZeroKeeps, Send_CompleteKeeps,
     ReleaseKeeps, FlagKeeps, FreeKeeps DEF Handle
<1>2. ASSUME NEW s \in Session, NEW o \in Outcome, GetQueuedCompletionStatus(w, s, o)
      PROVE  SessionInv'
  BY <1>2, GetQueuedCompletionStatusKeeps
<1>3. CASE Update_WorkerThread_Exit(w)
  BY <1>3, WorkerExitKeeps
<1> QED
  BY <1>1, <1>2, <1>3 DEF WorkerThread

LEMMA SendThreadKeeps == ASSUME SessionInv, SendThread PROVE SessionInv'
  BY SenderExitKeeps, ClaimKeeps, CheckKeeps, DequeueKeeps, CountKeeps, Send_PostKeeps,
     Send_FailKeeps, UnsendKeeps, SendFlagKeeps DEF SendStep, SendThread

LEMMA FramesKeep ==
    ASSUME SessionInv, NEW s \in Session, AuthFrame(s) \/ GameFrame(s) PROVE SessionInv'
  BY MovesKeeps, Game_ReleaseProcKeeps DEF Mode, Auth_PacketProc_Logout, Auth_LogoutProc,
     Auth_LeaveProc, Game_AuthToGameProc, Game_PacketProc_Logout, Game_LeaveProc, AuthFrame,
     GameFrame

LEMMA ThreadsKeep == ASSUME SessionInv, Threads PROVE SessionInv'
  BY ThreadExitKeeps, CallStarts, CallStepKeeps, SetMode_GAMEKeeps, FramesKeep,
     ReleaseSession_CheckKeeps, ReleaseSessionKeeps
     DEF Threads

LEMMA SessionInvStep == ASSUME SessionInv, [Next]_vars PROVE SessionInv'
  BY AcceptThreadKeeps, WorkerThreadKeeps, SendThreadKeeps, ThreadsKeep, ClientClosesKeeps,
     StopStepKeeps, QuietStep DEF SessionInv, TypeOK, vars, threadVars, poolVars, SessionVars, Next

(* The invariant that both results below rest on.                           *)
LEMMA SessionInvAlways == Spec => []SessionInv
<1> USE DEF Spec
<1> QED
  BY SessionInvInit, SessionInvStep, PTL

(* However the visits of the threads overlap, _ioCount of every session is  *)
(* the operations pending on it and the threads that hold it, so it is      *)
(* never below zero and cCrashDump::Crash is not reached; _curUser counts   *)
(* the sessions in use, but for those a worker is letting in, and           *)
(* _curPostedAcceptEx, until the listen socket is closed, the accepts that  *)
(* are pending or being handled and those that failed, at once or when they *)
(* completed: each of these stays counted for good.                         *)
(* (Accept_Complete, Recv_Complete, Send_Complete, SendPacket, Disconnect)  *)
THEOREM SessionCountsSound == Spec => []CountsSound
<1>1. SessionInv => CountsSound
  BY DEF SessionInv, CountsSound
<1> QED
  BY <1>1, SessionInvAlways, PTL

(* While the server accepts clients, every session object is in the index   *)
(* queue, or waits for a client, or serves one, and only one of these: none *)
(* is freed twice and none is handed to two clients.  The sessions whose    *)
(* accept failed after it was posted, and no others, are in none of them.   *)
(* (ReleaseSession, Update_AcceptThread, Accept_Complete)                   *)
THEOREM SessionsInOnePlace == Spec => []SessionInOnePlace
<1>1. SessionInv => SessionInOnePlace
  BY DEF SessionInv, PlacesOK
<1> QED
  BY <1>1, SessionInvAlways, PTL

-----------------------------------------------------------------------------
(* What SessionPassesClean rests on, where visits do not overlap.           *)

Resting(k) == k.step \in {"idle", "exit"}
AllRest    == /\ \A w \in Worker : Resting(worker[w])
              /\ \A t \in Thread : Resting(task[t])
              /\ Resting(sender)

(* One thread at most is in a visit.                                        *)
OnlyWorker(w) == /\ \A v \in Worker : v # w => Resting(worker[v])
                 /\ \A t \in Thread : Resting(task[t])
                 /\ Resting(sender)
OnlyTask(t)   == /\ \A w \in Worker : Resting(worker[w])
                 /\ \A u \in Thread : u # t => Resting(task[u])
                 /\ Resting(sender)
OnlySender    == /\ \A w \in Worker : Resting(worker[w])
                 /\ \A t \in Thread : Resting(task[t])
Solo == /\ \A w \in Worker : Resting(worker[w]) \/ OnlyWorker(w)
        /\ \A t \in Thread : Resting(task[t]) \/ OnlyTask(t)
        /\ Resting(sender) \/ OnlySender

(* A session r with the operations p pending on it.                         *)
MeantFor(q, id) == \A n \in DOMAIN q : q[n] = id
CleanAt(r, p) ==
    /\ p["send"] <= 1
    /\ p["send"] > 0 => r.sendIO = 1 /\ r.sendPacketSize > 0
    /\ r.mode = "NONE" => p["recv"] = 0 /\ p["send"] = 0 /\ r.sendq = <<>>
    /\ MeantFor(r.sendq, r.clientID)
    /\ r.sendPacketSize > 0 => MeantFor(r.packetBuffer, r.clientID)

(* What a thread that visits s, standing at k, knows of it.                 *)
WorkerAt(k, s, r, p) ==
    k.session = s =>
      /\ k.step = "handle" /\ k.outcome = "sent" => p["send"] = 0
      /\ k.step = "handle" /\ k.outcome = "received" => r.mode # "NONE"
      /\ k.step = "port" => r.mode # "NONE"
      /\ k.step \in {"flag", "free"} => r.ioCount = 0
TaskAt(k, s, r) ==
    k.session = s =>
      /\ k.step \in {"SendPacket", "enqueue"} => k.packet = r.clientID /\ r.mode # "NONE"
      /\ k.step = "ReleaseSession" => r.ioCount = 0
SenderAt(k, s, r, p) ==
    k.session = s =>
      /\ k.step \in {"check", "dequeue", "count", "send", "unsend", "unsend_last"} =>
           r.sendIO = 1 /\ p["send"] = 0
      /\ k.step \in {"dequeue", "count", "send"} => r.mode # "NONE"
      /\ k.step = "dequeue" => r.sendq # <<>>
      /\ k.step = "count" => r.packetBuffer # <<>> /\ MeantFor(r.packetBuffer, r.clientID)
      /\ k.step = "send" => r.sendPacketSize > 0

CleanInv ==
    /\ Solo
    /\ \A s \in Session :
         /\ CleanAt(session[s], posted[s])
         /\ \A w \in Worker : WorkerAt(worker[w], s, session[s], posted[s])
         /\ \A t \in Thread : TaskAt(task[t], s, session[s])
         /\ SenderAt(sender, s, session[s], posted[s])

-----------------------------------------------------------------------------
(* A step of one thread.                                                    *)

LEMMA VisitingIs == ~Visiting <=> AllRest
  BY DEF Visiting, AllRest, Resting

LEMMA MayVisitIs == ASSUME ~Overlap, MayVisit PROVE AllRest
  BY VisitingIs DEF MayVisit

(* A thread that rests knows nothing of a session.                          *)
LEMMA RestKnows ==
    ASSUME NEW k, Resting(k), NEW s, NEW r, NEW p
    PROVE  WorkerAt(k, s, r, p) /\ TaskAt(k, s, r) /\ SenderAt(k, s, r, p)
  BY DEF Resting, WorkerAt, TaskAt, SenderAt

OnlyAt(s) == \A x \in Session : x # s => session'[x] = session[x] /\ posted'[x] = posted[x]

(* Worker w, alone in its visit of s, comes to k.                           *)
LEMMA WorkerVisits ==
    ASSUME CleanInv, NEW w \in Worker, NEW s \in Session, NEW k,
           worker \in [Worker -> WorkerRec],
           AllRest \/ OnlyWorker(w), worker' = [worker EXCEPT ![w] = k], UNCHANGED <<task, sender>>,
           Resting(k) \/ k.session = s, OnlyAt(s),
           CleanAt(session'[s], posted'[s]), WorkerAt(k, s, session'[s], posted'[s])
    PROVE  CleanInv'
<1>1. worker'[w] = k /\ \A v \in Worker : v # w => worker'[v] = worker[v]
  OBVIOUS
<1>2. OnlyWorker(w)'
  BY <1>1 DEF AllRest, OnlyWorker
<1>3. Solo'
  BY <1>2 DEF Solo, OnlyWorker
<1>4. \A x \in Session : CleanAt(session'[x], posted'[x])
  BY DEF CleanInv, OnlyAt
<1>5. \A x \in Session : x # s => WorkerAt(k, x, session'[x], posted'[x])
  BY RestKnows DEF WorkerAt
<1>6. \A x \in Session : \A v \in Worker : WorkerAt(worker'[v], x, session'[x], posted'[x])
  BY <1>1, <1>2, <1>5, RestKnows DEF OnlyWorker
<1>7. \A x \in Session : /\ \A t \in Thread : TaskAt(task'[t], x, session'[x])
                         /\ SenderAt(sender', x, session'[x], posted'[x])
  BY <1>2, RestKnows DEF OnlyWorker
<1> QED
  BY <1>3, <1>4, <1>6, <1>7 DEF CleanInv

LEMMA TaskVisits ==
    ASSUME CleanInv, NEW t \in Thread, NEW s \in Session, NEW k,
           task \in [Thread -> TaskRec],
           AllRest \/ OnlyTask(t), task' = [task EXCEPT ![t] = k], UNCHANGED <<worker, sender>>,
           Resting(k) \/ k.session = s, OnlyAt(s),
           CleanAt(session'[s], posted'[s]), TaskAt(k, s, session'[s])
    PROVE  CleanInv'
<1>1. task'[t] = k /\ \A u \in Thread : u # t => task'[u] = task[u]
  OBVIOUS
<1>2. OnlyTask(t)'
  BY <1>1 DEF AllRest, OnlyTask
<1>3. Solo'
  BY <1>2 DEF Solo, OnlyTask
<1>4. \A x \in Session : CleanAt(session'[x], posted'[x])
  BY DEF CleanInv, OnlyAt
<1>5. \A x \in Session : x # s => TaskAt(k, x, session'[x])
  BY RestKnows DEF TaskAt
<1>6. \A x \in Session : \A u \in Thread : TaskAt(task'[u], x, session'[x])
  BY <1>1, <1>2, <1>5, RestKnows DEF OnlyTask
<1>7. \A x \in Session : /\ \A w \in Worker : WorkerAt(worker'[w], x, session'[x], posted'[x])
                         /\ SenderAt(sender', x, session'[x], posted'[x])
  BY <1>2, RestKnows DEF OnlyTask
<1> QED
  BY <1>3, <1>4, <1>6, <1>7 DEF CleanInv

LEMMA SenderVisits ==
    ASSUME CleanInv, NEW s \in Session,
           AllRest \/ OnlySender, UNCHANGED <<worker, task>>,
           Resting(sender') \/ sender'.session = s, OnlyAt(s),
           CleanAt(session'[s], posted'[s]), SenderAt(sender', s, session'[s], posted'[s])
    PROVE  CleanInv'
<1>1. OnlySender'
  BY DEF AllRest, OnlySender
<1>2. Solo'
  BY <1>1 DEF Solo, OnlySender
<1>3. \A x \in Session : CleanAt(session'[x], posted'[x])
  BY DEF CleanInv, OnlyAt
<1>4. \A x \in Session : x # s => SenderAt(sender', x, session'[x], posted'[x])
  <2> SUFFICES ASSUME NEW x \in Session, x # s PROVE SenderAt(sender', x, session'[x], posted'[x])
    OBVIOUS
  <2>1. CASE Resting(sender')
    BY <2>1, RestKnows
  <2>2. CASE sender'.session = s
    BY <2>2 DEF SenderAt
  <2> QED
    BY <2>1, <2>2
<1>5. \A x \in Session : /\ \A w \in Worker : WorkerAt(worker'[w], x, session'[x], posted'[x])
                         /\ \A t \in Thread : TaskAt(task'[t], x, session'[x])
  BY <1>1, RestKnows DEF OnlySender
<1> QED
  BY <1>2, <1>3, <1>4, <1>5 DEF CleanInv

(* A step on s between visits.                                              *)
LEMMA NobodyVisits ==
    ASSUME CleanInv, NEW s \in Session, AllRest, UNCHANGED <<worker, task, sender>>, OnlyAt(s),
           CleanAt(session'[s], posted'[s])
    PROVE  CleanInv'
  BY RestKnows, SenderVisits DEF AllRest

(* A step that leaves the sessions alone.                                   *)
LEMMA CleanKept ==
    ASSUME CleanInv, UNCHANGED <<session, posted, worker, task, sender>>
    PROVE  CleanInv'
  BY DEF CleanInv, Solo, OnlyWorker, OnlyTask, OnlySender

(* All threads rest before a step and after it.                             *)
LEMMA RestsOn ==
    ASSUME CleanInv, AllRest', UNCHANGED <<session, posted>>
    PROVE  CleanInv'
  BY RestKnows DEF AllRest, Solo, CleanInv

-----------------------------------------------------------------------------
(* What the operators on a session record leave.                            *)

SameData(r, q) == /\ q.mode = r.mode /\ q.clientID = r.clientID /\ q.sendq = r.sendq
                  /\ q.sendIO = r.sendIO /\ q.sendPacketSize = r.sendPacketSize
                  /\ q.packetBuffer = r.packetBuffer

LEMMA DataKept ==
    ASSUME NEW r, NEW q, NEW p, NEW o, CleanAt(r, p), SameData(r, q),
           o["send"] = p["send"], o["recv"] = p["recv"]
    PROVE  CleanAt(q, o)
  BY DEF CleanAt, SameData

LEMMA PlainData ==
    ASSUME NEW r \in SessionRec
    PROVE  /\ SameData(r, [r EXCEPT !.bLogoutFlag = TRUE])
           /\ SameData(r, [r EXCEPT !.bShutdown = TRUE])
           /\ SameData(r, [r EXCEPT !.bAuthToGameFlag = TRUE])
  BY DEF SessionRec, SameData

LEMMA CountData ==
    ASSUME NEW r \in SessionRec, NEW d \in Int
    PROVE  SameData(r, Count(r, d))
  BY DEF SessionRec, Count, SameData

(* What was sent is freed: nothing is left to send of it.                   *)
LEMMA FreedData ==
    ASSUME NEW r \in SessionRec
    PROVE  LET q == FreeSentPacket(r)
           IN  /\ q \in SessionRec
               /\ q.mode = r.mode /\ q.clientID = r.clientID /\ q.sendq = r.sendq
               /\ q.sendIO = r.sendIO /\ q.sendPacketSize = 0
<1> DEFINE f == [r EXCEPT !.sendPacketSize = 0, !.packetBuffer = <<>>]
<1>1. f.mode = r.mode /\ f.clientID = r.clientID /\ f.sendq = r.sendq
      /\ f.sendIO = r.sendIO /\ f.sendPacketSize = 0
  BY DEF SessionRec
<1> HIDE DEF f
<1>2. FreeSentPacket(r) = IF r.sendPacketSize = 0 THEN r ELSE f
  BY DEF FreeSentPacket, f
<1> QED
  BY <1>1, <1>2, FreeUse

LEMMA SentClean ==
    ASSUME NEW r \in SessionRec, NEW p, CleanAt(r, p), p["send"] = 0
    PROVE  CleanAt([FreeSentPacket(r) EXCEPT !.sendIO = 0], p)
<1> DEFINE f == FreeSentPacket(r)
           q == [f EXCEPT !.sendIO = 0]
<1>1. f \in SessionRec /\ f.mode = r.mode /\ f.clientID = r.clientID /\ f.sendq = r.sendq
      /\ f.sendPacketSize = 0
  BY FreedData
<1> HIDE DEF f
<1>2. q.mode = r.mode /\ q.clientID = r.clientID /\ q.sendq = r.sendq /\ q.sendPacketSize = 0
  BY <1>1 DEF SessionRec
<1> HIDE DEF q
<1>3. CleanAt(q, p)
  BY <1>2 DEF CleanAt
<1> QED
  BY <1>3 DEF q, f

LEMMA BufferData ==
    ASSUME NEW r \in SessionRec
    PROVE  LET q == InitBuffer(r)
           IN  q \in SessionRec /\ q.sendq = <<>> /\ q.sendPacketSize = 0
<1> DEFINE f == FreeSentPacket(r)
<1>1. f \in SessionRec /\ f.sendPacketSize = 0
  BY FreedData
<1> HIDE DEF f
<1>2. [f EXCEPT !.sendq = <<>>].sendq = <<>> /\ [f EXCEPT !.sendq = <<>>].sendPacketSize = 0
  BY <1>1 DEF SessionRec
<1> QED
  BY <1>2, InitBufferUse DEF InitBuffer, f

LEMMA NothingMeant == \A id : MeantFor(<<>>, id)
  BY DEF MeantFor

(* A session handed to its next client, or released, has nothing to send.   *)
LEMMA JoinedClean ==
    ASSUME NEW r \in SessionRec, NEW id \in Client, NEW p, p["send"] = 0
    PROVE  CleanAt(Joined(r, id), p) /\ Joined(r, id).mode = "AUTH"
<1> DEFINE b == InitBuffer(r)
           j == [b EXCEPT !.clientID = id, !.sendIO = 0, !.mode = "AUTH",
                    !.bAuthToGameFlag = FALSE, !.bLogoutFlag = FALSE,
                    !.bShutdown = FALSE, !.bDisconnect = FALSE]
<1>1. b \in SessionRec /\ b.sendq = <<>> /\ b.sendPacketSize = 0
  BY BufferData
<1> HIDE DEF b
<1>2. j.sendq = <<>> /\ j.sendPacketSize = 0 /\ j.mode = "AUTH"
  BY <1>1 DEF SessionRec
<1> HIDE DEF j
<1>3. CleanAt(j, p)
  BY <1>2, NothingMeant DEF CleanAt
<1> QED
  BY <1>2, <1>3 DEF Joined, j, b

LEMMA ReleasedClean ==
    ASSUME NEW r \in SessionRec, NEW p, p["send"] = 0, p["recv"] = 0
    PROVE  CleanAt([InitSession(r) EXCEPT !.bDisconnect = TRUE], p)
<1> DEFINE b == InitBuffer(r)
           j == [[b EXCEPT !.mode = "NONE", !.clientID = 0] EXCEPT !.bDisconnect = TRUE]
<1>1. b \in SessionRec /\ b.sendq = <<>> /\ b.sendPacketSize = 0
  BY BufferData
<1> HIDE DEF b
<1>2. j.sendq = <<>> /\ j.sendPacketSize = 0
  BY <1>1 DEF SessionRec
<1> HIDE DEF j
<1>3. CleanAt(j, p)
  BY <1>2, NothingMeant DEF CleanAt
<1> QED
  BY <1>3 DEF InitSession, j, b

-----------------------------------------------------------------------------
(* What a step can rely on.                                                 *)

LEMMA Ops == "accept" \in Op /\ "recv" \in Op /\ "send" \in Op
  BY DEF Op

LEMMA CleanOf ==
    ASSUME SessionInv, CleanInv, NEW s \in Session
    PROVE  /\ session[s] \in SessionRec /\ session[s].ioCount \in Int
           /\ posted[s]["accept"] \in Nat /\ posted[s]["recv"] \in Nat /\ posted[s]["send"] \in Nat
           /\ CleanAt(session[s], posted[s])
           /\ task \in [Thread -> TaskRec] /\ worker \in [Worker -> WorkerRec]
<1>1. session[s] \in SessionRec /\ posted[s] \in [Op -> Nat]
      /\ task \in [Thread -> TaskRec] /\ worker \in [Worker -> WorkerRec]
  BY DEF SessionInv, TypeOK, TaskRec, WorkerRec
<1>2. session[s].ioCount \in Int
  BY <1>1 DEF SessionRec
<1> QED
  BY <1>1, <1>2 DEF CleanInv, Op

(* What is pending is counted; where the count is zero nothing is.          *)
LEMMA PendingCounted ==
    ASSUME SessionInv, NEW s \in Session
    PROVE  session[s].ioCount >= posted[s]["recv"] + posted[s]["send"]
<1>1. /\ posted[s]["accept"] \in Nat /\ posted[s]["recv"] \in Nat /\ posted[s]["send"] \in Nat
  BY Ops DEF SessionInv, TypeOK
<1>2. Cardinality(HoldingWorkers(s)) \in Nat /\ Cardinality(HoldingTasks(s)) \in Nat
  BY HoldersFinite
<1>3. Holders(s) \in Nat
  BY <1>2 DEF Holders
<1>4. session[s].ioCount = posted[s]["accept"] + posted[s]["recv"] + posted[s]["send"] + Holders(s)
  BY DEF SessionInv, IoCountExact
<1> QED
  BY <1>1, <1>3, <1>4

LEMMA NothingPending ==
    ASSUME SessionInv, CleanInv, NEW s \in Session, session[s].ioCount = 0
    PROVE  posted[s]["recv"] = 0 /\ posted[s]["send"] = 0
  BY CleanOf, PendingCounted

(* A session is set to q.                                                   *)
LEMMA SetIs ==
    ASSUME SessionInv, NEW s \in Session, NEW q, Set(s, q)
    PROVE  session'[s] = q /\ \A x \in Session : x # s => session'[x] = session[x]
  BY DEF SessionInv, TypeOK, Set

LEMMA PostIs ==
    ASSUME SessionInv, NEW s \in Session, NEW o \in Op, Post(s, o)
    PROVE  /\ posted'[s][o] = posted[s][o] + 1
           /\ \A p \in Op : p # o => posted'[s][p] = posted[s][p]
           /\ \A x \in Session : x # s => posted'[x] = posted[x]
  BY PostUse DEF SessionInv

-----------------------------------------------------------------------------
(* The steps.                                                               *)

LEMMA Accept_PostClean ==
    ASSUME SessionInv, CleanInv, ~Overlap, NEW s \in Session, Accept_Post(s) PROVE CleanInv'
  BY MayVisitIs, CleanOf, CountData, SetIs, PostIs, Ops, DataKept, NobodyVisits DEF Accept_Post,
     OnlyAt

LEMMA AcceptThreadClean ==
    ASSUME SessionInv, CleanInv, ~Overlap, AcceptThread PROVE CleanInv'
  BY CleanKept, Accept_PostClean DEF Update_AcceptThread_Check, Update_AcceptThread_Sleep,
     Update_AcceptThread_Exit, Accept_Post_Fail, AcceptThread

(* A worker takes a completion: what ended is pending no more.              *)
LEMMA GetQueuedCompletionStatusClean ==
    ASSUME SessionInv, CleanInv, ~Overlap, NEW w \in Worker, NEW s \in Session,
           NEW o \in Outcome, GetQueuedCompletionStatus(w, s, o)
    PROVE  CleanInv'
<1> DEFINE e == EndOf(o)
           k == [step |-> "handle", session |-> s, outcome |-> o]
<1>1. /\ AllRest /\ posted[s][e] > 0 /\ worker' = [worker EXCEPT ![w] = k]
      /\ posted' = [posted EXCEPT ![s][e] = @ - 1]
      /\ UNCHANGED <<session, task, sender>>
  BY MayVisitIs DEF GetQueuedCompletionStatus
<1>2. e \in Op /\ (o = "sent" => e = "send") /\ (o = "received" => e = "recv")
  BY Ends, Ops DEF Outcome
<1> HIDE DEF e
<1>3. /\ posted'[s][e] = posted[s][e] - 1
      /\ \A p \in Op : p # e => posted'[s][p] = posted[s][p]
      /\ \A x \in Session : x # s => posted'[x] = posted[x]
  BY <1>1, <1>2 DEF SessionInv, TypeOK
<1>4. /\ CleanAt(session[s], posted[s]) /\ posted[s]["recv"] \in Nat /\ posted[s]["send"] \in Nat
      /\ worker \in [Worker -> WorkerRec]
  BY CleanOf
<1>5. CASE e = "send"
  <2>1. posted[s]["send"] = 1 /\ posted'[s]["send"] = 0 /\ posted'[s]["recv"] = posted[s]["recv"]
    BY <1>1, <1>3, <1>4, <1>5, Ops DEF CleanAt
  <2>2. CleanAt(session'[s], posted'[s])
    BY <1>1, <1>4, <2>1 DEF CleanAt
  <2>3. WorkerAt(k, s, session'[s], posted'[s])
    BY <1>2, <1>5, <2>1 DEF WorkerAt
  <2> QED
    BY <1>1, <1>3, <1>4, <2>2, <2>3, WorkerVisits DEF OnlyAt
<1>6. CASE e = "recv"
  <2>1. posted'[s]["send"] = posted[s]["send"] /\ session[s].mode # "NONE"
    BY <1>1, <1>3, <1>4, <1>6, Ops DEF CleanAt
  <2>2. CleanAt(session'[s], posted'[s])
    BY <1>1, <1>4, <2>1 DEF CleanAt
  <2>3. WorkerAt(k, s, session'[s], posted'[s])
    BY <1>1, <1>2, <1>6, <2>1 DEF WorkerAt
  <2> QED
    BY <1>1, <1>3, <1>4, <2>2, <2>3, WorkerVisits DEF OnlyAt
<1>7. CASE e = "accept"
  <2>1. posted'[s]["send"] = posted[s]["send"] /\ posted'[s]["recv"] = posted[s]["recv"]
    BY <1>3, <1>7, Ops
  <2>2. CleanAt(session'[s], posted'[s])
    BY <1>1, <1>4, <2>1 DEF CleanAt
  <2>3. WorkerAt(k, s, session'[s], posted'[s])
    BY <1>2, <1>7 DEF WorkerAt
  <2> QED
    BY <1>1, <1>3, <1>4, <2>2, <2>3, WorkerVisits DEF OnlyAt
<1> QED
  BY <1>2, <1>5, <1>6, <1>7 DEF Op

(* A handler of w for s, which goes on to the reference.                    *)
LEMMA HandlesIs ==
    ASSUME SessionInv, CleanInv, NEW w \in Worker, NEW s \in Session, NEW o, Handles(w, s, o)
    PROVE  /\ OnlyWorker(w)
           /\ worker[w].step = "handle" /\ worker[w].outcome = o /\ worker[w].session = s
           /\ \E k : /\ worker' = [worker EXCEPT ![w] = k]
                     /\ k.session = s
                     /\ \A r, p : WorkerAt(k, s, r, p)
           /\ WorkerAt(worker[w], s, session[s], posted[s])
<1> DEFINE k == [worker[w] EXCEPT !.step = "release"]
<1>1. worker[w] \in WorkerRec
  BY CleanOf
<1>2. k.session = worker[w].session /\ k.step = "release"
  BY <1>1 DEF WorkerRec
<1>3. worker' = [worker EXCEPT ![w] = k]
  BY DEF Handles
<1> HIDE DEF k
<1>4. worker[w].step = "handle" /\ worker[w].outcome = o /\ worker[w].session = s
  BY DEF Handles
<1>5. \A r, p : WorkerAt(k, s, r, p)
  BY <1>2 DEF WorkerAt
<1>6. OnlyWorker(w)
  BY <1>4 DEF CleanInv, Solo, Resting
<1> QED
  BY <1>2, <1>3, <1>4, <1>5, <1>6 DEF CleanInv

LEMMA HandlerClean ==
    ASSUME SessionInv, CleanInv, NEW w \in Worker, NEW s \in Session, NEW o, Handles(w, s, o),
           UNCHANGED <<task, sender>>, OnlyAt(s), CleanAt(session'[s], posted'[s])
    PROVE  CleanInv'
  BY HandlesIs, CleanOf, WorkerVisits

(* A receive is posted again, or cannot be, on a session in use.            *)
LEMMA Recv_PostClean ==
    ASSUME SessionInv, CleanInv, NEW s \in Session, NEW q \in SessionRec, Recv_Post(s, q),
           CleanAt(q, posted[s]), q.mode # "NONE"
    PROVE  OnlyAt(s) /\ CleanAt(session'[s], posted'[s])
  BY SetIs, PostIs, Ops, CountData DEF OnlyAt, CleanAt, SameData, Recv_Post

(* A step of w that lets a client in, on to the step j.                     *)
LEMMA JoinsIs ==
    ASSUME SessionInv, CleanInv, NEW w \in Worker, NEW s \in Session, NEW i \in Joiner,
           NEW j \in Joiner, Joins(w, s, i, j), UNCHANGED <<task, sender>>
    PROVE  /\ OnlyWorker(w)
           /\ WorkerAt([step |-> i, session |-> s, outcome |-> worker[w].outcome], s, session[s], posted[s])
           /\ \E k \in WorkerRec : /\ worker' = [worker EXCEPT ![w] = k]
                                   /\ k.step = j /\ k.session = s
<1>1. /\ worker[w].step = i /\ worker[w].session = s
      /\ \E k \in WorkerRec : /\ worker' = [worker EXCEPT ![w] = k]
                              /\ k.step = j /\ k.session = s
  BY JoinsUse DEF SessionInv
<1>2. OnlyWorker(w)
  BY <1>1 DEF CleanInv, Solo, Resting, Joiner
<1>3. WorkerAt(worker[w], s, session[s], posted[s])
  BY DEF CleanInv
<1>4. WorkerAt([step |-> i, session |-> s, outcome |-> worker[w].outcome], s, session[s], posted[s])
  BY <1>1, <1>3 DEF WorkerAt
<1> QED
  BY <1>1, <1>2, <1>4

(* Such a step leaves s clean; before it goes to the port s is in use.      *)
LEMMA JoinerClean ==
    ASSUME SessionInv, CleanInv, NEW w \in Worker, NEW s \in Session, NEW i \in Joiner,
           NEW j \in Joiner, j # "handle", Joins(w, s, i, j), UNCHANGED <<task, sender>>,
           OnlyAt(s), CleanAt(session'[s], posted'[s]), j = "port" => session'[s].mode # "NONE"
    PROVE  CleanInv'
<1>1. PICK k \in WorkerRec : worker' = [worker EXCEPT ![w] = k] /\ k.step = j /\ k.session = s
  BY JoinsUse DEF SessionInv
<1>2. WorkerAt(k, s, session'[s], posted'[s])
  BY <1>1 DEF WorkerAt, Joiner
<1> QED
  BY <1>1, <1>2, JoinsIs, CleanOf, WorkerVisits

LEMMA Accept_CompleteClean ==
    ASSUME SessionInv, CleanInv, NEW w \in Worker, NEW s \in Session, Accept_Complete(w, s)
    PROVE  CleanInv'
<1> DEFINE j == Joined(session[s], curID + 1)
<1>1. /\ Joins(w, s, "handle", "port") /\ worker[w].outcome = "accepted" /\ Set(s, j)
      /\ UNCHANGED <<posted, task, sender>>
  BY DEF Accept_Complete
<1>2. session[s] \in SessionRec /\ CleanAt(session[s], posted[s]) /\ TypeOK
  BY CleanOf DEF SessionInv
<1> HIDE DEF j
<1>3. Cardinality(JoiningAt(s)) >= 1 /\ Cardinality(Joining) >= 1
  <2>1. "handle" \in Joiner /\ "port" \in Joiner
    BY DEF Joiner
  <2> QED
    BY <1>1, <1>2, <2>1, JoinsCounts
<1>4. session[s].mode = "NONE"
  BY <1>2, <1>3, PlacesType DEF SessionInv, PlacesOK, One
<1>5. posted[s]["send"] = 0
  BY <1>2, <1>4 DEF CleanAt
<1>6. curID + 1 \in Client
  BY <1>2, <1>3, HoldersFinite, MMOSessionAssumption DEF SessionInv, TypeOK, ClientsOK, Client
<1>7. j \in SessionRec /\ CleanAt(j, posted[s]) /\ j.mode = "AUTH"
  BY <1>2, <1>5, <1>6, JoinedUse, JoinedClean DEF j
<1>8. session'[s] = j /\ OnlyAt(s)
  BY <1>1, SetIs DEF OnlyAt
<1> QED
  BY <1>1, <1>7, <1>8, JoinerClean DEF Joiner

LEMMA SetIoCompletionPortClean ==
    ASSUME SessionInv, CleanInv, NEW w \in Worker, NEW s \in Session, SetIoCompletionPort(w, s)
    PROVE  CleanInv'
<1>1. /\ Joins(w, s, "port", "posted") /\ UNCHANGED <<task, sender>>
      /\ Recv_Post(s, session[s]) \/ UNCHANGED <<session, posted>>
  BY DEF SetIoCompletionPort
<1>2. session[s] \in SessionRec /\ CleanAt(session[s], posted[s])
  BY CleanOf
<1>3. session[s].mode # "NONE"
  BY <1>1, JoinsIs DEF Joiner, WorkerAt
<1>4. OnlyAt(s) /\ CleanAt(session'[s], posted'[s])
  BY <1>1, <1>2, <1>3, Recv_PostClean DEF OnlyAt
<1> QED
  BY <1>1, <1>4, JoinerClean DEF Joiner

LEMMA AcceptCountsClean ==
    ASSUME SessionInv, CleanInv, NEW w \in Worker, NEW s \in Session,
           Accept_Complete_Posted(w, s) \/ Accept_Complete_User(w, s)
    PROVE  CleanInv'
<1>1. /\ Joins(w, s, "posted", "user") \/ Joins(w, s, "user", "release")
      /\ UNCHANGED <<session, posted, task, sender>>
  BY DEF Accept_Complete_Posted, Accept_Complete_User
<1>2. OnlyAt(s) /\ CleanAt(session'[s], posted'[s])
  BY <1>1, CleanOf DEF OnlyAt
<1> QED
  BY <1>1, <1>2, JoinerClean DEF Joiner

LEMMA HandleClean ==
    ASSUME SessionInv, CleanInv, NEW w \in Worker, NEW s \in Session, Handle(w, s)
    PROVE  CleanInv'
<1>0. session[s] \in SessionRec /\ session[s].ioCount \in Int /\ CleanAt(session[s], posted[s])
      /\ worker \in [Worker -> WorkerRec] /\ worker[w] \in WorkerRec
      /\ WorkerAt(worker[w], s, session[s], posted[s])
  BY CleanOf DEF CleanInv
<1>1. CASE Accept_Complete(w, s) \/ SetIoCompletionPort(w, s)
  BY <1>1, Accept_CompleteClean, SetIoCompletionPortClean
<1>8. CASE Accept_Complete_Posted(w, s) \/ Accept_Complete_User(w, s)
  BY <1>8, AcceptCountsClean
<1>2. CASE Update_WorkerThread_Drop(w, s) \/ Update_WorkerThread_Zero(w, s)
  BY <1>2, <1>0, HandlerClean DEF Update_WorkerThread_Drop, Update_WorkerThread_Zero, OnlyAt
<1>3. CASE Recv_Complete(w, s)
  BY <1>3, <1>0, HandlesIs, Recv_PostClean, HandlerClean DEF Recv_Complete, WorkerAt
<1>4. CASE Send_Complete(w, s)
  <2> DEFINE q == [FreeSentPacket(session[s]) EXCEPT !.sendIO = 0]
  <2>1. Handles(w, s, "sent") /\ Set(s, q) /\ UNCHANGED <<posted, task, sender>>
    BY <1>4 DEF Send_Complete
  <2>2. posted[s]["send"] = 0
    BY <1>0, <2>1, HandlesIs DEF WorkerAt
  <2>3. CleanAt(q, posted[s])
    BY <1>0, <2>2, SentClean
  <2> HIDE DEF q
  <2>4. OnlyAt(s) /\ CleanAt(session'[s], posted'[s])
    BY <2>1, <2>3, SetIs DEF OnlyAt
  <2> QED
    BY <2>1, <2>4, HandlerClean
<1>5. CASE Update_WorkerThread_Release(w, s)
  <2> DEFINE k == IF session[s].ioCount - 1 = 0 THEN [worker[w] EXCEPT !.step = "flag"] ELSE NoWork
             q == Count(session[s], -1)
  <2>1. /\ worker[w].step = "release" /\ worker[w].session = s
        /\ Set(s, q) /\ worker' = [worker EXCEPT ![w] = k] /\ UNCHANGED <<posted, task, sender>>
    BY <1>5 DEF Update_WorkerThread_Release
  <2>2. OnlyWorker(w)
    BY <2>1 DEF CleanInv, Solo, Resting
  <2>3. q.ioCount = session[s].ioCount - 1 /\ SameData(session[s], q)
    BY <1>0, CountUse, CountData
  <2>4. /\ Resting(k) \/ k.session = s
        /\ WorkerAt(k, s, q, posted[s])
    BY <1>0, <2>1, <2>3, RestKnows DEF WorkerRec, WorkerAt, NoWork, Resting
  <2> HIDE DEF k, q
  <2>5. session'[s] = q /\ OnlyAt(s)
    BY <2>1, SetIs DEF OnlyAt
  <2>6. CleanAt(q, posted[s])
    BY <1>0, <2>3, DataKept
  <2> QED
    BY <1>0, <2>1, <2>2, <2>4, <2>5, <2>6, WorkerVisits
<1>6. CASE Update_WorkerThread_Flag(w, s)
  <2> DEFINE k == [worker[w] EXCEPT !.step = "free"]
             q == [session[s] EXCEPT !.bLogoutFlag = TRUE]
  <2>1. /\ worker[w].step = "flag" /\ worker[w].session = s
        /\ Set(s, q) /\ worker' = [worker EXCEPT ![w] = k] /\ UNCHANGED <<posted, task, sender>>
    BY <1>6 DEF Update_WorkerThread_Flag
  <2>2. OnlyWorker(w)
    BY <2>1 DEF CleanInv, Solo, Resting
  <2>3. q.ioCount = session[s].ioCount /\ SameData(session[s], q)
    BY <1>0, FlagUse, PlainData
  <2>4. k.session = s /\ k.step = "free" /\ session[s].ioCount = 0
    BY <1>0, <2>1 DEF WorkerRec, WorkerAt
  <2> HIDE DEF k, q
  <2>5. session'[s] = q /\ OnlyAt(s)
    BY <2>1, SetIs DEF OnlyAt
  <2>6. CleanAt(q, posted[s]) /\ WorkerAt(k, s, q, posted[s])
    BY <1>0, <2>3, <2>4, DataKept DEF WorkerAt
  <2> QED
    BY <1>0, <2>1, <2>2, <2>4, <2>5, <2>6, WorkerVisits
<1>7. CASE Update_WorkerThread_Free(w, s)
  <2> DEFINE q == [FreeSentPacket(session[s]) EXCEPT !.sendIO = 0]
  <2>1. /\ worker[w].step = "free" /\ worker[w].session = s
        /\ Set(s, q) /\ worker' = [worker EXCEPT ![w] = NoWork] /\ UNCHANGED <<posted, task, sender>>
    BY <1>7 DEF Update_WorkerThread_Free
  <2>2. OnlyWorker(w)
    BY <2>1 DEF CleanInv, Solo, Resting
  <2>3. session[s].ioCount = 0
    BY <1>0, <2>1 DEF WorkerAt
  <2>4. CleanAt(q, posted[s])
    BY <1>0, <2>3, NothingPending, SentClean
  <2> HIDE DEF q
  <2>5. session'[s] = q /\ OnlyAt(s)
    BY <2>1, SetIs DEF OnlyAt
  <2>6. Resting(NoWork) /\ WorkerAt(NoWork, s, q, posted[s])
    BY RestKnows DEF NoWork, Resting
  <2> QED
    BY <1>0, <2>1, <2>2, <2>4, <2>5, <2>6, WorkerVisits
<1> QED
  BY <1>1, <1>2, <1>3, <1>4, <1>5, <1>6, <1>7, <1>8 DEF Handle

-----------------------------------------------------------------------------
(* The send thread: its step on s sets s to q and goes on to k.             *)

LEMMA SenderClean ==
    ASSUME SessionInv, CleanInv, NEW s \in Session, NEW q, NEW k,
           AllRest \/ ~Resting(sender), Set(s, q), sender' = k,
           UNCHANGED <<posted, worker, task>>, Resting(k) \/ k.session = s,
           CleanAt(q, posted[s]), SenderAt(k, s, q, posted[s])
    PROVE  CleanInv'
  BY SetIs, SenderVisits DEF OnlyAt, CleanInv, Solo

LEMMA AtIs ==
    ASSUME SessionInv, CleanInv, NEW s \in Session, NEW j \in SenderStep, j # "idle", j # "exit", At(s, j)
    PROVE  /\ ~Resting(sender) /\ sender.step = j
           /\ \A k \in SenderStep : [sender EXCEPT !.step = k] = [step |-> k, session |-> s]
           /\ SenderAt([step |-> j, session |-> s], s, session[s], posted[s])
  BY AtUse DEF At, CleanInv, Resting, SessionInv

LEMMA SendStepClean ==
    ASSUME SessionInv, CleanInv, NEW s \in Session, SendStep(s) PROVE CleanInv'
<1> DEFINE r == session[s]
           p == posted[s]
           Stand(k) == [step |-> k, session |-> s]
<1>0. /\ r \in SessionRec /\ r.ioCount \in Int /\ CleanAt(r, p)
      /\ Idle.step = "idle" /\ Resting(Idle)
      /\ \A q, o : SenderAt(Idle, s, q, o)
  BY CleanOf, RestKnows DEF Idle, Resting
<1>1. CASE Update_SendThread_Check(s)
  <2>1. At(s, "check") /\ UNCHANGED <<posted, worker, task>>
    BY <1>1 DEF Update_SendThread_Check, UnchangedBySender
  <2>2. /\ ~Resting(sender) /\ SenderAt(Stand("check"), s, r, p)
        /\ [sender EXCEPT !.step = "dequeue"] = Stand("dequeue")
    BY <2>1, AtIs DEF SenderStep
  <2>3. r.sendIO = 1 /\ p["send"] = 0
    BY <2>2 DEF SenderAt
  <2>4. CASE Set(s, [r EXCEPT !.sendIO = 0]) /\ sender' = Idle
    <3> DEFINE q == [r EXCEPT !.sendIO = 0]
    <3>1. /\ q.mode = r.mode /\ q.clientID = r.clientID /\ q.sendq = r.sendq
          /\ q.sendPacketSize = r.sendPacketSize /\ q.packetBuffer = r.packetBuffer
      BY <1>0 DEF SessionRec
    <3> HIDE DEF q
    <3>2. CleanAt(q, p)
      BY <1>0, <2>3, <3>1 DEF CleanAt
    <3>3. Set(s, q)
      BY <2>4 DEF q
    <3> HIDE DEF r, p
    <3> QED
      BY <1>0, <2>1, <2>2, <2>4, <3>2, <3>3, SenderClean DEF p
  <2>5. CASE ~NothingToSend(r) /\ sender' = [sender EXCEPT !.step = "dequeue"] /\ UNCHANGED session
    BY <1>0, <2>5, <2>3, <2>1, <2>2, SenderVisits DEF NothingToSend, CleanAt, SenderAt, OnlyAt,
       CleanInv, Solo
  <2> QED
    BY <1>1, <2>4, <2>5 DEF Update_SendThread_Check
<1>2. CASE Send_Post_Dequeue(s)
  <2> DEFINE q == [r EXCEPT !.packetBuffer = r.sendq, !.sendq = <<>>]
  <2>1. /\ At(s, "dequeue") /\ Set(s, q) /\ sender' = [sender EXCEPT !.step = "count"]
        /\ UNCHANGED <<posted, worker, task>>
    BY <1>2 DEF Send_Post_Dequeue, UnchangedBySender
  <2>2. /\ ~Resting(sender) /\ SenderAt(Stand("dequeue"), s, r, p)
        /\ sender' = Stand("count")
    BY <2>1, AtIs DEF SenderStep
  <2>3. r.sendIO = 1 /\ p["send"] = 0 /\ r.mode # "NONE" /\ r.sendq # <<>>
    BY <2>2 DEF SenderAt
  <2>4. /\ q.mode = r.mode /\ q.clientID = r.clientID /\ q.sendq = <<>>
        /\ q.packetBuffer = r.sendq /\ q.sendIO = r.sendIO
    BY <1>0 DEF SessionRec
  <2> HIDE DEF q
  <2>5. MeantFor(r.sendq, r.clientID)
    BY <1>0 DEF CleanAt
  <2>6. CleanAt(q, p)
    BY <2>3, <2>4, <2>5, NothingMeant DEF CleanAt
  <2>7. SenderAt(Stand("count"), s, q, p)
    BY <2>3, <2>4, <2>5 DEF SenderAt
  <2> QED
    BY <2>1, <2>2, <2>6, <2>7, SenderClean
<1>3. CASE Send_Post_Count(s)
  <2> DEFINE c == Count(r, 1)
             q == [c EXCEPT !.sendPacketSize = Len(r.packetBuffer)]
  <2>1. /\ At(s, "count") /\ Set(s, q) /\ sender' = [sender EXCEPT !.step = "send"]
        /\ UNCHANGED <<posted, worker, task>>
    BY <1>3 DEF Send_Post_Count, UnchangedBySender
  <2>2. /\ ~Resting(sender) /\ SenderAt(Stand("count"), s, r, p)
        /\ sender' = Stand("send")
    BY <2>1, AtIs DEF SenderStep
  <2>3. /\ r.sendIO = 1 /\ p["send"] = 0 /\ r.mode # "NONE" /\ r.packetBuffer # <<>>
        /\ MeantFor(r.packetBuffer, r.clientID)
    BY <2>2 DEF SenderAt
  <2>4. c \in SessionRec /\ SameData(r, c)
    BY <1>0, CountUse, CountData
  <2> HIDE DEF c
  <2>5. /\ q.mode = c.mode /\ q.clientID = c.clientID /\ q.sendq = c.sendq
        /\ q.packetBuffer = c.packetBuffer /\ q.sendIO = c.sendIO
        /\ q.sendPacketSize = Len(r.packetBuffer)
    BY <2>4 DEF SessionRec
  <2> HIDE DEF q
  <2>6. Len(r.packetBuffer) > 0
    BY <1>0, <2>3 DEF SessionRec
  <2>7. CleanAt(q, p)
    BY <1>0, <2>3, <2>4, <2>5 DEF CleanAt, SameData
  <2>8. SenderAt(Stand("send"), s, q, p)
    BY <2>3, <2>4, <2>5, <2>6 DEF SenderAt, SameData
  <2>9. Set(s, q)
    BY <2>1 DEF q, c
  <2> QED
    BY <2>1, <2>2, <2>7, <2>8, <2>9, SenderClean
<1>4. CASE Send_Post(s)
  <2>1. /\ At(s, "send") /\ Post(s, "send") /\ sender' = Idle
        /\ UNCHANGED <<session, worker, task>>
    BY <1>4 DEF Send_Post, UnchangedBySender
  <2>2. ~Resting(sender) /\ SenderAt(Stand("send"), s, r, p)
    BY <2>1, AtIs DEF SenderStep
  <2>3. r.sendIO = 1 /\ p["send"] = 0 /\ r.mode # "NONE" /\ r.sendPacketSize > 0
    BY <2>2 DEF SenderAt
  <2>4. /\ posted'[s]["send"] = 1 /\ session'[s] = r /\ OnlyAt(s)
    BY <2>1, <2>3, PostIs, Ops DEF OnlyAt
  <2>5. CleanAt(session'[s], posted'[s])
    BY <1>0, <2>3, <2>4 DEF CleanAt
  <2>6. OnlySender
    BY <2>2 DEF CleanInv, Solo
  <2> QED
    BY <1>0, <2>1, <2>4, <2>5, <2>6, SenderVisits
<1>5. CASE Send_Post_Fail(s)
  <2> DEFINE q == Count(r, -1)
             k == IF r.ioCount - 1 = 0 THEN "unsend_last" ELSE "unsend"
  <2>1. /\ At(s, "send") /\ Set(s, q) /\ sender' = [sender EXCEPT !.step = k]
        /\ UNCHANGED <<posted, worker, task>>
    BY <1>5 DEF Send_Post_Fail, UnchangedBySender
  <2>2. k \in {"unsend", "unsend_last"}
    OBVIOUS
  <2> HIDE DEF k
  <2>3. /\ ~Resting(sender) /\ SenderAt(Stand("send"), s, r, p)
        /\ sender' = Stand(k)
    BY <2>1, <2>2, AtIs DEF SenderStep
  <2>4. r.sendIO = 1 /\ p["send"] = 0
    BY <2>3 DEF SenderAt
  <2>5. SameData(r, q)
    BY <1>0, CountData
  <2> HIDE DEF q
  <2>6. CleanAt(q, p)
    BY <1>0, <2>5, DataKept
  <2>7. SenderAt(Stand(k), s, q, p)
    BY <2>2, <2>4, <2>5 DEF SenderAt, SameData
  <2> QED
    BY <2>1, <2>3, <2>6, <2>7, SenderClean
<1>6. CASE Send_Post_Unsend(s)
  <2> DEFINE q == [FreeSentPacket(r) EXCEPT !.sendIO = 0]
  <2>1. /\ At(s, "unsend") \/ At(s, "unsend_last")
        /\ Set(s, q) /\ sender' \in {Idle, [sender EXCEPT !.step = "flag"]}
        /\ UNCHANGED <<posted, worker, task>>
    BY <1>6 DEF Send_Post_Unsend, UnchangedBySender
  <2>2. /\ ~Resting(sender) /\ p["send"] = 0
        /\ sender' \in {Idle, Stand("flag")}
    BY <2>1, AtIs DEF SenderStep, SenderAt
  <2>3. CleanAt(q, p)
    BY <1>0, <2>2, SentClean
  <2> HIDE DEF q
  <2>4. SenderAt(sender', s, q, p) /\ (Resting(sender') \/ sender'.session = s)
    BY <1>0, <2>2 DEF SenderAt
  <2> QED
    BY <2>1, <2>2, <2>3, <2>4, SenderClean
<1>7. CASE Send_Post_Flag(s)
  <2> DEFINE q == [r EXCEPT !.bLogoutFlag = TRUE]
  <2>1. /\ At(s, "flag") /\ Set(s, q) /\ sender' = Idle
        /\ UNCHANGED <<posted, worker, task>>
    BY <1>7 DEF Send_Post_Flag, UnchangedBySender
  <2>2. ~Resting(sender)
    BY <2>1, AtIs DEF SenderStep
  <2>3. SameData(r, q)
    BY <1>0, PlainData
  <2> HIDE DEF q
  <2>4. CleanAt(q, p)
    BY <1>0, <2>3, DataKept
  <2> QED
    BY <1>0, <2>1, <2>2, <2>4, SenderClean
<1> QED
  BY <1>1, <1>2, <1>3, <1>4, <1>5, <1>6, <1>7 DEF SendStep

LEMMA ClaimClean ==
    ASSUME SessionInv, CleanInv, ~Overlap, NEW s \in Session, Update_SendThread_Claim(s)
    PROVE  CleanInv'
<1> DEFINE r == session[s]
           q == [r EXCEPT !.sendIO = 1]
           k == [step |-> "check", session |-> s]
<1>1. /\ AllRest /\ r.sendIO = 0 /\ Set(s, q) /\ sender' = k
      /\ UNCHANGED <<posted, worker, task>>
  BY MayVisitIs DEF Update_SendThread_Claim, UnchangedBySender
<1>2. r \in SessionRec /\ CleanAt(r, posted[s]) /\ posted[s]["send"] \in Nat
  BY CleanOf
<1>3. posted[s]["send"] = 0
  BY <1>1, <1>2 DEF CleanAt
<1>4. /\ q.mode = r.mode /\ q.clientID = r.clientID /\ q.sendq = r.sendq /\ q.sendIO = 1
      /\ q.sendPacketSize = r.sendPacketSize /\ q.packetBuffer = r.packetBuffer
  BY <1>2 DEF SessionRec
<1> HIDE DEF q
<1>5. CleanAt(q, posted[s])
  BY <1>2, <1>3, <1>4 DEF CleanAt
<1>6. SenderAt(k, s, q, posted[s])
  BY <1>3, <1>4 DEF SenderAt
<1> QED
  BY <1>1, <1>5, <1>6, SenderClean

LEMMA SendThreadClean ==
    ASSUME SessionInv, CleanInv, ~Overlap, SendThread PROVE CleanInv'
  BY MayVisitIs, RestsOn, ClaimClean, SendStepClean DEF Update_SendThread_Exit, AllRest, Resting,
     Idle, SendThread

-----------------------------------------------------------------------------
(* The Auth and Game threads and the callers: t sets s to q and goes to k.  *)

LEMMA TaskClean ==
    ASSUME SessionInv, CleanInv, NEW t \in Thread, NEW s \in Session, NEW q, NEW k,
           AllRest \/ ~Resting(task[t]), Set(s, q), task' = [task EXCEPT ![t] = k],
           UNCHANGED <<posted, worker, sender>>, Resting(k) \/ k.session = s,
           CleanAt(q, posted[s]), TaskAt(k, s, q)
    PROVE  CleanInv'
<1>1. session'[s] = q /\ OnlyAt(s)
  BY SetIs DEF OnlyAt
<1>2. AllRest \/ OnlyTask(t)
  BY DEF CleanInv, Solo
<1>3. task \in [Thread -> TaskRec]
  BY CleanOf
<1> QED
  BY <1>1, <1>2, <1>3, TaskVisits

LEMMA InIs ==
    ASSUME SessionInv, CleanInv, NEW t \in Thread, NEW s \in Session, NEW j, j # "idle", j # "exit",
           In(t, s, j)
    PROVE  /\ ~Resting(task[t]) /\ task[t].step = j /\ task[t].session = s
           /\ TaskAt(task[t], s, session[s])
  BY DEF In, Resting, CleanInv

LEMMA NoCallRests == Resting(NoCall) /\ \A s, r : TaskAt(NoCall, s, r)
  BY RestKnows DEF NoCall, Resting

(* A caller looks a session up while nobody is in a visit.                  *)
LEMMA CallClean ==
    ASSUME SessionInv, CleanInv, ~Overlap, NEW t \in Thread, NEW s \in Session, Call(t, s)
    PROVE  CleanInv'
<1> DEFINE m == [step |-> "SendPacket", session |-> s, packet |-> session[s].clientID]
           d == [step |-> "Disconnect", session |-> s, packet |-> 0]
<1>1. /\ AllRest /\ MayCall(t, session[s].mode)
      /\ task' = [task EXCEPT ![t] = m] \/ task' = [task EXCEPT ![t] = d]
      /\ UNCHANGED <<session, posted, worker, sender>>
  BY MayVisitIs DEF Call
<1>2. session[s].mode # "NONE"
  BY <1>1, CalledMode
<1>3. TaskAt(m, s, session[s]) /\ TaskAt(d, s, session[s])
  BY <1>2 DEF TaskAt
<1>4. OnlyAt(s) /\ CleanAt(session'[s], posted'[s]) /\ task \in [Thread -> TaskRec]
  BY <1>1, CleanOf DEF OnlyAt
<1>5. m.session = s /\ d.session = s
  OBVIOUS
<1> HIDE DEF m, d
<1> QED
  BY <1>1, <1>3, <1>4, <1>5, TaskVisits

LEMMA CallStepClean ==
    ASSUME SessionInv, CleanInv, NEW t \in Thread, NEW s \in Session, CallStep(t, s)
    PROVE  CleanInv'
<1> DEFINE r == session[s]
           p == posted[s]
           On(j) == [task[t] EXCEPT !.step = j]
<1>0. /\ r \in SessionRec /\ r.ioCount \in Int /\ CleanAt(r, p)
      /\ task[t] \in TaskRec
      /\ \A j : On(j).step = j /\ On(j).session = task[t].session /\ On(j).packet = task[t].packet
  BY CleanOf DEF TaskRec
<1> HIDE DEF On
<1>1. ASSUME NEW j \in {"SendPacket", "Disconnect"}, NEW k \in {"unref", "enqueue", "shut"},
             k = "enqueue" => j = "SendPacket",
             In(t, s, j), Goto(t, k), Set(s, Count(r, 1)), UNCHANGED UnchangedByCall
      PROVE  CleanInv'
  <2> DEFINE q == Count(r, 1)
  <2>1. ~Resting(task[t]) /\ task[t].step = j /\ task[t].session = s /\ TaskAt(task[t], s, r)
    BY <1>1, InIs
  <2>2. SameData(r, q)
    BY <1>0, CountData
  <2> HIDE DEF q
  <2>3. CleanAt(q, p)
    BY <1>0, <2>2, DataKept
  <2>4. task' = [task EXCEPT ![t] = On(k)] /\ UNCHANGED <<posted, worker, sender>>
    BY <1>1 DEF Goto, On, UnchangedByCall
  <2>5. On(k).session = s /\ TaskAt(On(k), s, q)
    BY <1>0, <1>1, <2>1, <2>2 DEF TaskAt, SameData
  <2>6. Set(s, q)
    BY <1>1 DEF q
  <2> QED
    BY <2>1, <2>3, <2>4, <2>5, <2>6, TaskClean
<1>2. CASE SendPacket(t, s)
  <2> DEFINE k == IF r.ioCount = 0 \/ r.bLogoutFlag \/ r.bShutdown THEN "unref" ELSE "enqueue"
  <2>1. /\ In(t, s, "SendPacket") /\ Goto(t, k) /\ Set(s, Count(r, 1))
        /\ UNCHANGED UnchangedByCall
    BY <1>2 DEF SendPacket
  <2>2. k \in {"unref", "enqueue"}
    OBVIOUS
  <2> HIDE DEF k
  <2> QED
    BY <1>1, <2>1, <2>2
<1>3. CASE Disconnect(t, s)
  <2> DEFINE k == IF r.ioCount = 0 \/ r.bLogoutFlag THEN "unref" ELSE "shut"
  <2>1. /\ In(t, s, "Disconnect") /\ Goto(t, k) /\ Set(s, Count(r, 1))
        /\ UNCHANGED UnchangedByCall
    BY <1>3 DEF Disconnect
  <2>2. k \in {"unref", "shut"}
    OBVIOUS
  <2> HIDE DEF k
  <2> QED
    BY <1>1, <2>1, <2>2
<1>4. CASE SendPacket_Enqueue(t, s)
  <2> DEFINE q == [r EXCEPT !.sendq = Append(r.sendq, task[t].packet)]
  <2>1. /\ In(t, s, "enqueue") /\ Set(s, q) /\ task' = [task EXCEPT ![t] = On("unref")]
        /\ UNCHANGED <<posted, worker, sender>>
    BY <1>4 DEF SendPacket_Enqueue, Goto, On, UnchangedByCall
  <2>2. /\ ~Resting(task[t]) /\ task[t].step = "enqueue" /\ task[t].session = s
        /\ TaskAt(task[t], s, r)
    BY <2>1, InIs
  <2>3. task[t].packet = r.clientID /\ r.mode # "NONE"
    BY <2>2 DEF TaskAt
  <2>4. /\ q.mode = r.mode /\ q.clientID = r.clientID /\ q.sendIO = r.sendIO
        /\ q.sendq = Append(r.sendq, r.clientID)
        /\ q.sendPacketSize = r.sendPacketSize /\ q.packetBuffer = r.packetBuffer
    BY <1>0, <2>3 DEF SessionRec
  <2> HIDE DEF q
  <2>5. MeantFor(Append(r.sendq, r.clientID), r.clientID)
    <3>1. r.sendq \in Seq(Client) /\ MeantFor(r.sendq, r.clientID)
      BY <1>0 DEF SessionRec, CleanAt
    <3> HIDE DEF r
    <3> QED
      BY <3>1 DEF MeantFor
  <2>6. CleanAt(q, p)
    BY <1>0, <2>3, <2>4, <2>5 DEF CleanAt
  <2>7. On("unref").session = s /\ TaskAt(On("unref"), s, q)
    BY <1>0, <2>2 DEF TaskAt
  <2> QED
    BY <2>1, <2>2, <2>6, <2>7, TaskClean
<1>5. CASE Disconnect_Shutdown(t, s)
  <2> DEFINE q == [r EXCEPT !.bShutdown = TRUE]
  <2>1. /\ In(t, s, "shut") /\ Set(s, q) /\ task' = [task EXCEPT ![t] = On("unref")]
        /\ UNCHANGED <<posted, worker, sender>>
    BY <1>5 DEF Disconnect_Shutdown, Goto, On, UnchangedByCall
  <2>2. ~Resting(task[t]) /\ task[t].session = s
    BY <2>1, InIs
  <2>3. SameData(r, q)
    BY <1>0, PlainData
  <2> HIDE DEF q
  <2>4. CleanAt(q, p)
    BY <1>0, <2>3, DataKept
  <2>5. On("unref").session = s /\ TaskAt(On("unref"), s, q)
    BY <1>0, <2>2 DEF TaskAt
  <2> QED
    BY <2>1, <2>2, <2>4, <2>5, TaskClean
<1>6. CASE Unreference(t, s)
  <2> DEFINE q == Count(r, -1)
             k == IF r.ioCount = 1 THEN On("flag") ELSE NoCall
  <2>1. /\ In(t, s, "unref") /\ Set(s, q) /\ task' = [task EXCEPT ![t] = k]
        /\ UNCHANGED <<posted, worker, sender>>
    BY <1>6 DEF Unreference, On, UnchangedByCall
  <2>2. ~Resting(task[t]) /\ task[t].session = s
    BY <2>1, InIs
  <2>3. SameData(r, q)
    BY <1>0, CountData
  <2> HIDE DEF q
  <2>4. CleanAt(q, p)
    BY <1>0, <2>3, DataKept
  <2>5. (Resting(k) \/ k.session = s) /\ TaskAt(k, s, q)
    BY <1>0, <2>2, NoCallRests DEF TaskAt
  <2> HIDE DEF k
  <2> QED
    BY <2>1, <2>2, <2>4, <2>5, TaskClean
<1>7. CASE Unreference_Flag(t, s)
  <2> DEFINE q == [r EXCEPT !.bLogoutFlag = TRUE]
  <2>1. /\ In(t, s, "flag") /\ Set(s, q) /\ task' = [task EXCEPT ![t] = NoCall]
        /\ UNCHANGED <<posted, worker, sender>>
    BY <1>7 DEF Unreference_Flag, UnchangedByCall
  <2>2. ~Resting(task[t])
    BY <2>1, InIs
  <2>3. SameData(r, q)
    BY <1>0, PlainData
  <2> HIDE DEF q
  <2>4. CleanAt(q, p)
    BY <1>0, <2>3, DataKept
  <2> QED
    BY <2>1, <2>2, <2>4, NoCallRests, TaskClean
<1> QED
  BY <1>2, <1>3, <1>4, <1>5, <1>6, <1>7 DEF CallStep

(* Between visits the Auth and Game threads move a session in use on.       *)
LEMMA MovesClean ==
    ASSUME SessionInv, CleanInv, ~Overlap, NEW t, NEW s \in Session, NEW from, NEW to,
           from # "NONE", to # "NONE", Moves(t, s, from, to)
    PROVE  CleanInv'
<1> DEFINE r == session[s]
           q == [r EXCEPT !.mode = to]
<1>1. AllRest /\ r.mode = from /\ Set(s, q) /\ UNCHANGED <<posted, worker, task, sender>>
  BY MayVisitIs DEF Moves, threadVars
<1>2. r \in SessionRec /\ CleanAt(r, posted[s])
  BY CleanOf
<1>3. /\ q.mode = to /\ q.clientID = r.clientID /\ q.sendq = r.sendq /\ q.sendIO = r.sendIO
      /\ q.sendPacketSize = r.sendPacketSize /\ q.packetBuffer = r.packetBuffer
  BY <1>2 DEF SessionRec
<1> HIDE DEF q
<1>4. CleanAt(q, posted[s])
  BY <1>2, <1>3 DEF CleanAt
<1>5. session'[s] = q /\ OnlyAt(s) /\ posted'[s] = posted[s]
  BY <1>1, SetIs DEF OnlyAt
<1> QED
  BY <1>1, <1>4, <1>5, NobodyVisits

LEMMA FramesClean ==
    ASSUME SessionInv, CleanInv, ~Overlap, NEW s \in Session, AuthFrame(s) \/ GameFrame(s)
    PROVE  CleanInv'
<1>1. CASE Auth_PacketProc_Logout(s)
  BY <1>1, MovesClean DEF Auth_PacketProc_Logout
<1>2. CASE Auth_LogoutProc(s)
  BY <1>2, MovesClean DEF Auth_LogoutProc
<1>3. CASE Auth_LeaveProc(s)
  BY <1>3, MovesClean DEF Auth_LeaveProc
<1>4. CASE Game_AuthToGameProc(s)
  BY <1>4, MovesClean DEF Game_AuthToGameProc
<1>5. CASE Game_PacketProc_Logout(s)
  BY <1>5, MovesClean DEF Game_PacketProc_Logout
<1>6. CASE Game_LeaveProc(s)
  BY <1>6, MovesClean DEF Game_LeaveProc
<1>7. CASE Game_ReleaseProc(s)
  <2> DEFINE k == [step |-> "ioCount", session |-> s, packet |-> 0]
  <2>1. /\ AllRest /\ task' = [task EXCEPT !["game"] = k]
        /\ UNCHANGED <<session, posted, worker, sender>>
    BY <1>7, MayVisitIs DEF Game_ReleaseProc
  <2>2. TaskAt(k, s, session[s]) /\ k.session = s
    BY <2>1 DEF TaskAt
  <2> HIDE DEF k
  <2>3. OnlyAt(s) /\ CleanAt(session'[s], posted'[s]) /\ task \in [Thread -> TaskRec]
    BY <2>1, CleanOf DEF OnlyAt
  <2>4. "game" \in Thread
    BY DEF Thread
  <2> QED
    BY <2>1, <2>2, <2>3, <2>4, TaskVisits
<1> QED
  BY <1>1, <1>2, <1>3, <1>4, <1>5, <1>6, <1>7 DEF AuthFrame, GameFrame

LEMMA SetMode_GAMEClean ==
    ASSUME SessionInv, CleanInv, ~Overlap, NEW s \in Session, SetMode_GAME(s) PROVE CleanInv'
<1> DEFINE q == [session[s] EXCEPT !.bAuthToGameFlag = TRUE]
<1>1. AllRest /\ Set(s, q) /\ UNCHANGED <<posted, worker, task, sender>>
  BY MayVisitIs DEF SetMode_GAME, threadVars
<1>2. SameData(session[s], q) /\ CleanAt(session[s], posted[s])
  BY CleanOf, PlainData
<1> HIDE DEF q
<1>3. session'[s] = q /\ OnlyAt(s) /\ posted'[s] = posted[s] /\ CleanAt(q, posted[s])
  BY <1>1, <1>2, SetIs, DataKept DEF OnlyAt
<1> QED
  BY <1>1, <1>3, NobodyVisits

LEMMA ReleaseSession_CheckClean ==
    ASSUME SessionInv, CleanInv, NEW s \in Session, ReleaseSession_Check(s) PROVE CleanInv'
<1> DEFINE r == session[s]
           k == IF r.ioCount # 0 THEN NoCall ELSE [task["game"] EXCEPT !.step = "ReleaseSession"]
<1>1. /\ In("game", s, "ioCount") /\ task' = [task EXCEPT !["game"] = k]
      /\ UNCHANGED <<session, posted, worker, sender>>
  BY DEF ReleaseSession_Check
<1>2. "game" \in Thread /\ CleanAt(r, posted[s]) /\ task \in [Thread -> TaskRec]
  BY CleanOf DEF Thread
<1>3. ~Resting(task["game"]) /\ task["game"].session = s /\ task["game"] \in TaskRec
  BY <1>1, <1>2, InIs
<1>4. (Resting(k) \/ k.session = s) /\ TaskAt(k, s, r)
  BY <1>3, NoCallRests DEF TaskAt, TaskRec
<1> HIDE DEF k
<1> QED
  BY <1>1, <1>2, <1>3, <1>4, TaskVisits DEF CleanInv, Solo, OnlyAt

(* The Game thread releases a session that nothing refers to.               *)
LEMMA ReleaseSessionClean ==
    ASSUME SessionInv, CleanInv, NEW s \in Session, ReleaseSession(s) PROVE CleanInv'
<1> DEFINE r == session[s]
           q == [InitSession(r) EXCEPT !.bDisconnect = TRUE]
<1>1. /\ In("game", s, "ReleaseSession") /\ task' = [task EXCEPT !["game"] = NoCall]
      /\ UNCHANGED session \/ Set(s, q)
      /\ UNCHANGED <<posted, worker, sender>>
  BY DEF ReleaseSession
<1>2. "game" \in Thread /\ r \in SessionRec /\ CleanAt(r, posted[s]) /\ task \in [Thread -> TaskRec]
  BY CleanOf DEF Thread
<1>3. ~Resting(task["game"]) /\ r.ioCount = 0
  BY <1>1, <1>2, InIs DEF TaskAt
<1>4. CleanAt(q, posted[s])
  BY <1>2, <1>3, NothingPending, ReleasedClean
<1> HIDE DEF q
<1>5. CASE Set(s, q)
  BY <1>1, <1>2, <1>3, <1>4, <1>5, NoCallRests, TaskClean
<1>6. CASE UNCHANGED session
  BY <1>2, <1>3, <1>1, <1>6, NoCallRests, TaskVisits DEF CleanInv, Solo, OnlyAt
<1> QED
  BY <1>1, <1>5, <1>6

LEMMA ThreadsClean ==
    ASSUME SessionInv, CleanInv, ~Overlap, Threads PROVE CleanInv'
<1>1. ASSUME NEW t \in Thread, Update_Thread_Exit(t) PROVE CleanInv'
  BY <1>1, MayVisitIs, RestsOn DEF Update_Thread_Exit, SessionInv, TypeOK, TaskRec, AllRest,
     Resting
<1> QED
  BY <1>1, CallClean, CallStepClean, SetMode_GAMEClean, FramesClean,
     ReleaseSession_CheckClean, ReleaseSessionClean DEF Threads

LEMMA WorkerThreadClean ==
    ASSUME SessionInv, CleanInv, ~Overlap, NEW w \in Worker, WorkerThread(w) PROVE CleanInv'
  BY MayVisitIs, RestsOn, HandleClean, GetQueuedCompletionStatusClean DEF Update_WorkerThread_Exit,
     SessionInv, TypeOK, WorkerRec, AllRest, Resting, WorkerThread

LEMMA CleanInit == Init => CleanInv
<1> SUFFICES ASSUME Init PROVE CleanInv
  OBVIOUS
<1>1. AllRest
  BY DEF Init, AllRest, Resting, NoWork, NoCall, Idle
<1>2. \A s \in Session : /\ session[s] = NewSession
                         /\ posted[s]["send"] = 0 /\ posted[s]["recv"] = 0
  BY Ops DEF Init
<1>3. NewSession.sendq = <<>> /\ NewSession.sendPacketSize = 0
  BY DEF NewSession
<1>4. \A s \in Session : CleanAt(session[s], posted[s])
  BY <1>2, <1>3, NothingMeant DEF CleanAt
<1>5. Solo
  BY <1>1 DEF AllRest, Solo
<1> QED
  BY <1>1, <1>4, <1>5, RestKnows DEF CleanInv, AllRest

LEMMA CleanStep == ASSUME SessionInv, CleanInv, ~Overlap, [Next]_vars PROVE CleanInv'
<1>1. ASSUME NEW s \in Session, ClientCloses(s) PROVE CleanInv'
  BY <1>1, CleanKept DEF ClientCloses, threadVars
<1>2. CASE Stop
  BY <1>2, CleanKept DEF Stop
<1>3. CASE StopSteps
  BY <1>3, CleanKept DEF StopSteps, Stop_Shutdown, Stop_Listen, Stop_Accept, Stop_Send, Stop_Threads
<1>4. CASE UNCHANGED vars
  BY <1>4, CleanKept DEF vars, threadVars
<1> QED
  BY <1>1, <1>2, <1>3, <1>4, AcceptThreadClean, WorkerThreadClean, SendThreadClean, ThreadsClean
     DEF Next

(* Where no thread is held up in the middle of a visit, a session passes    *)
(* clean from one client to the next: one send is under way at most, from   *)
(* packets that are kept until it completes, for the client the session     *)
(* serves, and a session that is free has nothing pending and nothing to    *)
(* send. (Send_Post, Send_Complete, InitBuffer, InitSession)                *)
THEOREM SessionsPassClean == ~Overlap => (Spec => []SessionPassesClean)
<1>1. SessionInv /\ CleanInv => SessionPassesClean
  BY DEF CleanInv, CleanAt, MeantFor, SessionPassesClean, OneSendAtATime, PacketsKeptUntilSent,
     FreeSessionIsQuiet, PacketsReachTheirClient
<1> SUFFICES ASSUME ~Overlap PROVE Spec => []SessionPassesClean
  OBVIOUS
<1>2. SessionInv /\ CleanInv /\ [Next]_vars => CleanInv'
  BY CleanStep
<1>3. Spec => []CleanInv
  BY CleanInit, <1>2, SessionInvAlways, PTL DEF Spec
<1> QED
  BY <1>1, <1>3, SessionInvAlways, PTL
=============================================================================
