# Battlesnake servers: a verification project in TLA+

The repository is the server side of a battle-royale game: five Windows
programs that talk to each other over TCP and HTTP, on top of one shared
library of IOCP servers, session objects, lock-free containers and pools.
This directory holds TLA+ models of its control logic, the TLC runs that check
them on small instances, and TLAPS proofs of what holds for every instance.

## 1. The system

```
   client ──login──▶ Match ──room?──▶ Master ◀──rooms, log outs── Battle ◀──▶ Chat
     │                 │ HTTP (session key, master token)            ▲
     └────────────────────────enter room (token)─────────────────────┘
```

| Part | Source (under `src/Source`) | State | Operations |
|---|---|---|---|
| Master server | `Master/CBattleSnake_Master_LanServer` | lists of servers, battle entries, waiting rooms; map of clients sent to a room; pools of rooms and sessions; login counters | login of match and battle servers, room request, enter success / fail, room created / closed, player logged out, token reissue, connection join / leave |
| Match server | `Match/CBattleSnake_Match_NetServer`, `_LanClient`, `_Http` | one session per client (clientKey, status), the connection to Master, a queue of HTTP requests | client login (HTTP session key check), room request forwarded to Master and answered, room enter result, client join / leave, reconnect to Master |
| Battle server | `Battle/CBattleSnake_Battle_MMOServer`, `_BattlePlayer_NetSession`, `_LanClient`, `_LanServer`, `_Http` | array of rooms (Close, Wait, Ready, Play, End), players, connections to Master and Chat | open room, enter room, ready timer, play (red zone, hits, medkits), leave, end and close, token reissue |
| Chat server | `Chat/CBattleSnake_Chat_NetServer`, `_LanClient` | rooms and players mirrored from Battle | room open / close, connect token, client login, enter, chat broadcast, leave |
| MMO server library | `Library/CMMOServer`, `CNetSession` | session array with a mode per session, pending I/O counts, free index stack, queues between threads | accept, receive, send, move between Auth and Game threads, disconnect, release, stop |
| Lan / Net server library | `Library/CLanServer`, `CNetServer`, `CLanClient` | slot array, I/O count and release flag per slot | accept, receive, send, disconnect, release, stop, reconnect |
| HTTP client library | `Library/cHttp_Async`, `Match_Http`, `Battle_Http` | request list, retry state per request | connect, send, receive, fail, timeout, message-thread loop |
| Containers | `cLockFreeQueue.h`, `cMemoryPool.h`, `cMemoryPoolTLS.h`, `cQueue.h`, `cRingBuffer`, `cPacketPool_*` | linked queue with tagged ends, free lists, reference counts, ring indices | enqueue / dequeue, alloc / free / addref, put / get / peek |
| Support | `cSystemLog`, `cThreadProfiler`, `cCrashDump`, `cCpuCounter`, `cPdhCounter`, `Text_Parser`, `cDBConnector*`, `*Monitor*`, `main.cpp` | counters, files | logging, profiling, configuration, reporting |

How the parts interact. A client logs in at Match, which checks its session
key over HTTP. On its room request Match asks Master, which picks the fullest
waiting room that has a place, takes the place, notes the client in its session
map, and answers with the address and tokens of the Battle server. The client
connects there, is checked again and enters the room. Battle tells Master when
it opened a room, when the room is full and closed, and when a player left a
room that still waits; Match tells Master when a client it had sent on was lost
on the way. Chat mirrors the rooms of its Battle server.

What is hard here:

* Four worker threads of Master run the handlers of different connections side
  by side; each handler takes and releases the lock of one list after another
  and keeps raw pointers to pooled objects in between.
* Reports of one event come over two connections (a client lost: Match says so
  and Battle says so), in either order or both.
* Server connections come and go; every restart loses all lists, which the
  peers announce again.
* The library cuts a session's life into accept, receive and send completions
  on many threads; a slot is reused as soon as its last I/O ended.
* HTTP requests are retried and may time out while their answer arrives.

What must hold, per part: Master never sends a client to a room that is gone,
never gives one place to two clients, and gives a place back exactly once;
Match follows one client through its states in order; a Battle room is entered
only while it waits and never by more players than it has places for, and is
closed, opened and counted exactly once; a session slot is released exactly
once and never while I/O is pending; a queue loses and duplicates nothing.

The design is drawn in `src/Source/BattleSnake.pdf`; the models follow the
code, and section 13 says where the two part.

## 2. Plan

| # | Modules | Subject | State |
|---|---|---|---|
| 1 | `Master`, `MCMaster`, `MasterProofs` | registry, admission and release of places in the master | done |
| 2 | `BattleRoom`, `BattleFrames`, `MCBattleRoom`, `MCBattleFrames`, `BattleRoomProofs` | life of a battle room on two threads, with the master and the clients as environment | done |
| 3 | `MMOSession`, `MCMMOSession`, `MMOSessionProofs` | session modes, reference counts, send flag, accept thread, stop | done |
| 4 | `Matchmaking`, `MCMatchmaking`, `MatchmakingProofs` | sessions of a match server, its link to the master, clients that go at any time | done |
| 5 | `FifoQueue`, `QueueState`, `LockFreeQueue`, `QueuePromises`, `MCLockFreeQueue`; proofs in `IocpServerProofs` | the lock-free queue implements a FIFO queue; pooled nodes | done |
| 6 | `HttpAsync`, `HttpLogin`, `MCHttpLogin`, `HttpLoginProofs` | the HTTP client's slots; message threads, wake-ups without the lock, heartbeat, retries, two-answer login | done |
| 7 | `IocpServer`, `MCIocpServer`, `IocpServerProofs` | slot life cycle of `CLanServer` / `CNetServer` | done |
| 8 | `RingBuffer`, `LanClient`, `MCLanClient`, `LanClientProofs` | receive ring and its indices; the client of a link that is lost and connected again | done |
| 9 | `ChatServer`, `MCChatServer`, `ChatServerProofs` | chat rooms mirrored over a link that is lost, the chat server's message thread | done |
| - | `Queues` | what a queue holds of a set, for the proofs of 3, 4 and 6 to 9 | done |
| 10 | - | thread-local chunks and reference counts of the packet pools | left |

`BattleFrames` extends `BattleRoom`, `HttpLogin` extends `HttpAsync`, `LanClient`
instantiates `RingBuffer`, `LockFreeQueue` implements `FifoQueue`. `BattleRoom` has the master as environment,
with the same choices as `Master` makes (section 4), `Matchmaking` the master as
one match server sees it (section 5). Abstract specifications worth
stating: a FIFO queue for the lock-free queue, one owner per slot for the
session servers, a counter of places given out exactly once for Match + Master.
Theorems worth proving: the type invariant and the inductive safety invariants
of each module (done for 1 to 9), the step simulation of `LockFreeQueue` and
`FifoQueue` (done), the index arithmetic of the ring for every size (done).

Where two instances of one module answer one question, a run explores both: the
MC module adds a variable that is set at the start (`serial`, `reliable`) or a
next-state relation that lets the one limit be reached only without the other.
Properties that are about one hazard are one conjunction there.

## 3. Master

`Master.tla` models `CBattleSnake_Master_LanServer`. All lists live in memory,
each under a lock of its own, and four workers of `CLanServer` run the handlers.
The library calls the handlers of *one* connection one after another, and
`OnClientLeave` after the last of them; those of different connections overlap.

| Code | Model |
|---|---|
| `_serverList`, `st_SERVER` | `serverList`, `server[c]` |
| `_battleInfoList`, `_curBattleID` | `battleInfoList`, `curBattleID` |
| `_battleLoginServer`, `_matchConnectServer`, ... | `loginServer`, `connectServer` |
| `_roomPool` object `o`, `_roomList` | `room[o]`, `roomList` |
| `_waitRoomLock` held across steps | `roomLock` (only `Free_BattleInfo` does that) |
| `_sessionPool` object `p`, `_sessionMap` | `session[p]`, `freeSession`, `sessionMap` |
| the stack of the worker that serves connection `c` | `task[c]`: the step it is at, the key, room number and raw pointers it keeps |

One action is one lock region, or one interlocked operation, with the private
work before it. A room request is `Request_Match_RoomInfo` (look the key up) →
`Alloc_Session` → `Find_HighPriorityWaitRoom` (`_Empty`, `_Crash`) →
`Response_Match_RoomInfo_Battle` → `Response_Match_RoomInfo_Assign`. A log out is
`Request_Match_UserEnterFail` or `Request_Battle_UserLogout` → `LogOut_Flag` →
`Increment_WaitRoom` → `Free_Session`. A battle server that leaves goes through
`OnBattleLeave` → `Free_BattleInfo_*` → `OnBattleLeave_Free_Server`. Objects of a
pool keep what they held when they were freed, as in the code, so a kept pointer
may show another client's session or another room. So does the battle entry that a room
request finds under `_battleInfoLock` and reads after it (l. 840-851): `task[c].battle`
keeps it over the unlock, `Free_BattleInfo` may delete the entry in between (l. 370), and
the read then is of freed memory, that is of the entry's old values, of another entry, or of
neither (`BattleRead`). A client may so be sent to a battle server that is gone.

Abstracted: tokens (right or wrong), addresses and names; which of several free
objects a pool returns and which of several equal list entries a walk meets
first are left open. `Request_Match_UserEnterSuccess` and
`Request_Battle_ReissueToken` change nothing the model keeps. `Restart` is the
process coming up again after `cCrashDump::Crash()` or an access violation.

Environment: a battle server reports the departure only of a client that was
sent to it, once per time it was sent (`ticket`); a match server reports a
client lost at most once (`goneKey`), which is what `OnClientLeave` of Match
does. Either may come first, and both may come.

| Run | Asks | Instance | States |
|---|---|---|---|
| `master_workers` | are pool, map, rooms, entries and counters consistent at every lock region? With handlers one at a time, is every place given out once, and does no session outlive its room? | `serial = FALSE`: 2 workers, 1 match and 1 battle server, rooms of 0 or 1 places, 2 room numbers. `serial = TRUE`: 1 worker, 2 battle servers, rooms of 0 to 2 places, 1 room number. Both: 2 clients of one account, 2 room and 2 session objects | about 1.5 million |
| `master_leave` | (finding) | 1 worker, 2 battle servers | some thousands, until it is found |

`CountsSound` is `TypeOK`, `PointersSet`, `CountersExact` and `AvailableNonNegative`, at every lock
region; `PlacesSound` is `SlotsNotOverbooked` and `SessionHasListedRoom` while
`serial` holds.

Bounds. `MaxBattleNo` caps the server numbers handed out (a new battle server
can log in while one is left); one number for each battle connection allows one
battle server to leave in every state of the others, and after a crash the count
starts anew. Two clients of one account are the hard case for
`Find_SessionByAccountNo`; two room objects and two session objects are enough
for one to be freed and reused while a pointer to it is kept; two workers are
enough for every race of two handlers, the only kind the findings need.
`PoolView` identifies states that differ only in objects nobody refers to, which
are overwritten before they are read; the objects of a pool are interchangeable,
so they are symmetric. Neither is used where a temporal property is checked. (The number of states of
a run with a view may differ by a few from one run of TLC to the next.)

Fairness is stated for `master_leave` only, as weak fairness of the steps of each
running handler: a worker that took a packet is never suspended for good, and the
locks are free again whenever no handler is at a step that holds one.

`SlotsNotOverbooked` and `SessionHasListedRoom` are about the logic of the
handlers and are checked with one worker. With two they fail: a pointer kept over
the session lock (section 13) is the reason for the first; for the second, a room
request between the two lock regions of `Free_WaitRoom` sends a client to a room
that has just gone.

## 4. BattleRoom and BattleFrames

`BattleRoom.tla` models the room array of the battle server and the players in
it, with the three threads that touch it without a lock: the Auth thread, the
Game thread and the lan client's worker that handles the master's packets.

| Code | Model |
|---|---|
| `_roomArray[i]`: status, `bReady`, `bReceived`, `curUser`, `aliveUser`, `roomPlayer` | `room[i]` |
| `_roomIndexQueue`, `_curOpenRoom` | `indexQueue`, `curOpenRoom` |
| `CNetSession` and the player object derived from it | `player[p]`: mode, log out and shut down flags, room number, dead or alive |
| where the Auth or Game thread stands inside a handler | `task[t]` |
| `CBattleSnake_Battle_LanClient`: connection, `_bLogin`, the loop of `Receive_MasterRequest_Login` | `linked`, `bLogin`, `announce` |
| packets to the master and its replies | `toMaster` (in order), `closeReply` |
| the master's rooms, its session map, what clients were told | `listed`, `seat`, `ticket` |

A visit of a session or a room is one action, except where the other thread can
come in between and what was read is used afterwards: the leave handler
(`Leaving`: take the player out, count it off, then the mode) and the decrement of
`aliveUser`, which is a load and a store (`Die_Load`, `Die_Store`). With
`Overlap = TRUE` such handlers of both threads interleave; with `Overlap = FALSE`
a thread starts a visit only when the other is between two.

The environment is the master seen from one battle server. `Master_Handle` takes
the packets in order with the effect their handlers have in `Master.tla`,
`Master_SendClient` sends a client to any listed room with a place (which one
the master prefers makes no difference here),
`Master_ClientLost` is the report of Match that a client it had sent on left
Match before it told of its success. `MaxLoss` bounds the reports about clients
that come all the same; `MaxDrop` the losses of the link, which empty both
directions and the master's lists.

`BattleFrames.tla` adds the order in which the two threads visit sessions and
rooms (`turn`). Its steps are `BattleRoom` steps or leave `BattleRoom`'s variables
alone, by construction: forgetting `turn` gives a behaviour of `BattleRoom`.

| Run | Asks | Instance | States |
|---|---|---|---|
| `battle_threads` | are free rooms, open rooms and players counted exactly with both threads in their handlers? With a reliable link, is no place announced twice and no client sent in vain? | 1 room of 2 places, `Overlap`. `reliable = TRUE`: 3 sessions, 2 room numbers, nothing lost. `reliable = FALSE`: 2 clients, 1 lost link or 1 client reported lost that comes all the same | about 1.5 million |
| `battle_live` | do full rooms start, decided games end, ended rooms close, and do leavers leave their room? | 2 sessions, 1 room of 2 places, frames, fair, no overlap | 73,532 |

`AdmissionSound` is `TypeOK` and, while `reliable` holds, `PlacesNotOverbooked` and
`AdmissionNeverFails`; `RoomsRunTheirCourse` is `FullRoomStarts`,
`LastSurvivorEndsGame` and `EndedRoomCloses`.

Bounds. One room of two places is the smallest in which a room fills, loses a
player and fills again, a game is decided by the death or the departure of one of
two, and a third client competes for a place. Several rooms interact only through
`indexQueue` and `curOpenRoom`; the theorems of section 12 cover any number of
them, and instances with two rooms of one place (419 thousand states, 2.8 million
with a lost client) showed nothing new. `MaxRoomID` bounds the numbers in use at
once; a number is taken again only when nobody holds it (`Unused`), since the
16-bit counter comes round after 65536 rooms. `AliveBound` stops a room whose
`aliveUser` went below zero, which only a room with a released session in it can
reach (section 13). `RoomView` identifies states that differ in
the fields of closed rooms or free sessions, which are overwritten before use.

Fairness (`battle_live`). Both threads loop for ever, so each goes
on whenever the other is between two visits: strong fairness, because with
`Overlap = FALSE` the other's visit disables it again and again. The lan client's
worker and the master take what was delivered; a connection that was shut down is
reported lost in the end. A room that stays as it is is seen after its timer ran
out (strong fairness of the visits that find it so, because the thread is
elsewhere in between). Clients need not do anything, and nobody need be hit.

Assumptions taken from times or numbers in the code: players flagged at the start
of a game have reached the Game thread five seconds after its end (`Arrived`, so
the null check and second read at 572-577 are one step); `status` of the room
array, which the constructor leaves alone, is zero (`Close`) as fresh heap memory
is; the chat server is connected (without it `Update_RoomCount` only waits);
a client sends its enter packet once. Conditions on `_sendIO` say when a session
is visited and are left to the visit. The removal of a player from the array and
the decrement of `curUser` are one action.

## 5. Matchmaking

`Matchmaking.tla` models the sessions of one match server, from the login of a
client to the room it is sent to. Three kinds of threads handle them: a worker of
`CNetServer` per packet of a client, the thread of the lan client for the answers
of the master, the message thread of `Match_Http` for those of the account server.
Each finds the session under `_sessionLock`, leaves the lock, and goes on with the
pointer.

| Code | Model |
|---|---|
| `_sessionList`, `_sessionPool` | `sessionList`; `pool`, a stack as in `cMemoryPool.h` 165-217 |
| `st_SESSION` | `session[o]`: client, status, failed requests |
| where a thread stands between the find and the use of a pointer | `task[t]` |
| account requests under way (`_msgQueue`, the slots of `cHttp_Async`) | `http[c]` |
| `CBattleSnake_Match_LanClient`: connection, packets in each direction | `link`, `toMaster`, `toMatch` |
| the master's session map and the places it took | `placed`, `taken` |
| the client and its connection | `phase[c]`, `conn[c]` |

A room request is `Request_Session_RoomInfo` → `Send_Master_Roominfo` →
`Request_Match_RoomInfo` (at the master) → `Recieve_MasterRequest_RoomInfo` →
`Response_Session_RoomInfo`; a leave is `OnClientLeave` (count, enter-fail packet) →
`Free_Session`; a login is `Request_Session_Login` →
`Receive_HttpRequest_SessionKey` → `Response_Session_Login`, or `Fail_HttpRequest` →
`Fail_HttpRequest_Retry`. With `overlap` (chosen at the start) the threads
interleave between these steps; without it a handler begins when no other is under
way. A broken link loses what is on it in both directions; `Connect` is the
monitor thread's reconnection, after which `OnEnterJoinServer` sends the login.

| Run | Asks | Instance | States |
|---|---|---|---|
| `match_sessions` | has a client one session, is no login or room request lost, is nobody told what it does not wait for, are places kept by those who entered and given back by those who did not? | 2 clients, 2 objects, 1 failed account request a client survives, 2 lost links | 3,400,035 |

`SessionsSound` is `TypeOK` and `OneSessionPerClient`; `PlacesKept` is
`EnteredKeepsPlace` and `LeaverGivesPlaceBack`; `LoginsAnswered` is `LoginNotLost` and
`NoUnaskedReply`.

Bounds. Two clients and two objects: a client that comes while another's object is
still pointed at gets that very object, since the pool is a stack. `MaxHttpFail` is
3 in the code; one failure survived and one not are the two cases. Two losses of the
link let one hit the requests that the first one caused to be sent again.
The link breaks only in behaviours without `overlap`. Deadlock is not checked:
every client may be gone.

Which property asks for `~overlap`: `OneSessionPerClient` and `LoginNotLost` hold
whatever interleaves. The others are checked where handlers do not overlap, because
a status written through a pointer kept too long may be that of another client
(section 13).

Taken for granted: clients ask in turn (what a second request does is in
`Master`); the account server answers or fails each request once (section 8
says what is true of that); the master does not restart, its handlers are whole here, and packets of
a connection that broke do not arrive late; fields the constructor leaves alone are
zero. The enter-success packet is left out: the master does nothing with it
(777-795). What an object in the pool holds is forgotten once nobody points at it,
since `Init_Session` overwrites it before a find can meet it.

## 6. MMOSession

`MMOSession.tla` models the sessions under the battle server: `CMMOServer` and
`CNetSession`. Workers take completed accepts, receives and sends from the
completion port; the send thread goes round all sessions and posts sends; the
Auth and Game threads move a session through its modes and release it; the accept
thread posts an accept for each free session. No lock guards a session: each
field is read and written by itself, some with interlocked operations.

| Code | Model |
|---|---|
| `_pSessionArray[i]`: mode, flags, `_sendIO`, `_ioCount`, `_sendq`, `_packetBuffer`, `_sendPacketSize` | `session[s]` |
| the socket and the client at its other end | `line[s]` |
| overlapped operations under way | `posted[s]` |
| where a worker, the send thread, the Auth and Game threads or a caller of `SendPacket` / `Disconnect`, the accept thread and the caller of `Stop` stand | `worker[w]`, `sender`, `task[t]`, `acceptor`, `main` |
| `_indexQueue`, `_curPostedAcceptEx`, `_curUser`, `_curID` | the same names |
| whose socket the completion port knows | `bound` |
| the accepts that failed, and the sessions whose accept failed when it completed | `fails`, `lost` |

A packet is the client it was meant for. One action is one access that another
thread may come before or after: `Update_SendThread_Claim` (the compare-exchange
of `_sendIO`) → `_Check` → `Send_Post_Dequeue` → `_Count` → `Send_Post` or
`Send_Post_Fail` → `_Unsend` → `_Flag`; `GetQueuedCompletionStatus` → the handler →
`Update_WorkerThread_Release` → `_Flag` → `_Free`; `Accept_Complete` (the session is in use) → `SetIoCompletionPort` →
`Accept_Complete_Posted` → `_User`, where the counters follow; `SendPacket` → `_Enqueue` →
`Unreference` → `Unreference_Flag`; `Game_ReleaseProc` (`_sendIO` is read, and
`OnGame_ClientRelease` called) → `ReleaseSession_Check` (`_ioCount` is read) →
`ReleaseSession`.

An accept may fail at once (`Accept_Post_Fail`) or when it completes, at any time: the
client may be gone by then. The worker drops such a completion (l. 935-950): the session
is not queued again and `_curPostedAcceptEx` is not lowered. `CreateIoCompletionPort` may
fail (l. 549): no receive is posted then, and no send of that client is ever heard of. With `Overlap = FALSE` a visit starts only when no
other thread is in one.

| Run | Asks | Instance | States |
|---|---|---|---|
| `session_io` | are references, free sessions and counters exact at every access? | 1 session, 2 workers, 2 clients one after another, the Game thread calls, 1 failed accept, `Overlap` | 4,755,121 |
| `session_reuse` | does a session pass clean from client to client, end, and accept again; does Stop end? | 1 session, 1 worker, 2 clients, three calling threads, 1 failed accept, fair, no overlap, the server may be stopped | 59,946 |

`CountsSound` is `TypeOK`, `IoCountExact` and `CountersExact`; `SessionPassesClean` is
`OneSendAtATime`, `PacketsKeptUntilSent`, `FreeSessionIsQuiet` and
`PacketsReachTheirClient`; `SessionsComeRound` is `EndedSessionsAreFreed` and
`FreeSessionsGetAccept`.

Bounds. What goes wrong with sessions goes wrong inside one of them: they share
only the queue, the accept pool and the threads. Two clients are one reuse, the
hard case; two workers let one complete what the other has just posted.
`MaxClient` bounds the clients, `MaxQueue` the packets waiting when a call starts,
`MaxFail` the accepts that fail.

Fairness (`session_reuse`). A handler goes on to its end and Stop to its next wait
(weak). The loops of the threads visit every session again and again, a send the port
hears of completes, and so does the receive of a closed connection, and every accept once the
listen socket is closed (strong, because with
`Overlap = FALSE` other visits disable them for a while). Clients need neither
connect nor leave, and nobody need send. Deadlock is not checked: the server stops.

What `session_reuse` says holds as long as no thread is held up in the middle of a
visit. With overlap it does not: `OneSendAtATime` fails with
`Overlap = TRUE` (section 13). In the same way the worker at 983-985 may raise the log-out flag, free the packets and clear
the send flag of the next client of the session, `SendPacket` may put a packet into
it that was meant for the last one, and a wake-up at 288 may be lost on an accept
thread that is about to sleep. These need a delay across a whole release, which
takes several frames; the first needs only one between two adjacent instructions.
`StopEndsOrSleeps` names the one way in which Stop does not end: the accept thread
sleeps when it is waited for (l. 1008), although the comment at l. 1000 has it exit
when it wakes and the server is off. The other way is `Tied`: `ClearBuffer`
(`cLockFreeQueue.h` 140-149) frees the nodes that wait in the queue but leaves the
queue as it was; if one was waiting, the next session the Game thread releases gets
the last node back, links it to itself, and the second `ClearBuffer` (l. 204) goes
round for ever. That takes two sessions (one free, one in use when `Stop` comes to
l. 200); the same module with two sessions, one client and `MaxAcceptPool` 2 reaches
it in 20 steps. `CountersExact` records that a failed accept
costs the pool one place for good (l. 301, and l. 944 when it completes), and
`SessionInOnePlace` that a session whose accept failed when it completed (`lost`) is in no place
again: it never serves anyone. `CountersExact` leaves out of `_curUser` the
clients that a worker is letting in (`Entering`), which the counter reaches last.

Taken for granted: the fields the constructor leaves alone are zero, as fresh heap
memory is. Not modelled: `SendLastPacket`, which nothing calls; the monitor thread.

## 7. LockFreeQueue and FifoQueue

`LockFreeQueue.tla` models `cLockFreeQueue.h` with the pool its nodes come from, one
access to shared memory per action: `Enqueue` (`Alloc`, private until the node is
linked) → `_Index` → `_Node` → `_Next` → `_Link` (line 68) → `_Swing` (line 71), or
`_Help` (line 81) and again; `Dequeue` → `_Head` (two reads) → `_Next` → `_Tail` (two
reads) → `_Check` (lines 106-123) → `_Data` → `_Take` (line 125) → `_Free`, or `_Help`
(line 117) and again. The pool is a stack, under its lock one action.

| Code | Model |
|---|---|
| `st_DATA_NODE` | `next[m]`, `data[m]`, nodes numbered, 0 is null |
| `_pHead`, `_pTail` | `head`, `tail` (node and index) |
| `_memoryPool` | `pool`, `fresh` |
| the locals of a call | `enq[p]`, `deq[c]` |

`FifoQueue.tla` is what the callers may rely on: `Put` and `Get` take effect at one
moment of the call, an "empty" needs a moment at which the queue was empty. The
refinement maps the nodes reachable from `head` to the queue. `seen`, a history
variable, notes the empty moments: whether a null `pNext` counts is decided only
later, when the index of head is read again.

The variables and constants stand in `QueueState`, the two safety properties in
`QueuePromises`, so that the run and the proofs name the same ones.

The link of line 68 compares a pointer without an index. A producer that has read
the last node and is held up while that node is taken, freed, and given to another
producer finds its `pNext` null and links its value behind a node that is not in the
queue yet. So `FifoQueue` is weaker than a queue in one place: `CarriedBy` lets a value wait
behind a call that has begun and enter with it. Its `Enqueue` has returned: until the
other goes on, a consumer may find the queue empty, and later values of the same
producer may overtake it. Nothing is lost, because `Dequeue` helps tail along
(line 117); without that help the calls of a consumer never return
(`CallsReturn`).

| Run | Asks | Instance | States |
|---|---|---|---|
| `queue_fifo` | is it a FIFO queue, are nodes in one place, does tail stay in the queue, does every call return? | 2 producers, 1 consumer, 3 values, fair | 216,969 |

Bounds. Three calls of `Enqueue` are what it takes to free the node a producer still
points at and to give it out again; a run with four (1.6 million states, without
liveness) showed nothing new. Every queue of this code has one consumer at a time: a
message, accept or send thread, or the worker that holds the send flag. `Elided`
stands for the build that drops the second read of the index of head at line 106 (the field is
not volatile, and no other access orders the two): harmless with one consumer. With two,
TLC finds a node in two places, so the theorems of section 12 assume one consumer there
(`OneConsumer`), and any number where the read is done.
Fairness: a call that has begun goes on; nobody need call.

Taken for granted: reads are done in the order of the program; memory of a node is
never returned to the system while the queue lives, as the pool keeps it.

## 8. HttpAsync and HttpLogin

`HttpAsync.tla` models the HTTP client library: an array of slots, the index queue
of free ones, worker threads that complete the connection, send the request,
collect the response and release the slot. `HttpLogin.tla` puts on top of it the
message threads of the Match and the Battle server, which share the library and
their structure but not their code (`side` says which of the two a behaviour is
about), and what an answer or a failure does to the client that logs in.

| Code | Model |
|---|---|
| `_sessionArray`, `_indexQueue`, `_curID` of `cHttp_Async` | `slot`, `indexQueue`, `curID` |
| a worker between `Recv_Post` and `Send_Post`, or before `ReleaseSession` | `worker[w]` |
| `_msgQueue`; where the message thread stands | `msgQueue`, `thread` |
| `_requestInfoList` | `infoList` |
| `st_SESSION` of Match, `CBattleSnake_BattlePlayer_NetSession` | `seat` |

A request is `Send_Message` → `MessageThread_Send` with `DirectRequestbyHttp` →
`Conn_Complete` → `Conn_Complete_Send` → `Recv_Complete` → `ReleaseSession` (the
`LEAVE` message) → `MessageThread_Recv_*` → `MessageThread_Leave`. A message thread
that found the queue empty (`MessageThread_Empty`) sleeps in a step of its own:
those who wake it do not hold its lock. A response comes in pieces; of its text
the model keeps what decides `Recv_Complete`: nothing, part of the status line, a
status line with code 200, all of it, another code. Faults, at most `MaxFault`, are
a connection that fails (at once or later), a missing socket, a silent web
server, a connection closed early, a status line cut in two, and an error code.

| Run | Asks | Instance | States |
|---|---|---|---|
| `http_login` | do slots come back, do requests end once, does a login need both answers and is it answered once, does it settle? | both servers, 1 slot, 2 workers (1 at Battle), 2 clients one after another, 2 login packets of the first, 2 faults, 1 failure a client survives, fair | 333,635 |

`LoginSound` is `LoginNeedsBothAnswers` and `LoginAnsweredOnce`. One slot makes
requests wait for it and be reused at once, the case where a late step finds the next
request in it; two clients are one reuse of a player object. `MaxLogin` bounds the
login packets of a client, which the code does not count; the instance has a second one of
the first client, while nothing fails and unless it ends a game. `FailLimit` is 3 and 20
in the code. A request is 20 seconds old when it was in the list at the last
heartbeat; a message is 20 ms old when it comes up a second time. Fairness: the
threads go on, posted operations complete, the heartbeat comes when something waits
for it, and a client that was disconnected leaves.

A login packet with the wrong version or token is answered at once; a second one is
handled like the first (`Battle/..._NetSession.cpp` 208-250), and disconnects the client if
it names the account of the first, since the player found is its own. At Battle a
failure is two steps: the client is compared (`Battle_Http` 101), then the request is
counted and repeated for whoever has the object by then (`MessageThread_Fail`, 102-118),
nobody (`clientID` 0) included.

The heartbeat is what makes up for lost wake-ups and silent web servers. What the
properties leave out (`excused`) happens in the code. `twice`: a connection that fails at
once is repeated twice, from the return value of `DirectRequestbyHttp` and from the
`LEAVE` message. `again`: the client logged in a second time. Either way one kind of
request may be answered twice, which counts as both. `stray`: an answer or a failure is
counted for the next client of the player object, between `Find_PlayerByClientID` and the
call (258-261) or after 101; `LoginSettles` leaves that out too. The run has no fault while
there are two clients, so it reaches neither `twice` for a login that succeeds on the
double answer nor a failure counted for the next client: these are in the theorem only.

Not modelled: `StopHttpClient`, which deletes the array while the message thread
runs; `TERMINATE`; the JSON. `Check_HeartBeat` shuts down whatever the slot does
now, which may be the next request: that is in the model, and costs a retry.

## 9. IocpServer

`IocpServer.tla` models the slots of `CNetServer` and `CLanServer`, which are the
same design in two copies with differences the model keeps (`kind`): a released
slot of `CLanServer` accepts again at once, one of `CNetServer` goes to the index
queue and its accept thread.

| Code | Model |
|---|---|
| `st_CLIENT_INFO`: `clientID`, `ioCount`, `bSend`, the flags, `sendq`, `packetBuffer` | `client` |
| the socket, and the operations posted on it | `sock`, `posted` |
| `_curID`, `_curUser`, `_indexQueue`, `_curPostedAcceptEx`, `_bServerOn` | `curID`, `curUser`, `indexQueue`, `curPosted`, `serverOn` |
| where a worker, a caller of `sendPacket` / `disconnect`, and the accept thread stand | `thread[t]`, `acceptor` |

A call is `AcquireSessionLock` (raise the count) → `_Ready` → `_Same` → `SendPacket`
or `Disconnect` → `Send_Post_Look` → `_Claim` → `_Test` → `Send_Post` or `_Fail` or
`_GiveUp` → `Unref`; who counts down to zero goes on to `ReleaseSession` → `_Count` →
`_Free` → `_Flag` → `_Leave` → `_Again_Net` or `_Again_Lan`.

| Run | Asks | Instance | States |
|---|---|---|---|
| `iocp_slots` | are references and counters exact, does a lock hold the client asked for, does a client leave for cause, is what is sent in order, do slots come round? | both servers, 1 slot, 2 clients, 2 workers and 1 call, or 1 worker, 2 callers and 2 calls; 1 failure with at most 1 call; fair | 122,482 |

Slots share only the counters and the accept pool, so one slot is where everything
goes wrong that can. A caller may know the identifier of any client there was or is.
Fairness: threads go on, the receive of a closed connection and every send complete,
the accept thread runs while it is awake.

`window` notes the races that do happen, and the properties say what holds without
them: *overtaken*, a thread that counted down to zero is held up before its exchange
of the release flag until the slot serves the next client, which it then releases;
*late*, in `CLanServer` only, a caller that passed its check of the flag while the slot
was being released; *early*, in `CLanServer`, a client that leaves before `start`
has set `_bServerOn`, whose slot does not accept again. `off` counts what a failed
accept costs for good: a reference in `CLanServer` (402), a place of the accept pool
in `CNetServer` (442, 664). `IocpServerProofs` proves the four safety properties (section
12).

Not modelled: `stop` (which hangs when the index queue is empty, as that of section
6 does: the comment at `CNetServer.cpp:819`), `sendLastPacket`, the monitor thread,
clients refused by `OnConnectionRequest` or over the limit. `bReadytoDisconnect` is
read in `CLanServer` but never set.

## 10. RingBuffer and LanClient

`RingBuffer.tla` is `cRingBuffer`: the free and used sizes, the two pieces up to the
end of the buffer and from its start, and the moves of the two ends, over
arithmetic of places. `LanClient.tla` is `CLanClient`, the client of every link
between servers: one session, used for one link after the other, a monitor thread
that connects it again, workers, and any thread that calls `SendPacket`, without a
lock. It receives into a ring.

| Code | Model |
|---|---|
| `_bClientOn`, `bDisconnectNow`, `ioCount`, `bSend`, `sendq`, `packetBuffer`, `sendPacketSize` | `clientOn`, `disconnectNow`, ... the same names |
| `recvq` | `recvq`, a `RingBuffer` |
| `sock`; is it associated with the port | `conn`, `bound` |
| what a thread has left to do, the next step first | `thread[t]` |

The server at the other end sends packets of the sizes `Payload` gives; a receive
completes with any number of bytes that fit. What a header says that is none (bytes
left of the last link come first) is any size.

| Run | Asks | Instance | States |
|---|---|---|---|
| `lan_client` | are packets received whole and in order, references exact, packets sent and freed once, a lost link given up? | 2 links, 2 packets of 1 and 2 bytes with headers of 2 in a ring of 5, 2 workers, 1 caller with 2 calls, fair | 367,411 |

A ring of five places wraps inside a header, inside a payload and between them. To
keep the product of bytes and calls small, no bytes come once a caller has called, and
the second link receives at most one, behind what the first left. Fairness: threads
and connection attempts go on and completions are taken.

`late` notes that a `SendPacket`, which holds no reference before it posts, was
overtaken by the release of the session or by `Connect`: its reference is then counted
from zero or set to zero under it, the count falls below zero and the client crashes
(233-236, 353). `leftover` notes that bytes of the last link were in the ring when the
next began (467-474 do not clear it): they garble the first packets of the new link,
and may end its receives. Both happen; the properties say what holds otherwise. A
packet put in between the test of the queue and the end of `bSend` (306-310) waits for
the next send.

Not modelled: `Disconnect` and `CleanUp` (section 13), `sendLastPacket`. The
receive loops of `CNetServer` (512-572, 760-807), `CLanServer` (474-517, 704-750) and
`CMMOServer` (320-345, 477-505) are the same and are not modelled again.

## 11. ChatServer

`ChatServer.tla` models the chat server and the end of its link in the battle server.
Everything the chat server gets, from the link, from clients and from the library,
goes through one queue to one message thread, the only one to touch rooms and
players. In the battle server the Auth thread opens rooms, the Game thread closes them,
and a worker tells a chat server that logs in of the rooms there are, without a lock
between the three.

| Code | Model |
|---|---|
| `_roomArray`, `_curRoomID` of the battle server, as far as Chat is told | `room`, `curRoomID` |
| where Auth and Game thread and the worker of the login stand | `auth`, `game`, `login` |
| `_chatServer.bLogin`; the connection at both ends; packets on it | `bLogin`, `peer`, `link`, `asked`, `toChat` |
| `_roomMap`, `_playerMap`, `_connectToken` | `roomMap`, `playerMap`, `connectToken` |
| `_msgQueue`, the message thread | `msgQueue`, `thread` |

Nothing keeps a client from entering a room while it is in one (764-806): it is listed and
counted once more, and its leave takes one entry out of the list of the room entered last
(547-567). A freed player then stays in a list; when the room is cleared, whoever has its
memory by then (`Heirs`) loses its mark and is disconnected. `again` names these clients.
`RoomListsExact` leaves their entries open, but not the counts, nor that who is marked is
in the list.

`Update_MessageThread` handles one message whole. `bEnter` of a player from fresh
memory is not set by its constructor: either value. `crash` is a call of
`cCrashDump::Crash()` or a null pointer; `Restart` is the chat server coming up again.

| Run | Asks | Instance | States |
|---|---|---|---|
| `chat_rooms` | do players and rooms agree on who is in, does a packet find its player, do both servers have the same rooms, is a closed room emptied? | 2 slots of rooms, 2 rooms one after another, 2 clients, 2 entries in the lists, 1 loss of the link or restart, fair; `Limits` says which of these come together | 1,034,338 |

Fairness: threads go on, what was sent arrives while the link is up, a client whose
connection was shut down leaves. Nobody needs to connect, to send, or to end a game.
`Limits` cuts off no fair behaviour: wherever fairness asks for a step, one it asks for is
allowed, and such steps among themselves come to an end. So what happens after a lost link is checked,
with the thread asleep as well: if `Request_Server_Disconnected` kept the rooms,
`ClosedRoomsEmptied` would fail.

What `wrong` leaves out of `RoomsMirrored` happens: a room that opens while the worker
of the login goes over the array is announced twice, and the chat server crashes
(671); a room that ended before the chat server logged in is closed without having
been announced, and it crashes (690, see section 13). Also as in the code: a client
with the wrong account in `Request_Client_EnterRoom` has *the client whose number is
its account* disconnected (778); a client is let in without a look at the
number of users; `DeletePlayer_Room` counts down before it looks for the player; a
wrong token is only answered; status 3 is the answer to a client that was faster than
the room's packet.

Not modelled: `TERMINATE` and stop; the heartbeat check, which nothing requests
(`Chat/main.cpp:143`); a change of the connect token (`Update_ConnectToken` is never
called, `Battle_MMOServer.cpp:258`); the text of messages.
## 12. What is proved

The theorems hold for every value of the constants that satisfies the assumption of
the module they are about (`MasterAssumption`, `BattleRoomAssumption`,
`MatchmakingAssumption`, `MMOSessionAssumption`, `ChatServerAssumption`,
`IocpServerAssumption`, `HttpAsyncAssumption`, `HttpLoginAssumption`,
`LanClientAssumption` and `LockFreeQueueAssumption`, which stands in `QueueState`): the `No...` values are not values of the set they stand
beside, the sizes and bounds are natural numbers, different kinds of threads have no
thread in common. A bound is a constant of the specification, so a theorem says the
same of every number of clients, losses and queued packets.

`MasterProofs` (any number of connections, clients, workers, objects):

| Theorem | Property |
|---|---|
| `TypeCorrect` | `TypeOK` and `PointersSet` (checked within `CountsSound`) |
| `SessionsOwned` | `SessionMapOwnsItsObjects` |
| `RoomsHaveServer` | `ListedRoomHasServer` |
| `MasterCountsSound` | `CountsSound` |
| `PlacesNonNegative` | `AvailableNonNegative` (checked within `CountsSound`) |
| `PlacesGivenOnce` | `SlotsNotOverbooked` and `SessionHasListedRoom` (checked within `PlacesSound`), with one worker |
| `PlacesSoundAlways` | `PlacesSound`, with any number of workers of which one is in a handler of several lock regions |

The invariant is built in three layers. `PointerInv`: types, what each handler
holds at each step (`TaskOK`: a handler past its lookup has a session object that
belonged to a client, one past its reservation a room), and that the map's
objects are not in the pool and carry their own key. It is needed because the log
out's steps read a client off an object they kept, which may be another's by now,
but always some client's. `BattleInv`, on top of it: a logged in battle
connection has an issued number no other connection has, and its entry until its
leave erased it; past `lv_rooms` none of its rooms is listed. That last part is
why rooms never outlive their entry: only the server's own connection announces
rooms for it, and that connection is busy leaving. `AvailableNonNegative` is
inductive over the two. `CountersExact` is inductive over them as well, once the list
of connections is known to be finite (`CountInv`). A counter and the set it counts
change in different handlers, so the proof goes by connection: a step changes what at
most one connection contributes to each counter (`CountConnection`), by 0, 1 or -1, and
the counter by the same (`CountOne`). A connection that leaves is still listed but counts
no longer among the logged in ones from the moment its leave has begun.

`PlacesGivenOnce` assumes `WorkerCnt = 1`, as the instance `serial` of the run does, but
no bound on servers, rooms or room numbers. `PlacesInv` says what the one handler at work
(`OneHandler`) holds on to at each step (`HoldsPlace`): a room request that reserved a
place knows a listed room with a place to spare (`Spare`: fewer offered and awaited than
announced), and a log out that set its flag made one in the room of its session. With it
go what the list and the map keep: the numbers of a listed room are its own
(`ListedRoomUnique`), so a client sent there fills no other; a flagged session is about to
leave (`FlaggedLeave`); a session outlives its room only while the handler that closed it
has yet to clear its clients (`SessionRoomed`), so a room announced anew awaits nobody.
`PlacesSoundAlways` carries `PlacesInv` over to the instance `serial` itself (`MCSpec`),
where the number of workers is not fixed: what the argument needs is that one handler
holds places at a time, not that one thread runs.

`BattleRoomProofs` (any number of rooms, places, players, losses, with overlap but for
two):

| Theorem | Property |
|---|---|
| `TypeCorrect` | `TypeOK` (checked within `AdmissionSound`) |
| `RoomsFreeOnce` | `IndexQueueExact` |
| `OpenRoomsCounted` | `OpenRoomCountExact` |
| `PlayersCounted` | `CurUserExact` |
| `LeaversAreOut` | `LeaversLeaveTheirRoom`, without overlap |
| `GamesEndWithLastSurvivor` | `LastSurvivorEndsGame` (checked within `RoomsRunTheirCourse`) and its converse `NoGameEndsEarly`, without overlap |
| `AdmissionSoundAlways` | `AdmissionSound` (`PlacesNotOverbooked`, `AdmissionNeverFails` while nothing is lost) |

`IInv` adds to the three counts what a handler in progress relies on:
`HandlersHavePlayer` (a leave handler has a player) and `PlayChecksPlay` (the Game
thread in the middle of a game's check is at a room that plays). The second is
what makes the end of a game harmless to the counts: the room it ends is one that
was closed to players before, so neither the queue nor the count of open rooms
can notice. Taking a player in or out changes one slot and the count by one; that
the slot is one of the room's is the lemma `FirstSlot`, by well-founded induction
on the initial segments of the slots (`First` is a `CHOOSE` of the least).

`LeaversAreOut` and `GamesEndWithLastSurvivor` assume `~Overlap`: section 13 says how the Game thread can release
a player's session before the Auth thread's leave handler is done, and how `aliveUser`
loses a decrement.

For `LeaversAreOut`, `MembersInv` says that a player in a room in use is there once, knows that room,
is on no way to another, and that while the Game thread may release its session a
handler is about to take it out (`Departing`). Most steps neither open a room nor put
anyone into one (`RoomsShrink`), and keep a member where it is (`StayPlaced`); the lemma
`MembersKeep` deals with all of them, the entry and the opening of a room are proved by
themselves.

For `GamesEndWithLastSurvivor`, `AliveUserExact` says what `aliveUser` is in a game: its
survivors, and whom the one handler at work (`OneThread`) has taken out or killed and not
yet counted (`Dying`). What that handler knows of the room is `DealtWith`. A game starts
with `aliveUser = curUser`, which is the number of its players because a room's slots and
its players correspond (`UsersArePlayers`) and because nobody has died before
(`AliveUntilGame`); who plays belongs to a game that has begun (`GamesHaveBegun`), which
rooms and players can only reach in that order (`RoomsFlow`, `PlayersFlow`). Steps that
touch no life are sorted out first (`CalmRoom`, `CalmPlayer`, `CalmTask`); what is left
are the handlers of a death, a leave and the start.

For `AdmissionSoundAlways`, `AdmitInv` says where each place of a room is (`PlacesAt`): what an
open room announced, the places on their way back in packets (`Messages`) or in a handler
that has taken its player out and not yet said so (`Returning`), its players, and the
clients that hold its number (`Holders`) never exceed its size; a room that is closed to
players offers nothing and awaits nobody. A number is announced by one entry of the
master's list or by one packet, never both (`AnnouncedOnce`). The count `Returning` is what the
overlap of the two threads calls for: between the removal of a player and the packet that
gives its place back, the other thread may fill, close or reopen the room, and the packet
must still name the room the player was in (`LeaverKnowsRoom`). `Offered`, a sum over a set
by the community modules' fold, is unfolded to the function the fold chooses: one that
satisfies its equation is given in closed form (`SumOfPlaces`), and two that do agree on
every subset, by well-founded induction on finite sets (`OneSum`).

`MatchmakingProofs` (any number of clients, objects, failures, losses of the link):

| Theorem | Property |
|---|---|
| `MatchSessionsSound` | `SessionsSound` |
| `MatchLoginNotLost` | `LoginNotLost` (checked within `LoginsAnswered`) |
| `MatchPlacesKept` | `PlacesKept` |
| `MatchRoomRequestNotLost` | `RoomRequestNotLost` |
| `MatchLoginsAnswered` | `LoginsAnswered` |

Two layers, as in the properties. `SessionInv` is inductive whatever handlers overlap:
which steps a thread takes (`TasksOK`), that no object is in the pool twice or in pool and
list at once (`PoolOK`), that the list holds one session of each connected client and
no other (`ListOK`), that a client that leaves is freed by its own worker (`FreeOK`), that
an object which is not listed names nobody who is connected, although threads may still
point at it (`PointersOK`), that only a connected client waits (`WaitOK`), and
`LoginNotLost`. `RoomInv` is inductive on top of it when handlers
do not overlap: one handler at a time (`OneHandler`), one account request, one room
request and one place per client (`OneLogin`, `OneRequest`, `OnePlace`), the status
agrees with what is on the link (`StatusOK`), and a place that is not kept is on its
way back (`GivenBack`). Requests and answers are counted on three queues at once, the
two directions of the link and what the thread at the queue's head holds; that is
where `Holds` and `HoldsOne` of `Queues` come in. There is one lemma per action; a frame
lemma says that an action which leaves a client's variables alone leaves its part of
the invariant alone.

`MMOSessionProofs` (any number of sessions, workers, calling threads, clients; the
first two with and without overlap):

| Theorem | Property |
|---|---|
| `SessionCountsSound` | `CountsSound` |
| `SessionsInOnePlace` | `SessionInOnePlace` |
| `SessionsPassClean` | `SessionPassesClean`, without overlap |

`SessionInv` is `TypeOK`, `IoCountExact`, `CountersExact` and what makes them
inductive: a session is in one place at most, also once accepts are given up
(`PlacesOK`), one that is in use has a client and was not released (`ModeOK`), the one
the Game thread is about to release waits for that (`TaskOK`), one worker at most lets a
client into a session, and one that is in use (`EnterOK`), there is a client number
for everyone who is joining (`ClientsOK`), and the accepts that may still come back are
counted (`PostedOK`). A worker that lets a client in holds a reference, so the session is
not released before `_curUser` has counted it (`EntrantHolds`). `IoCountExact` needs no word on the send flag: the
count is right even while two threads send (section 13).

`SessionsPassClean` assumes `~Overlap` (section 6 says what overlap breaks). Its
invariant `CleanInv` says that one thread at most is in a visit (`Solo`), that a
session has one send at most, that its queue, its buffer and the packets kept are for
its client and a free one has nothing pending (`CleanAt`), and what the one thread in
a visit knows of its session (`WorkerAt`, `TaskAt`, `SenderAt`). A step changes one
session and one thread's place while all others rest, so the lemmas `WorkerVisits`,
`TaskVisits`, `SenderVisits` and `NobodyVisits` leave only that session and that thread
to look at. `IoCountExact` does the rest: a count of zero means nothing is pending
(`NothingPending`), which is what lets a session go.

`ChatServerProofs` (any number of slots, rooms, clients, losses and restarts):

| Theorem | Property |
|---|---|
| `PlayersAlwaysKnown` | `PlayersKnown` |
| `RoomListsAlwaysExact` | `RoomListsExact` |
| `RoomsAlwaysMirrored` | `RoomsMirrored` |

`ChatInv` has four parts. `ClientInv`: the messages about one client begin with its
join and end with its leave, one request is among them. `ListInv`: a room's list is as
long as its count and holds its players, each once, and nobody else who is not in
`again`. That the entry a leave takes is there (`RemoveOne`) keeps the count exact
whoever entered how often. `BattleInv`: a room number stands in one slot, and the chat server has been
told of each live room that the worker of the login is past, unless the Auth thread
has still to send it. `MirrorInv`: as long as `wrong` is empty, every message in the
two queues will find the rooms it needs when its turn comes (`InTurn`), and after all
of them the rooms are those told of. The lemmas `RoomsTail`, `RoomsAppend` and
`RoomsJoin` say how the rooms to come change when a message is handled, is added, and
moves from the link to the queue; they stand in for an induction over the queue.

`IocpServerProofs` (both servers, any number of workers, callers, clients, calls and
failures):

| Theorem | Property |
|---|---|
| `IocpCountersExact` | `CountersExact` |
| `IocpLocksHoldTheirClient` | `LocksHoldTheirClient` |
| `IocpClientsLeaveForCause` | `ClientsLeaveForCause` |
| `IocpSendsInOrder` | `SendsInOrder` |

`BaseInv` holds whatever is run into: a reference is an operation posted, a thread that
holds the slot, or one lost with a failed accept (`RefsExact`), and the packets sent and
to be sent are in order. `Slot` is what a slot relies on, and holds as long as `window`
has neither race (`SlotInv`); the window only grows, so a state without a race comes
from one without. Its core is `ReleaseInv`: while the slot is unused or a thread
releases its connection, nobody holds it or has anything posted for it (`Silent`).
`CNetServer` bars the slot before it looks at the count, so nobody comes in after;
who comes in to a slot of `CLanServer` then is the race *late*. That gives one releaser
at a time and one place for a slot (`PlaceInv`), callers that hold it for their client
(`OwnInv`), a receive posted while there is no reason to end (`EndInv`), and, with
`bSend`, one sender (`SendInv`). `FirstInv` is needed because a slot that has not served
anyone yet has `bDisconnectNow` unset, so the exchange does not keep a second releaser
out: only a worker whose accept was aborted can be there then. `LateInv` says that *late*
happens in `CNetServer` only after *overtaken*. Rather than one lemma per action
and part, four lemmas say which steps change which fields (`ClientStepsNext`,
`CounterStepsNext`, `PostedStepsNext`, `SockStepsNext`) and one how a thread comes to
be where it is (`BecameNext`); each part is proved from the few steps that matter to it.

`IocpServerProofs` also holds the proofs about `LockFreeQueue`, whose properties stand in
`QueuePromises` with an instance `LF` of it in variables of its own (any number of
producers, consumers, calls and nodes; `OneConsumer`: one consumer if the build drops the
second read of the index of head):

| Theorem | Property |
|---|---|
| `NodesSoundAlways` | `NodesSound` |
| `ImplementsFifoAlways` | `ImplementsFifo`, the refinement of `FifoQueue` |

The invariant (`QueueInv`) says where every node is: a map `at` from nodes to places (the
queue, the pool, the call about to link it or to link a node before it, the call about to
free it), and for the queue and for each call of `Enqueue` a sequence that is both the
chain the `pNext` lead along and all the nodes of that place (`Path`, `Fills`). That the
chain `Chain` walks is this sequence (`ChainIs`) is the one place where the recursive
walk matters; it is an induction over its length, done by the least counterexample
(`LeastNat`). What a call has read and kept holds as long as the index it read is still
the one of head or tail (`PutOK`, `GetOK`): the index grows with each swing, so equal
indices mean that nothing moved. Three parts were missing from the first attempt. A free
node still leads where it led in the queue (`EndsOK`), so the compare of line 68, which
has no index, cannot link behind it. A producer may link behind a node that another one
has been given since, and two producers might each link behind the other's and close a
ring that nothing reaches: they do not, because whose node I find in the hands of a call
took it from the pool after I did (`older`, a strict order among the producers). And a
consumer that has read a null `pNext` has a moment at which the queue was empty only if
head has not moved when it looks again (`SeenOK`, the check clause of `GetOK`).

For the refinement (`StepMaps`) each action is a step of `FifoQueue` or one that leaves
what it maps to unchanged (`Quiet`): `Enqueue` is `PutCall`; `_Link` is `Put` if the
other node is in the queue (`LinkQueueMaps`) and `CarriedBy` if it is in the hands of a
call (`LinkOtherMaps`); `_Swing` is `PutReturn`; `Dequeue` is `GetCall`; the `_Take` that
moves head is `Get`; `_Free`, and the `_Check` that finds the queue empty, are
`GetReturn`.

`LanClientProofs` (any number of workers, callers, links and calls; the ring of any size
of 2 or more, `Sized`):

| Theorem | Property, or what it says |
|---|---|
| `TypeCorrect` | `TypeOK` (checked within `ReceivedIsStream`) |
| `IoCountIsExact` | `IoCountExact` |
| `PacketsAreSentOnce` | `PacketsSentOnce` |
| `ReceivedInOrder` | `ReceivedIsStream` |
| `Sizes` | used and free places make up all places but one |
| `RemovesFirst` | moving the front over n used bytes removes the first n |
| `ReceiveAppends` | bytes that fit are appended to the bytes in use and overwrite none |

The run `lan_client` sees one small ring; the code's has 5000 places (`en_DEFAULT_SIZE`). The argument: the two pieces a reader takes (`ReadPlaces`), and
the two a writer fills (`WritePlaces`), are the places after `front` and after
`rear` in order, modulo the size, and the place `rear` itself is the last used one
(`RearAfterFront`). Two offsets below the size give different places
(`AfterDistinct`), so a write of bytes that fit misses every used place
(`WriteIs`). `Contents` lists the used bytes in order; the theorems compare it
before and after.

`IoCountIsExact` rests on `LanInv`: `RefInv`, unless `late`. `RefInv` says which
programs a thread can have left (`ProgramsOK`: that is how it comes to be known where
a thread is in the code), that the count is what is posted and what threads hold
(`Posting`, `Completers`), that one thread at most ends the link, and only at a count of 0 (`Rel`), that while
the monitor thread is in Connect nobody else is at anything but waiting
(`SetupProgram`, `Waits`), that a client that is off has no reference, and that a
reference means a socket that is bound. The count of 0 that makes a thread the
releaser then excludes every other holder, so the next link starts from nothing. A
`SendPacket` without a reference is the one thing that breaks this, and `late` says
when.

`PacketsAreSentOnce` adds `SendInv` and `PackInv` to that, unless `late`. `SendInv` is
about `bSend`, which outlives the thread that set it: while the link is alive (`Alive`:
from Connect until the releaser has reset `bSend`) one thread or one send under way has
it (`OneSender`), and without it nothing is counted in `sendPacketSize`; a completion
that finds the connection gone keeps the count for the releaser to free; once the
link is no longer alive nothing is left to free. `PackInv` numbers the packets: those in
`sendq` follow on those that have left it (`Gone`) and are of this link (`QueueOK`), what
a thread took comes after what was sent (`WireOK`, `MineOK`), and each packet that has
left the queue is freed or in `Out`, that is counted in `packetBuffer` or in the hands
of a thread about to count it, never both (`BufferOK`, `FreedOK`). The steps are sorted
into those that concern no packet (`PackQuiet`) and the few that move packets, one lemma
each.

`TypeCorrect` holds in every state, `late` ones too. `TypeInv` is the type and the one
fact it lacks: before the first Connect nothing is posted, received or sent
(`NoLinkYet`), so nobody asks what the bytes of a link 0 are.

`ReceivedInOrder` puts the ring and the references together. `ReceiverInv` says that a
link has one receive posted or one thread at it (`Receiving`, `Rcv`), which follows from
the count of references and is why the ring needs no lock. `StreamInv` says what that thread
finds: the packets given so far are the first of the link, and the ring holds the bytes of
the stream from where the next packet begins to where TCP has got (`StreamAt`); once the loop of
`recv_complete` is over (`Drained`) there is no whole packet among them
(`NoPacketLeft`). `ReceiveAppends` and `RemovesFirst` say what a completion and the loop make of the
ring, so the wrap does not come up again. That packets are in the stream one after the
other is about the fold that defines `FlattenSeq`: sequences put together one by one
exist up to every length (`JoinsUpTo`), each begins all that come after (`JoinedExtend`),
hence there are offsets at which the packets begin (`FlattenOffsets`, `Begins`). These are
inductions over the number of packets; they are written as the search for a
counterexample, of which the least cannot be one. A byte names its packet and its place
in it, so the last byte of a packet has arrived exactly when `arrived` has reached the
next packet's offset, and `Complete_Packets` counts those.

`HttpLoginProofs` (both servers, any number of slots, workers, clients and faults, any
limit of failures):

| Theorem | Property |
|---|---|
| `SlotsAlwaysComeBack` | `SlotsComeBack` |
| `RequestsEnd` | `RequestsEndOnce` |
| `LoginsAreSound` | `LoginSound` |

Four layers. `SlotInv`: a slot is in the index queue, has one operation posted, is in the
hands of one worker, or is lost; no two workers release the same (`WorkersOK`), which is
what keeps a slot from being put back twice. `InfoInv`: ids in the list are distinct, a
slot that serves a request has it in the list, and the `LEAVE` of a request is in the
queue, once, exactly when its slot serves it no more (`EndsOK`); so `LEAVE` ends each
request once although a slot serves the next one by the time it is read. `AnswerInv`: an
answer is in the queue once, not while the slot still receives (`PendingOK`) and not after
`bRecv` was set, so nobody is answered twice for one request. `LoginInv` puts these
together: each of the two requests of a client is to be sent, or in the list without an
answer, or answered or failed with the player found (`Holding`), in one of these places at
most (`Once`), and in none of them once it was told (`OneOf`); nothing is under way for a
client that has not asked and is not excused (`NothingOK`), and the seat counts the answers
it had (`SeatOK`); what sets `excused` or a count of failures keeps a seat right (`Alike`). A request
moves from place to place: a request sent is taken off the queue and put into the list,
one that ends unanswered goes back from the list to the queue. `WorkOK` says this only
of clients that are not `excused`; the double repeat, the second login packet, and the
answer or failure counted for the next client (section 8) set that field, and the
properties except those clients.
Most steps bring no request further (`Fewer`, `QuietStep`); the lemma `LoginMoved` deals
with those that move requests of one client on.

`Queues` says what a queue holds: one of a set (`Holds`), at most one (`HoldsOne`), one
with nothing of another set behind it (`Closes`), nothing of one set behind another
(`Ordered`). How each fares when the head is taken or an element added, and what a set's
size becomes when an element comes or goes, are the lemmas at the head of the modules
that need them.

Only model-checked is what is liveness, which is out of the prover's reach: the temporal
properties of the runs other than the action properties and `ImplementsFifo`, for
instance `CallsReturn` of `LockFreeQueue`, `SlotsComeRound` of `IocpServer`,
`LoginSettles` of `HttpLogin` and `LostLinkGivenUp` of `LanClient`. Every invariant that a
run checks is stated by a theorem.

## 13. Where code and claims part

| Run | Claim | What happens |
|---|---|---|
| `master_leave` | comment `Master_LanServer.cpp:150-152` | at the first room of another server `Free_BattleInfo` advances an iterator it never set |

Met on the way, and without a run of their own: a definition that fails when it is
added to the run, or to the instance, named.

* `AvailableWithinMaxUser` fails in `master_workers`: a session object found under
  the lock and flagged after it (`Master_LanServer.cpp:961`) is another client's by
  then, a place is given back twice, and a room gets more places than the maximum
  `Master_LanServer.h:69-70` speaks of.
* `LeaversLeaveTheirRoom` fails in `battle_threads`: the Game thread releases a
  session before the Auth thread's leave handler looked its room up
  (`CMMOServer.cpp:661` sets the mode first); the room keeps a player that is gone. The
  comment at `Battle_MMOServer.cpp:839` and slide 1.4 of the design ("no
  synchronisation needed between the modes") exclude that. It holds where handlers do
  not overlap (`battle_live`).
* `DeletedRoomsKnown` fails in `chat_rooms`, in 17 steps: a chat server that connects
  while a game ends is told to delete a room it was never told of, and the assertion
  of `Request_Server_DeleteRoom` (`Chat_NetServer.cpp:690`) brings it down.
* A handler that runs on a worker of `CLanClient` and calls `Disconnect` (a packet
  of unknown type, `Chat_LanClient.cpp:34` and its like in Match and Battle) waits for the worker
  threads to end, itself among them.
* `OneSendAtATime` fails in `MMOSession` with `Overlap = TRUE`, one worker and two
  clients: a client is accepted (`Accept_Complete` resets `_sendIO`, line 449)
  between the send thread's claim of that flag (1057) and its test of the queue; the
  session is claimed again and a second `WSASend` starts over the first, which the
  comment at `CMMOServer.cpp:1053` means to exclude.
* `LoginNeedsBothAnswers` fails in `http_login` without its exception `again`, in 25 steps: a player
  that sends its login packet twice has each request sent twice, and two answers about the
  account log it in without its record (`Battle_Http.cpp:143`).
* An exact list without the exception `again` fails in `chat_rooms`: a client that enters
  twice leaves a freed player in a list (`Chat_NetServer.cpp:540`, 563).
* `RoomRequestFindsPlace` fails in `Master`: a room stays listed from its last place
  being taken until the battle server closes it; a room request in between runs
  into the assertion at `Master_LanServer.cpp:565` when every listed room is full.
* `AdmissionNeverFails` fails in `BattleRoom` with `MaxLoss = 1`: a client reported
  lost comes all the same after its place was given away, and the assertion at
  `Battle_MMOServer.cpp:616` brings the process down. It fails too with
  `MaxDrop = 1` and a reliable Match: after the link came back the room is
  announced with `maxUser - curUser` places (line 904) although clients are on
  their way to some of them.
* `FullRoomStarts` fails in `BattleFrames` with `MaxDrop = 1`: a full room whose
  close packet was lost, and that a player left, is announced again with `bReady`
  set, fills again, and is never closed nor started (comment at line 270).
* `LastSurvivorEndsGame` fails in `BattleRoom` with `Overlap = TRUE` and a room of
  three: `aliveUser` is decremented by two threads at once, one decrement is lost,
  and the game goes on with one survivor.
* `EnteredKeepsPlace` fails in `Matchmaking`, without overlap, for a client whose
  room request went out on the new link just before the answer to the login came
  back: `Recieve_MasterRequest_Login` sends it again (line 286), the master takes
  two places for one session and answers twice, and if the client enters between the
  two answers the second sets its status back (`Response_Session_RoomInfo`, line
  397). Its leave then reports that it failed to enter, and its place is given away
  although it is in the battle server. The property leaves such clients out
  (`resent`).
* `LeaverGivesPlaceBack` fails in `Matchmaking` with `overlap`: the login's loop
  sends the request of a client again between its enter-fail packet and its
  `Free_Session`; the place the master takes for it is never given back. The number
  of logged in clients (`_curLogin`, unsigned) then may fall below zero: a handler
  with a pointer to a freed object writes the status of the next client of it, which
  is counted off without having been counted.

The design slides say that a departure from a waiting room is always told to the
master; `Request_Character_LeavePlayer` does so only while the room is not ready
(`!bReady`), which is right, since the room is then no longer listed.

## 14. What is not modelled

`PROJECT.json` lists every component. Left out so far: the chunks of the
thread-local pool and the reference counts of the packet pools (every model takes an
allocation as a fresh object; `LanClient` checks that a packet is freed once, and
`LockFreeQueue` has the plain pool); `StopHttpClient` and the `stop` of the Net and Lan
servers; `Disconnect` of the lan client; medkits, moves and shots, which the battle
server only passes on to the room. Compositions are by environment: `BattleRoom` and
`Matchmaking` have the master's handlers as atomic effects, `ChatServer` the battle
server's rooms as a status; packets of one connection arrive in order and are handled
one at a time, and leave follows the last of them, which `IocpServer` bears out apart
from its two races. Left out for good: configuration, logging, profiling, counters of
the operating system, database rows and the monitor clients, which are output only;
positions, damage and items of a game, of which only life and death matter to a room.
