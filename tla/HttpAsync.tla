----------------------------- MODULE HttpAsync ------------------------------
(***************************************************************************)
(* The HTTP client library (src/Source/Library/cHttp_Async.cpp): an array  *)
(* of sessions, here slots, of which indexQueue holds the free ones.  The  *)
(* server built on it takes a slot for each request (DirectRequestbyHttp); *)
(* worker threads complete the connection, send the request, collect the   *)
(* response and give the slot back.  They tell the server of it through    *)
(* OnRecv and OnLeaveServer, which put a message into its queue and wake   *)
(* its message thread.                                                     *)
(*                                                                         *)
(* One action is one access to a slot or to a queue that another thread    *)
(* may come before or after.  The web server, and TCP, which delivers a    *)
(* response in pieces, are external.                                       *)
(***************************************************************************)
EXTENDS Naturals, Sequences, FiniteSets, SequencesExt

CONSTANTS
    Slot,       \* the indices of _sessionArray
    NoSlot,
    Worker,     \* worker threads
    MaxFault    \* bound on what goes wrong outside the program

ASSUME HttpAsyncAssumption ==
    /\ IsFiniteSet(Slot)
    /\ NoSlot \notin Slot
    /\ MaxFault \in Nat

VARIABLES
    slot,       \* _sessionArray
    indexQueue, \* _indexQueue
    curID,      \* _curID
    worker,     \* what each worker thread is doing
    msgQueue,   \* _msgQueue of the server
    thread,     \* its message thread
    faults      \* how often something went wrong

httpVars == <<slot, indexQueue, curID, worker>>

-----------------------------------------------------------------------------
(* The response so far: nothing, part of the status line, a status line    *)
(* with code 200, all of such a response, a status line of another code.   *)
Got == {"nothing", "bit", "head", "all", "error"}

(* responseMsg is not cleared between requests: before the first response  *)
(* it holds whatever the memory held, then the last response's text.       *)
Text == {"garbage", "ok", "error"}

SlotRec == [requestID : Nat, bDisconnect : BOOLEAN,
            sock : {"closed", "connecting", "open", "asked"},
            pending : {"none", "conn", "recv"}, cut : BOOLEAN,
            silent : BOOLEAN, got : Got, text : Text]

(* new st_SESSION[] does not set bDisconnect.                              *)
HttpInit ==
    /\ slot \in [Slot -> {[requestID |-> 0, bDisconnect |-> b, sock |-> "closed",
                           pending |-> "none", cut |-> FALSE, silent |-> FALSE,
                           got |-> "nothing", text |-> "garbage"] : b \in BOOLEAN}]
    /\ indexQueue \in SetToSeqs(Slot)
    /\ curID = 0
    /\ worker = [w \in Worker |-> [pc |-> "idle", slot |-> NoSlot]]
    /\ msgQueue = <<>>
    /\ thread = [pc |-> "check"]
    /\ faults = 0

Fault == faults < MaxFault /\ faults' = faults + 1
NoFault == UNCHANGED faults

(* Enqueue, then WakeConditionVariable without the lock: a thread that has *)
(* seen the queue empty and does not sleep yet misses the wake-up.         *)
Enqueue(msgs) == msgQueue' = msgQueue \o msgs
Wake == thread' = IF thread.pc = "asleep" THEN [pc |-> "check"] ELSE thread
Post(msg) == Enqueue(<<msg>>) /\ Wake

Goto(w, pc, i) == worker' = [worker EXCEPT ![w] = [pc |-> pc, slot |-> i]]

-----------------------------------------------------------------------------
(* What ReleaseSession leaves of a slot: InitializeSession forgets the     *)
(* request; the text of the response stays.                                *)
Closed(s) == [s EXCEPT !.bDisconnect = TRUE, !.sock = "closed", !.cut = FALSE,
                       !.silent = FALSE]
InitializeSession(s) ==
    [s EXCEPT !.requestID = 0, !.got = "nothing",
              !.text = IF s.got \in {"nothing", "bit"} THEN s.text
                       ELSE IF s.got = "error" THEN "error" ELSE "ok"]

(* Conn_Post: the slot may be released (again) from here on.               *)
Conn_Post_KeepFlag(s) == s
Conn_Post(s) == [s EXCEPT !.bDisconnect = FALSE]

(* Alloc_Session and DirectRequestbyHttp, by the message thread, for the   *)
(* slot at the head of indexQueue: the connection is on its way, or there  *)
(* is no socket, or ConnectEx fails at once.  Without a socket bDisconnect *)
(* is what the slot held: if it was set, ReleaseSession does nothing.      *)
DirectRequestbyHttp(how) ==
    LET i     == Head(indexQueue)
        taken == [slot[i] EXCEPT !.requestID = curID + 1]
        tried == IF how = "no_socket" THEN taken ELSE Conn_Post(taken)
        kept  == how = "connecting" \/ tried.bDisconnect
    IN
    /\ indexQueue /= <<>>
    /\ curID' = curID + 1
    /\ IF how = "connecting" THEN NoFault ELSE Fault
    /\ slot' = [slot EXCEPT ![i] =
                    IF how = "connecting"
                    THEN [tried EXCEPT !.sock = "connecting", !.pending = "conn"]
                    ELSE IF kept THEN tried
                    ELSE InitializeSession(Closed(tried))]
    /\ indexQueue' = IF kept THEN Tail(indexQueue) ELSE Append(Tail(indexQueue), i)
    /\ UNCHANGED worker

(* Has the failed DirectRequestbyHttp called OnLeaveServer?                *)
LeftAtOnce(how) ==
    \/ how = "no_connect"
    \/ how = "no_socket" /\ ~slot[Head(indexQueue)].bDisconnect

(* Free_Session: shutdown(SD_SEND) on whatever socket the slot has now.    *)
Cut(s) == IF s.sock \in {"open", "asked"} THEN [s EXCEPT !.cut = TRUE] ELSE s
Free_Session(ids) ==
    slot' = [i \in Slot |-> IF i \in ids THEN Cut(slot[i]) ELSE slot[i]]

-----------------------------------------------------------------------------
(* Worker threads.                                                         *)

TakeCompletion(w, i, op) ==
    /\ worker[w].pc = "idle"
    /\ slot[i].pending = op

(* ConnectEx completes ...                                                 *)
Conn_Complete(w, i) ==
    /\ TakeCompletion(w, i, "conn")
    /\ slot' = [slot EXCEPT ![i].pending = "recv", ![i].sock = "open"]
    /\ Goto(w, "send", i)
    /\ NoFault
    /\ UNCHANGED <<indexQueue, curID, msgQueue, thread>>

(* ... or fails, or the receive cannot be posted.                          *)
Conn_Complete_Fail(w, i) ==
    /\ TakeCompletion(w, i, "conn")
    /\ slot' = [slot EXCEPT ![i].pending = "none"]
    /\ Goto(w, "release", i)
    /\ Fault
    /\ UNCHANGED <<indexQueue, curID, msgQueue, thread>>

(* Send_Post comes after Recv_Post: the slot may have been released and    *)
(* taken again since.  A request sent twice is answered once.  The web     *)
(* server may never answer it; a send that fails shuts the socket down.    *)
Conn_Complete_Send(w) ==
    LET i == worker[w].slot IN
    /\ worker[w].pc = "send"
    /\ \/ /\ slot[i].sock \in {"open", "asked"}
          /\ slot' = [slot EXCEPT ![i].sock = "asked"]
          /\ NoFault
       \/ /\ slot[i].sock \in {"open", "asked"}
          /\ slot' = [slot EXCEPT ![i].sock = "asked", ![i].silent = TRUE]
          /\ Fault
       \/ /\ slot' = [slot EXCEPT ![i] = Cut(@)]
          /\ IF slot[i].sock \in {"open", "asked"} THEN Fault ELSE NoFault
    /\ Goto(w, "idle", NoSlot)
    /\ UNCHANGED <<indexQueue, curID, msgQueue, thread>>

(* What can be in the buffer after another piece of the response.          *)
MoreOf(got) == CASE got = "nothing" -> {"bit", "head", "all", "error"}
                 [] got = "bit"     -> {"head", "all", "error"}
                 [] got = "head"    -> {"all"}
                 [] OTHER           -> {}

(* What Recv_Complete makes of it.  A status line that is not complete is  *)
(* read on into what the buffer held before: if there is no second blank   *)
(* the handler returns without posting another receive.                    *)
Reading(got, text) ==
    CASE got = "head"  -> {"post"}
      [] got = "all"   -> {"answer"}
      [] got = "error" -> {"fail"}
      [] OTHER -> CASE text = "ok" -> {"post"} [] text = "error" -> {"fail"}
                    [] OTHER -> {"post", "fail", "return"}

Recv_Message(id, code) == [type |-> "RECV", requestID |-> id, code |-> code]

Recv_Complete(w, i) ==
    \E got \in MoreOf(slot[i].got) : \E todo \in Reading(got, slot[i].text) :
        /\ TakeCompletion(w, i, "recv")
        /\ slot[i].sock = "asked" /\ ~slot[i].silent
        /\ IF got \in {"bit", "error"} THEN Fault ELSE NoFault
        /\ slot' = [slot EXCEPT ![i].got = got,
                                ![i].pending = IF todo = "post" THEN "recv" ELSE "none"]
        /\ IF todo \in {"answer", "fail"}
           THEN /\ \E code \in IF todo = "fail" THEN {"error"} ELSE {"ok", "refused"} :
                       Post(Recv_Message(slot[i].requestID, code))
                /\ Goto(w, "release", i)
           ELSE UNCHANGED <<worker, msgQueue, thread>>
        /\ UNCHANGED <<indexQueue, curID>>

(* The web server closes, after a shutdown or of its own; a receive that   *)
(* cannot be posted ends the same way.                                     *)
Recv_Zero(w, i) ==
    /\ TakeCompletion(w, i, "recv")
    /\ IF slot[i].cut THEN NoFault ELSE Fault
    /\ slot' = [slot EXCEPT ![i].pending = "none"]
    /\ Goto(w, "release", i)
    /\ UNCHANGED <<indexQueue, curID, msgQueue, thread>>

(* ReleaseSession: the first to set bDisconnect closes the socket, reports *)
(* the end of the request, and only then makes the slot free again.        *)
ReleaseSession(w) ==
    LET i     == worker[w].slot
        first == ~slot[i].bDisconnect
        leave == [type |-> "LEAVE", requestID |-> slot[i].requestID]
    IN
    /\ worker[w].pc = "release"
    /\ slot' = [slot EXCEPT ![i] = IF first THEN InitializeSession(Closed(@)) ELSE @]
    /\ Enqueue(IF first THEN <<leave>> ELSE <<>>) /\ Wake
    /\ indexQueue' = IF first THEN Append(indexQueue, i) ELSE indexQueue
    /\ Goto(w, "idle", NoSlot)
    /\ UNCHANGED <<curID, faults>>

Complete(w, i) ==
    \/ Conn_Complete(w, i)
    \/ Conn_Complete_Fail(w, i)
    \/ Recv_Complete(w, i)
    \/ Recv_Zero(w, i)

Proceed(w) ==
    \/ Conn_Complete_Send(w)
    \/ ReleaseSession(w)

HttpNext == \E w \in Worker : Proceed(w) \/ \E i \in Slot : Complete(w, i)

=============================================================================
