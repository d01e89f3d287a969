---------------------------- MODULE MCIocpServer ----------------------------
(* A small instance of IocpServer.  The second worker takes part while     *)
(* nothing fails outside the program and only one call is made; with one   *)
(* worker, two callers run into each other, and a failure comes with at    *)
(* most one call.                                                          *)
EXTENDS IocpServer, TLC

CONSTANTS w1, w2

MCNext ==
    /\ Next
    /\ faults' > 0 => calls' <= 1
    /\ calls' > 1 \/ faults' > 0 => At(w2, "idle") /\ thread'[w2].pc = "idle"

MCSpec == Init /\ [][MCNext]_vars /\ Fairness

(* The slot of a connection that has ended is released, and accepts again. *)
(* (ReleaseSession, the accept thread)                                     *)
SlotsComeRound == EndedClientsLeave /\ SlotsAcceptAgain
=============================================================================
