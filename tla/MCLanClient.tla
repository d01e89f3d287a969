---------------------------- MODULE MCLanClient -----------------------------
(* A small instance of LanClient: two packets per link, which make the     *)
(* ring wrap.  Nothing is received once a thread has called SendPacket;    *)
(* the second link receives at most one byte, behind what the first left;  *)
(* and a run ends where a SendPacket was overtaken.                        *)
EXTENDS LanClient

CONSTANTS w1, w2, c1

MCPayload == <<1, 2>>

MCNext ==
    /\ Next
    /\ ~late
    /\ calls > 0 => arrived' <= arrived
    /\ link > 1 => arrived' <= 1

MCSpec == Init /\ [][MCNext]_vars /\ Fairness
=============================================================================
