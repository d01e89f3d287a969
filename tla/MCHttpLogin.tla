---------------------------- MODULE MCHttpLogin -----------------------------
(* An instance of HttpLogin for TLC.  Two clients come while nothing goes  *)
(* wrong outside the program, one when something does; at the Battle       *)
(* server, whose logins are longer, one worker runs, and only the first    *)
(* client ends a game, before the second comes.  Only the first client     *)
(* logs in again, while nothing goes wrong, and then ends no game.         *)
EXTENDS HttpLogin, TLC

CONSTANTS s1, w1, w2

MCNext ==
    /\ Next
    /\ arrived' > 1 => faults' = 0
    /\ side = "Battle" => worker'[w2].pc = "idle"
    /\ arrived' > 1 => \A p \in Seat : ~seat'[p].played /\ seat'[p].asked <= 1
    /\ \A p \in Seat : seat'[p].asked > 1 => faults' = 0 /\ ~seat'[p].played

MCSpec == Init /\ [][MCNext]_vars /\ Fairness
=============================================================================
