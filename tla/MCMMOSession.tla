---------------------------- MODULE MCMMOSession ----------------------------
(* Small instances of MMOSession.                                          *)
EXTENDS MMOSession, TLC

Symmetry == Permutations(Worker)

(* A session whose client is gone is freed, and a free one waits for the   *)
(* next client. (ReleaseSession, Update_AcceptThread)                      *)
SessionsComeRound == EndedSessionsAreFreed /\ FreeSessionsGetAccept
=============================================================================
