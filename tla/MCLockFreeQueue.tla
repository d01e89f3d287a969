--------------------------- MODULE MCLockFreeQueue ---------------------------
(* Small instances of LockFreeQueue.                                       *)
EXTENDS LockFreeQueue, QueuePromises
=============================================================================
