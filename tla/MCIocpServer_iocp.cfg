SPECIFICATION MCSpec
CONSTANTS
  w1 = w1
  w2 = w2
  Kind = {"Net", "Lan"}
  Worker = {w1, w2}
  Caller = {"c1", "c2"}
  AcceptPool = 1
  MaxClient = 2
  MaxCall = 2
  MaxFault = 1
CHECK_DEADLOCK FALSE
INVARIANTS
  CountersExact
  LocksHoldTheirClient
  ClientsLeaveForCause
  SendsInOrder
PROPERTIES
  SlotsComeRound
