SPECIFICATION MCSpec
CONSTANTS
  s1 = s1
  w1 = w1
  w2 = w2
  Slot = {s1}
  NoSlot = NoSlot
  Worker = {w1, w2}
  MaxFault = 2
  MaxClient = 2
  FailLimit = 1
  MaxLogin = 2
  Side = {"Match", "Battle"}
CHECK_DEADLOCK FALSE
INVARIANTS
  SlotsComeBack
  RequestsEndOnce
  LoginSound
PROPERTIES
  LoginSettles
