SPECIFICATION MCSpec
CONSTANTS
  p1 = p1
  p2 = p2
  p3 = p3
  Player = {p1, p2, p3}
  Nobody = Nobody
  MaxRoom = 1
  MaxRoomPlayer = 2
  DefaultWaitRoom = 1
  MaxRoomID = 2
  Overlap = TRUE
  MaxDrop = 1
  MaxLoss = 1
CHECK_DEADLOCK FALSE
VIEW RoomView
SYMMETRY PlayerSymmetry
INVARIANTS
  IndexQueueExact
  OpenRoomCountExact
  CurUserExact
  AdmissionSound
