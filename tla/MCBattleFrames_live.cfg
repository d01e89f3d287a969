SPECIFICATION FrameSpec
CONSTANTS
  p1 = p1
  p2 = p2
  Player = {p1, p2}
  SessionArray <- TwoSessions
  Nobody = Nobody
  MaxRoom = 1
  MaxRoomPlayer = 2
  DefaultWaitRoom = 1
  MaxRoomID = 2
  Overlap = FALSE
  MaxDrop = 0
  MaxLoss = 0
CHECK_DEADLOCK FALSE
INVARIANTS
  LeaversLeaveTheirRoom
PROPERTIES
  LastSurvivorWins
  RoomsRunTheirCourse
