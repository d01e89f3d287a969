SPECIFICATION MCSpec
CONSTANTS
  MaxRoom = 2
  DefaultWaitRoom = 1
  MaxRoomID = 2
  MaxClient = 2
  MaxDrop = 1
  MaxEntry = 2
CHECK_DEADLOCK FALSE
INVARIANTS
  RoomListsExact
  PlayersKnown
  RoomsMirrored
PROPERTIES
  ClosedRoomsEmptied
