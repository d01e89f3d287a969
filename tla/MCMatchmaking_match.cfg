SPECIFICATION Spec
CONSTANTS
  c1 = c1
  c2 = c2
  o1 = o1
  o2 = o2
  Client = {c1, c2}
  Object = {o1, o2}
  Lan = Lan
  Http = Http
  MaxHttpFail = 1
  MaxDrop = 2
  NoObject = NoObject
  NoClient = NoClient
CHECK_DEADLOCK FALSE
SYMMETRY ClientSymmetry
INVARIANTS
  SessionsSound
  PlacesKept
  RoomRequestNotLost
  LoginsAnswered
