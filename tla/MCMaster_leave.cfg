SPECIFICATION LeaveSpec
CONSTANTS
  m1 = m1
  b1 = b1
  b2 = b2
  k1 = k1
  k2 = k2
  a1 = a1
  o1 = o1
  o2 = o2
  p1 = p1
  p2 = p2
  Conn = {m1, b1, b2}
  MatchConn = {m1}
  Key = {k1}
  Account = {a1}
  AccountOf <- OneAccount
  RoomNo = {1}
  MaxUser = 1
  Room = {o1, o2}
  Session = {p1, p2}
  WorkerCnt = 1
  MaxBattleNo = 2
  NoConn = NoConn
  NoKey = NoKey
  NoRoom = NoRoom
  NoSession = NoSession
PROPERTIES
  BattleLeaveCleansRooms
