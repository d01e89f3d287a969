SPECIFICATION MCSpec
CONSTANTS
  w1 = w1
  w2 = w2
  c1 = c1
  Worker = {w1, w2}
  Caller = {c1}
  BufferSize = 5
  HeaderSize = 2
  MaxPayload = 2
  Payload <- MCPayload
  MaxLink = 2
  MaxCall = 2
CHECK_DEADLOCK FALSE
INVARIANTS
  ReceivedIsStream
  IoCountExact
  PacketsSentOnce
PROPERTIES
  LostLinkGivenUp
