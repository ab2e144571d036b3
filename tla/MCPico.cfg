CONSTANTS
  Boards = {"HQ", "Z21PG"}
  Packet <- PacketsSent
  ServicePacket <- CVPackets
  Idle <- IdlePacket
  Reset <- ResetPacket
  SM_REPEATS = 2
  RailComOnDcc = {FALSE}
  RailComOnAux = {TRUE, FALSE}
  Programs <- PlainOrEarly
SPECIFICATION Spec
INVARIANTS SentBufferFree OffMeansOff
PROPERTIES AsksAgain PowerFollows ImplementsEngine
