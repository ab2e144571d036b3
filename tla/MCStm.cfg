CONSTANTS
  Packet <- PacketsSent
  ServicePacket <- CVPackets
  Idle <- IdlePacket
  Reset <- ResetPacket
  SM_REPEATS = 2
  Programs <- OneUseEach
SPECIFICATION Spec
INVARIANT OffMeansOff
PROPERTIES PowerReturns AsksAgain ImplementsEngine
