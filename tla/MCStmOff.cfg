CONSTANTS
  Packet <- PacketsSent
  ServicePacket <- CVPackets
  Idle <- IdlePacket
  Reset <- ResetPacket
  SM_REPEATS = 2
  Programs <- StopInCutout
SPECIFICATION Spec
INVARIANT StopHolds
