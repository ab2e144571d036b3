CONSTANTS
  Packet <- PacketsSent
  ServicePacket <- CVPackets
  Idle <- IdlePacket
  Reset <- ResetPacket
  BITS = 2
  ByteMod = 16
  PREAMBLE = 7
  PREAMBLE_SM = 9
  RAILCOM_CUTOUT_LENGTH = 4
  SM_REPEATS = 2
  MinPreamble = 3
  MaxBytes = 3
  Programs <- Both
SPECIFICATION Spec
INVARIANTS DecoderGetsPackets OffMeansOff
PROPERTIES ImplementsEngine SignalReturns StreamRecovers
