------------------------ MODULE MCDCCHardwareCommon ------------------------
(***************************************************************************)
(* An instance of the waveform generator for TLC: bytes of two bits, byte  *)
(* counters of four, preambles to match (seven ones less the four of the   *)
(* gap are just what the decoder waits for).                               *)
(***************************************************************************)
EXTENDS DCCHardwareCommon

LocoPacket == <<0, 1, 2>>
CVPacket == <<1, 3>>
PacketsSent == {LocoPacket, CVPacket}
CVPackets == {CVPacket}
IdlePacket == <<3, 0, 3>>
ResetPacket == <<0, 0, 0>>

Operating ==
  [serviceMode |-> TRUE, powerSwitched |-> TRUE, railCom |-> BOOLEAN,
   monitorChanged |-> FALSE, inverted |-> {}]

Reconfiguring ==
  [serviceMode |-> TRUE, powerSwitched |-> TRUE, railCom |-> BOOLEAN,
   monitorChanged |-> TRUE, inverted |-> BOOLEAN]

Both == {Operating, Reconfiguring}
=============================================================================
