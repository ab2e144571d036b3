------------------------- MODULE MCDCCHardwareRPPico -------------------------
(* Instances of DCCHardwareRPPico for TLC: a speed packet, a CV packet.    *)
EXTENDS DCCHardwareRPPico

CV == [op |-> "cv"]
PacketsSent == {[op |-> "speed"], CV}
CVPackets == {CV}
IdlePacket == [op |-> "idle"]
ResetPacket == [op |-> "reset"]

(* The plain use, and calls of a program that trusts canAcceptPacket when an *)
(* interrupt within send() has set it again.                                *)
PlainOrEarly == {{}, {"sendEarly"}, {"leaveEarly"}}
=============================================================================
