------------------------- MODULE MCDCCHardwareSTM32 --------------------------
(* Instances of DCCHardwareSTM32 for TLC: two speed packets, a CV packet.   *)
EXTENDS DCCHardwareSTM32

CV == [op |-> "cv"]
PacketsSent == {[op |-> "speed"], [op |-> "stop"], CV}
CVPackets == {CV}
IdlePacket == [op |-> "idle"]
ResetPacket == [op |-> "reset"]

(* The plain use, and each of the others by itself.                         *)
OneUseEach == {{}} \union {{use} : use \in AllUses}

StopInCutout == {{"stopInCutout"}}
=============================================================================
