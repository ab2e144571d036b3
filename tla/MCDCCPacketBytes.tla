--------------------------- MODULE MCDCCPacketBytes ---------------------------
(* Instances of DCCPacketBytes for TLC: addresses, CVs and bytes at both    *)
(* sides of every boundary of the packet formats.                           *)
EXTENDS DCCPacketBytes

LegalLocos == {0, 1, 3, 111, 112, 127, 128, 255, 256, 8191, 8192, 10239}
SomeSpeeds == {0, 1, 2, 31, 127, 128, 129, 159, 255}
SomeValues == {0, 1, 28, 29, 31, 128, 157, 255}
LegalTurnouts == {0, 3, 255, 256, 2043}
SomeCVs == {0, 255, 256, 1023}
=============================================================================
