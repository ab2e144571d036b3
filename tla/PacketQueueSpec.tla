--------------------------- MODULE PacketQueueSpec ---------------------------
(***************************************************************************)
(* The abstract packet queue: a sequence of waiting packets, one operation *)
(* per method of the queue classes.  DCCPacketQueue.tla implements it.     *)
(***************************************************************************)
EXTENDS PacketFifo

CONSTANTS Size, Packet

VARIABLES
  class,   (* which of the four classes the object is; never changes *)
  items,   (* the waiting packets, oldest first                      *)
  packet,  (* the packet the last readPacket handed out              *)
  result   (* what the last call returned                            *)

vars == <<class, items, packet, result>>

Classes == {"DCCPacketQueue", "DCCRepeatQueue",
            "DCCEmergencyQueue", "DCCTemporalQueue"}

Init ==
  /\ class \in Classes
  /\ items = << >>
  /\ packet \in Packet
  /\ result = FALSE

InsertPacket(p) ==
  /\ IF class = "DCCRepeatQueue"
     THEN /\ items' = RepeatInsert(items, Size, p)
          /\ result' = RepeatAccepts(items, Size, p)
     ELSE /\ items' = Insert(items, Size, p)
          /\ result' = Accepts(items, Size)
  /\ UNCHANGED <<class, packet>>

ReadOf(s) ==
  CASE class = "DCCPacketQueue"    -> FifoRead(s)
    [] class = "DCCRepeatQueue"    -> RepeatRead(s, Size)
    [] class = "DCCEmergencyQueue" -> EmergencyRead(s)
    [] class = "DCCTemporalQueue"  -> TemporalRead(s, Size)

ReadPacket ==
  /\ items # << >>
  /\ items' = ReadOf(items).rest
  /\ packet' = ReadOf(items).packet
  /\ result' = TRUE
  /\ UNCHANGED class

(* readPacket on an empty queue leaves the caller's packet alone.          *)
ReadNothing ==
  /\ items = << >>
  /\ result' = FALSE
  /\ UNCHANGED <<class, items, packet>>

Next ==
  \/ \E p \in Packet : InsertPacket(p)
  \/ ReadPacket
  \/ ReadNothing

Spec == Init /\ [][Next]_vars

=============================================================================
