----------------------------- MODULE PacketFifo -----------------------------
(***************************************************************************)
(* What the four queue classes of DCCPacketQueue.cpp promise, stated on    *)
(* sequences: the order of the waiting packets, without the ring buffer.   *)
(* A packet is a record [addr, kind, data, rep]: the decoder address, the  *)
(* kind that selects the wire format, the payload and the 6-bit repeat     *)
(* field of DCCPacket::size_repeat.  DCCPacketQueue.tla shows that the     *)
(* ring buffer implements these operators; DCCPacketScheduler.tla uses     *)
(* them for its queues.                                                    *)
(***************************************************************************)
EXTENDS Integers, Sequences

CONSTANTS
  AppendOnlyKinds, (* basic_accessory_packet_kind, ops_mode_programming_kind *)
  RepeatMod        (* setRepeat() keeps 6 bits of its argument: 64           *)

Entries(s) == {s[k] : k \in 1..Len(s)}

(* DCCPacket::setRepeat: the new count is masked, never saturated.         *)
SetRepeat(p, r) == [p EXCEPT !.rep = r % RepeatMod]

(* Deliberate errors: every kind may be overwritten, accessories included;  *)
(* and the address is not compared.                                        *)
SameKeyAnyKind(c, p) == c.addr = p.addr /\ c.kind = p.kind

SameKindOnly(c, p) == c.kind = p.kind /\ p.kind \notin AppendOnlyKinds

(* The comparison that lets a new packet take the place of a waiting one.  *)
SameKey(c, p) ==
  /\ c.addr = p.addr
  /\ c.kind = p.kind
  /\ p.kind \notin AppendOnlyKinds

Hits(s, p) == {k \in 1..Len(s) : SameKey(s[k], p)}

Least(S) == CHOOSE k \in S : \A j \in S : k <= j

(***************************************************************************)
(* insertPacket on a queue of capacity cap: a full queue rejects whatever  *)
(* it is given, even a packet that could take the place of a waiting one;  *)
(* the return value is Accepts(s, cap).                                    *)
(***************************************************************************)
Accepts(s, cap) == Len(s) < cap

(* Deliberate error: the queue is not searched for an older order.         *)
InsertUnsearched(s, cap, p) ==
  IF Accepts(s, cap) THEN Append(s, p) ELSE s

Insert(s, cap, p) ==
  IF ~Accepts(s, cap) THEN s
  ELSE IF Hits(s, p) = {} THEN Append(s, p)
  ELSE [s EXCEPT ![Least(Hits(s, p))] = p]

(* DCCRepeatQueue::insertPacket: nothing left to repeat, nothing to queue. *)
RepeatAccepts(s, cap, p) == p.rep # 0 /\ Accepts(s, cap)

(* Deliberate error: a packet with nothing left to repeat is queued again. *)
RepeatInsertAlways(s, cap, p) == Insert(s, cap, p)

RepeatInsert(s, cap, p) == IF p.rep = 0 THEN s ELSE Insert(s, cap, p)

(***************************************************************************)
(* readPacket of each class, on a queue that is not empty: the packet that *)
(* is handed out and the sequence that stays behind.                       *)
(***************************************************************************)
FifoRead(s) == [packet |-> Head(s), rest |-> Tail(s)]

RepeatRead(s, cap) ==
  IF Head(s).rep = 0 THEN FifoRead(s)
  ELSE LET p == SetRepeat(Head(s), Head(s).rep - 1)
       IN  [packet |-> p, rest |-> RepeatInsert(Tail(s), cap, p)]

EmergencyRead(s) ==
  LET p == SetRepeat(Head(s), Head(s).rep - 1)
  IN  [packet |-> p,
       rest   |-> IF p.rep = 0 THEN Tail(s) ELSE [s EXCEPT ![1] = p]]

(* Deliberate error: the packet is not put back.                           *)
TemporalReadOnce(s, cap) == FifoRead(s)

TemporalRead(s, cap) ==
  [packet |-> Head(s), rest |-> Insert(Tail(s), cap, Head(s))]

=============================================================================
