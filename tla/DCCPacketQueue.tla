--------------------------- MODULE DCCPacketQueue ---------------------------
(***************************************************************************)
(* The circular buffer of DCCPacketQueue.cpp and its three subclasses: a   *)
(* malloc'ed array of Size cells, two cursors and the number of cells in   *)
(* use.  A cell keeps its last content after it is read, as in the code.   *)
(* One object is modelled; class says which of the four classes it is.     *)
(***************************************************************************)
EXTENDS Integers

CONSTANTS
  Size,            (* the argument of setup(): 15, 25, 5 or 60..255 in the code *)
  Address, Kind, Data, (* what the packets are made of                          *)
  AppendOnlyKinds, (* the kinds insertPacket never overwrites                   *)
  RepeatMod,       (* the repeat field has 6 bits: 64                           *)
  IdleAddress, IdleKind, IdleData (* DCCPacket(): the idle packet               *)

(* size is a byte; every queue of the scheduler has at least one cell.     *)
ASSUME SizeAssumption == Size \in 1..255
ASSUME RepeatAssumption == RepeatMod \in Nat \ {0}
ASSUME IdleAssumption ==
  IdleAddress \in Address /\ IdleKind \in Kind /\ IdleData \in Data

VARIABLES
  class,      (* DCCPacketQueue, DCCRepeatQueue, DCCEmergencyQueue or DCCTemporalQueue *)
  queue,      (* the cells                                          *)
  read_pos,   (* the cell of the oldest packet                      *)
  write_pos,  (* the cell of the next packet                        *)
  written,    (* how many cells have valid data                     *)
  packet,     (* the caller's DCCPacket, filled by readPacket       *)
  result      (* the return value of the last call                  *)

vars == <<class, queue, read_pos, write_pos, written, packet, result>>

Packet ==
  [addr : Address, kind : Kind, data : Data, rep : 0..RepeatMod - 1]

IdlePacket ==
  [addr |-> IdleAddress, kind |-> IdleKind, data |-> IdleData, rep |-> 0]

Cell == 0..Size - 1

Classes == {"DCCPacketQueue", "DCCRepeatQueue",
            "DCCEmergencyQueue", "DCCTemporalQueue"}

(* Deliberate error: the cursor does not wrap round.                       *)
StepWithoutWrap(i) == i + 1

Step(i) == (i + 1) % Size

SetRepeat(p, r) == [p EXCEPT !.rep = r % RepeatMod]

SameKey(c, p) ==
  /\ c.addr = p.addr
  /\ c.kind = p.kind
  /\ p.kind \notin AppendOnlyKinds

(* The k-th cell after cursor rp.                                          *)
At(rp, k) == (rp + k) % Size

-----------------------------------------------------------------------------
Init ==
  /\ class \in Classes
  /\ queue = [i \in Cell |-> IdlePacket]
  /\ read_pos = 0
  /\ write_pos = 0
  /\ written = 0
  /\ packet = IdlePacket
  /\ result = FALSE

(***************************************************************************)
(* The scan of insertPacket starts at read_pos and stops at the first cell *)
(* equal to (read_pos + written) % size: with every cell in use that is    *)
(* read_pos itself, and no cell is looked at.                              *)
(***************************************************************************)
(* Deliberate error: the scan stops one cell early.                        *)
ScannedShort(rp, n) == 0..n - 2

Scanned(rp, n) == IF At(rp, n) = rp THEN {} ELSE 0..n - 1

ScanHits(rp, n, p) == {k \in Scanned(rp, n) : SameKey(queue[At(rp, k)], p)}

FirstHit(S) == CHOOSE k \in S : \A j \in S : k <= j

(* insertPacket with the read cursor at rp and n cells in use; ok is what  *)
(* it returns.                                                             *)
OverwriteInPlace(rp, n, p) ==
  /\ ScanHits(rp, n, p) # {}
  /\ queue' = [queue EXCEPT ![At(rp, FirstHit(ScanHits(rp, n, p)))] = p]
  /\ written' = n
  /\ UNCHANGED write_pos

AppendAtEnd(rp, n, p) ==
  /\ ScanHits(rp, n, p) = {}
  /\ n # Size
  /\ queue' = [queue EXCEPT ![write_pos] = p]
  /\ write_pos' = Step(write_pos)
  /\ written' = n + 1

RejectFull(rp, n, p) ==
  /\ ScanHits(rp, n, p) = {}
  /\ n = Size
  /\ written' = n
  /\ UNCHANGED <<queue, write_pos>>

Store(rp, n, p, ok) ==
  \/ OverwriteInPlace(rp, n, p) /\ ok
  \/ AppendAtEnd(rp, n, p) /\ ok
  \/ RejectFull(rp, n, p) /\ ~ok

(* DCCRepeatQueue::insertPacket                                            *)
NothingToRepeat(p) == class = "DCCRepeatQueue" /\ p.rep = 0

InsertPacket(p) ==
  /\ IF NothingToRepeat(p)
     THEN result' = FALSE /\ UNCHANGED <<queue, write_pos, written>>
     ELSE result' \in BOOLEAN /\ Store(read_pos, written, p, result')
  /\ UNCHANGED <<class, read_pos, packet>>

-----------------------------------------------------------------------------
(* Deliberate error: the packet is read and still counted.                 *)
PopUncounted ==
  /\ read_pos' = Step(read_pos)
  /\ UNCHANGED <<queue, write_pos, written>>

(* DCCPacketQueue::readPacket                                              *)
PopFront ==
  /\ read_pos' = Step(read_pos)
  /\ written' = written - 1
  /\ UNCHANGED <<queue, write_pos>>

ReadPlain ==
  /\ class = "DCCPacketQueue"
  /\ written # 0
  /\ packet' = queue[read_pos]
  /\ PopFront
  /\ result' = TRUE
  /\ UNCHANGED class

(* DCCRepeatQueue::readPacket: count down, and back to the end of the      *)
(* queue while repeats are left.  insertPacket is virtual: this class's.   *)
ReadRepeat ==
  /\ class = "DCCRepeatQueue"
  /\ written # 0
  /\ packet' = IF queue[read_pos].rep = 0 THEN queue[read_pos]
               ELSE SetRepeat(queue[read_pos], queue[read_pos].rep - 1)
  /\ IF packet'.rep = 0
     THEN PopFront
     ELSE /\ read_pos' = Step(read_pos)
          /\ \E ok \in BOOLEAN : Store(Step(read_pos), written - 1, packet', ok)
  /\ result' = TRUE
  /\ UNCHANGED class

(* DCCEmergencyQueue::readPacket: the head counts down in place and leaves *)
(* when it reaches zero.                                                   *)
ReadEmergency ==
  /\ class = "DCCEmergencyQueue"
  /\ written # 0
  /\ packet' = SetRepeat(queue[read_pos], queue[read_pos].rep - 1)
  /\ queue' = [queue EXCEPT ![read_pos] = packet']
  /\ read_pos' = IF packet'.rep = 0 THEN Step(read_pos) ELSE read_pos
  /\ written' = IF packet'.rep = 0 THEN written - 1 ELSE written
  /\ result' = TRUE
  /\ UNCHANGED <<class, write_pos>>

(* Deliberate error: the packet is put back before the cursor has moved.   *)
ReadTemporalPutBackFirst ==
  /\ class = "DCCTemporalQueue"
  /\ written # 0
  /\ packet' = queue[read_pos]
  /\ read_pos' = Step(read_pos)
  /\ \E ok \in BOOLEAN : Store(read_pos, written, packet', ok)
  /\ result' = TRUE
  /\ UNCHANGED class

(* DCCTemporalQueue::readPacket: the head goes back to the end, for ever.  *)
ReadTemporal ==
  /\ class = "DCCTemporalQueue"
  /\ written # 0
  /\ packet' = queue[read_pos]
  /\ read_pos' = Step(read_pos)
  /\ \E ok \in BOOLEAN : Store(Step(read_pos), written - 1, packet', ok)
  /\ result' = TRUE
  /\ UNCHANGED class

ReadEmpty ==
  /\ written = 0
  /\ result' = FALSE
  /\ UNCHANGED <<class, queue, read_pos, write_pos, written, packet>>

(* Every caller sets a kind before it queues a packet.                      *)
Request == {p \in Packet : p.kind # IdleKind}

Next ==
  \/ \E p \in Request : InsertPacket(p)
  \/ ReadPlain
  \/ ReadRepeat
  \/ ReadEmergency
  \/ ReadTemporal
  \/ ReadEmpty

Spec == Init /\ [][Next]_vars

-----------------------------------------------------------------------------
TypeOK ==
  /\ class \in Classes
  /\ queue \in [Cell -> Packet]
  /\ read_pos \in Cell
  /\ write_pos \in Cell
  /\ written \in 0..Size
  /\ packet \in Packet
  /\ result \in BOOLEAN

(* The write cursor is where the read cursor and the fill count say: what   *)
(* insertPacket writes to is never a cell that holds a waiting packet.      *)
CursorsAgree == write_pos = At(read_pos, written)

(* No two waiting packets compete for the same decoder function: a caller's *)
(* newest order is the only one of its address and kind that can go out,    *)
(* however inserts, reads and re-inserts are interleaved.                   *)
NoRivals ==
  \A j, k \in 0..written - 1 :
    SameKey(queue[At(read_pos, j)], queue[At(read_pos, k)]) => j = k

(* The waiting packets, oldest first.                                       *)
Contents == [k \in 1..written |-> queue[At(read_pos, k - 1)]]

Fifo == INSTANCE PacketQueueSpec WITH items <- Contents

(* The ring buffer implements the abstract queue: nothing is lost, doubled, *)
(* reordered or invented by the cursor arithmetic.                          *)
ImplementsFifo == Fifo!Spec

(* What the comment on insertPacket says and a full queue does not do: the  *)
(* newest order for a decoder function takes the place of a waiting one.    *)
SameKeyIsOverwritten ==
  [][ \A p \in Request :
        /\ InsertPacket(p)
        /\ ~NothingToRepeat(p)
        /\ \E k \in 0..written - 1 : SameKey(queue[At(read_pos, k)], p)
        => result' ]_vars

=============================================================================
