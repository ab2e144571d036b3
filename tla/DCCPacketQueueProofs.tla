------------------------ MODULE DCCPacketQueueProofs ------------------------
(***************************************************************************)
(* The ring buffer, for every size up to 255 and every set of packets: its *)
(* types and cursors, at most one packet of a key, and that it implements  *)
(* the abstract packet queue.                                              *)
(***************************************************************************)
EXTENDS DCCPacketQueue, WellFoundedInduction, SequenceTheorems, TLAPS

(* A ring with its read cursor at rp, its write cursor at wp and n cells in  *)
(* use.  The queue is in such a state between two calls, and between the two *)
(* halves of a readPacket that puts the packet back.                         *)
Ring(q, rp, wp, n) ==
  /\ q \in [Cell -> Packet]
  /\ rp \in Cell
  /\ wp \in Cell
  /\ n \in 0..Size
  /\ wp = At(rp, n)
  /\ \A j, k \in 0..n - 1 : SameKey(q[At(rp, j)], q[At(rp, k)]) => j = k

IInv ==
  /\ class \in Classes
  /\ packet \in Packet
  /\ result \in BOOLEAN
  /\ Ring(queue, read_pos, write_pos, written)

(* A set of natural numbers that is not empty has a least element.           *)
LEMMA LeastElement ==
  ASSUME NEW S, S \subseteq Nat, S # {}
  PROVE  \E i \in S : \A j \in S : i <= j
<1>1. IsWellFoundedOn(OpToRel(<, Nat), Nat)
  BY NatLessThanWellFounded
<1>2. PICK i \in S : \A j \in S : <<j, i>> \notin OpToRel(<, Nat)
  BY <1>1, WFMin
<1>3. ASSUME NEW j \in S PROVE i <= j
  <2>1. <<j, i>> \in Nat \X Nat /\ ~(j < i)
    BY <1>2 DEF OpToRel
  <2> QED
    BY <2>1
<1> QED
  BY <1>2, <1>3

(* Cursor arithmetic: one round at most is taken off.                        *)
LEMMA WrapOnce ==
  ASSUME NEW n \in Nat \ {0}, NEW x \in 0..2 * n - 1
  PROVE  x % n = IF x < n THEN x ELSE x - n
<1>1. CASE x < n
  BY <1>1
<1>2. CASE x >= n
  BY <1>2
<1> QED
  BY <1>1, <1>2

-----------------------------------------------------------------------------
(* Cursor arithmetic.                                                        *)
LEMMA AtIsACell ==
  ASSUME NEW rp \in Cell, NEW k \in 0..Size
  PROVE  /\ At(rp, k) \in Cell
         /\ At(rp, k) = IF rp + k < Size THEN rp + k ELSE rp + k - Size
<1> DEFINE x == rp + k
<1>1. x \in 0..2 * Size - 1 /\ Size \in Nat \ {0}
  BY SizeAssumption DEF Cell
<1>2. x % Size = IF x < Size THEN x ELSE x - Size
  <2> HIDE DEF x
  <2> QED
    BY <1>1, WrapOnce
<1> QED
  BY <1>1, <1>2 DEF At, Cell

(* Two positions of one round are two cells.                                 *)
LEMMA AtInjective ==
  ASSUME NEW rp \in Cell, NEW j \in 0..Size - 1, NEW k \in 0..Size - 1,
         At(rp, j) = At(rp, k)
  PROVE  j = k
<1>1. rp \in Int /\ Size \in Int /\ j \in 0..Size /\ k \in 0..Size /\ rp < Size /\ rp >= 0
  BY SizeAssumption DEF Cell
<1>2. /\ At(rp, j) = IF rp + j < Size THEN rp + j ELSE rp + j - Size
      /\ At(rp, k) = IF rp + k < Size THEN rp + k ELSE rp + k - Size
  BY <1>1, AtIsACell
<1>3. j \in Int /\ k \in Int /\ j >= 0 /\ k >= 0 /\ j < Size /\ k < Size
  BY <1>1
<1>4. (IF rp + j < Size THEN rp + j ELSE rp + j - Size)
        = (IF rp + k < Size THEN rp + k ELSE rp + k - Size)
  BY <1>2
<1> QED
  BY <1>1, <1>3, <1>4

(* A step of the read cursor moves every packet one position forward.        *)
LEMMA AtStep ==
  ASSUME NEW rp \in Cell
  PROVE  /\ Step(rp) \in Cell
         /\ At(rp, 0) = rp
         /\ At(rp, Size) = rp
         /\ \A k \in 0..Size - 1 : At(Step(rp), k) = At(rp, k + 1)
<1>1. rp \in Int /\ Size \in Int /\ Size > 0 /\ rp < Size /\ rp >= 0
  BY SizeAssumption DEF Cell
<1>2. Step(rp) \in Cell /\ Step(rp) = IF rp + 1 < Size THEN rp + 1 ELSE rp + 1 - Size
  <2>1. 1 \in 0..Size
    BY <1>1
  <2> QED
    BY <2>1, AtIsACell DEF Step, At
<1>3. At(rp, 0) = rp /\ At(rp, Size) = rp
  <2>1. 0 \in 0..Size /\ Size \in 0..Size
    BY <1>1
  <2>2. At(rp, 0) = IF rp + 0 < Size THEN rp + 0 ELSE rp + 0 - Size
    BY <2>1, AtIsACell
  <2>3. At(rp, Size) = IF rp + Size < Size THEN rp + Size ELSE rp + Size - Size
    BY <2>1, AtIsACell
  <2> QED
    BY <1>1, <2>2, <2>3
<1>4. ASSUME NEW k \in 0..Size - 1 PROVE At(Step(rp), k) = At(rp, k + 1)
  <2>1. k \in 0..Size /\ k + 1 \in 0..Size /\ k \in Int
    BY <1>1
  <2>2. At(Step(rp), k) = IF Step(rp) + k < Size THEN Step(rp) + k ELSE Step(rp) + k - Size
    BY <1>2, <2>1, AtIsACell
  <2>3. At(rp, k + 1) = IF rp + (k + 1) < Size THEN rp + (k + 1) ELSE rp + (k + 1) - Size
    BY <2>1, AtIsACell
  <2> QED
    BY <1>1, <1>2, <2>1, <2>2, <2>3
<1> QED
  BY <1>2, <1>3, <1>4

(* A repeat count is masked into its field, also when 0 is counted down.     *)
LEMMA SetRepeatIsAPacket ==
  ASSUME NEW p \in Packet, NEW r \in Int
  PROVE  /\ SetRepeat(p, r) \in Packet
         /\ SetRepeat(p, r).addr = p.addr
         /\ SetRepeat(p, r).kind = p.kind
<1>1. r % RepeatMod \in 0..RepeatMod - 1
  BY RepeatAssumption
<1> QED
  BY <1>1 DEF SetRepeat, Packet

-----------------------------------------------------------------------------
(* The scan of insertPacket looks at every waiting packet, unless the queue  *)
(* is full.                                                                  *)
LEMMA ScanIsComplete ==
  ASSUME NEW rp \in Cell, NEW n \in 0..Size
  PROVE  /\ Scanned(rp, n) \subseteq 0..n - 1
         /\ n # Size => Scanned(rp, n) = 0..n - 1
<1>1. rp \in Int /\ Size \in Int /\ n \in Int /\ rp < Size /\ rp >= 0 /\ n >= 0
  BY SizeAssumption DEF Cell
<1>2. At(rp, n) = IF rp + n < Size THEN rp + n ELSE rp + n - Size
  BY AtIsACell
<1>3. CASE n = 0 \/ n = Size
  BY <1>1, <1>3 DEF Scanned
<1>4. CASE n # 0 /\ n # Size
  <2>1. At(rp, n) # rp
    BY <1>1, <1>2, <1>4
  <2> QED
    BY <2>1 DEF Scanned
<1> QED
  BY <1>3, <1>4

(* The packet that is overwritten is a waiting one with the same key.        *)
LEMMA FirstHitIsAHit ==
  ASSUME NEW rp \in Cell, NEW n \in 0..Size, NEW p, ScanHits(rp, n, p) # {}
  PROVE  LET h == FirstHit(ScanHits(rp, n, p))
         IN  h \in 0..n - 1 /\ SameKey(queue[At(rp, h)], p)
<1>1. ScanHits(rp, n, p) \subseteq 0..n - 1
  BY ScanIsComplete DEF ScanHits
<1>2. ScanHits(rp, n, p) \subseteq Nat
  BY <1>1, SizeAssumption
<1>3. \E i \in ScanHits(rp, n, p) : \A j \in ScanHits(rp, n, p) : i <= j
  BY <1>2, LeastElement
<1>4. FirstHit(ScanHits(rp, n, p)) \in ScanHits(rp, n, p)
  BY <1>3 DEF FirstHit
<1> QED
  BY <1>1, <1>4 DEF ScanHits

(* insertPacket leaves a ring behind, whatever it does with the packet.      *)
LEMMA StoreKeepsRing ==
  ASSUME NEW rp, NEW n, Ring(queue, rp, write_pos, n), NEW p \in Packet,
         NEW ok, Store(rp, n, p, ok)
  PROVE  Ring(queue', rp, write_pos', written')
<1>1. /\ queue \in [Cell -> Packet] /\ rp \in Cell /\ write_pos \in Cell
      /\ n \in 0..Size /\ n \in Int /\ Size \in Int /\ 0..n - 1 \subseteq 0..Size - 1
      /\ write_pos = At(rp, n)
      /\ \A j, k \in 0..n - 1 : SameKey(queue[At(rp, j)], queue[At(rp, k)]) => j = k
  BY SizeAssumption DEF Ring
<1>2. \A j \in 0..Size - 1 : At(rp, j) \in Cell
  BY <1>1, AtIsACell
<1>3. CASE OverwriteInPlace(rp, n, p)
  <2> DEFINE h == FirstHit(ScanHits(rp, n, p))
  <2>1. h \in 0..n - 1 /\ SameKey(queue[At(rp, h)], p)
    BY <1>1, <1>3, FirstHitIsAHit DEF OverwriteInPlace
  <2>2. queue' = [queue EXCEPT ![At(rp, h)] = p] /\ written' = n /\ write_pos' = write_pos
    BY <1>3 DEF OverwriteInPlace
  <2> HIDE DEF h
  <2>3. queue' \in [Cell -> Packet]
    BY <1>1, <1>2, <2>1, <2>2
  <2>4. queue'[At(rp, h)] = p
    BY <1>1, <1>2, <2>1, <2>2
  <2>5. ASSUME NEW j \in 0..n - 1, j # h PROVE queue'[At(rp, j)] = queue[At(rp, j)]
    <3>1. At(rp, j) # At(rp, h)
      BY <1>1, <2>1, <2>5, AtInjective
    <3> QED
      BY <1>1, <1>2, <2>2, <3>1
  <2>6. ASSUME NEW j \in 0..n - 1, NEW k \in 0..n - 1,
               SameKey(queue'[At(rp, j)], queue'[At(rp, k)])
        PROVE  j = k
    <3>1. CASE j # h /\ k # h
      BY <1>1, <2>5, <2>6, <3>1
    <3>2. CASE j = h /\ k # h
      <4>1. SameKey(queue[At(rp, h)], queue[At(rp, k)])
        BY <2>1, <2>4, <2>5, <2>6, <3>2 DEF SameKey
      <4> QED
        BY <1>1, <2>1, <3>2, <4>1
    <3>3. CASE j # h /\ k = h
      <4>1. SameKey(queue[At(rp, j)], queue[At(rp, h)])
        BY <2>1, <2>4, <2>5, <2>6, <3>3 DEF SameKey
      <4> QED
        BY <1>1, <2>1, <3>3, <4>1
    <3> QED
      BY <3>1, <3>2, <3>3
  <2> QED
    BY <1>1, <2>2, <2>3, <2>6 DEF Ring
<1>4. CASE AppendAtEnd(rp, n, p)
  <2>1. /\ queue' = [queue EXCEPT ![At(rp, n)] = p]
        /\ write_pos' = Step(write_pos) /\ written' = n + 1 /\ n # Size
        /\ ScanHits(rp, n, p) = {}
    BY <1>1, <1>4 DEF AppendAtEnd
  <2>2. n \in 0..Size - 1 /\ n + 1 \in 0..Size
    BY <1>1, <2>1
  <2>3. write_pos' \in Cell /\ write_pos' = At(rp, n + 1)
    <3>1. Step(write_pos) \in Cell
      BY <1>1, AtStep
    <3>2. write_pos = IF rp + n < Size THEN rp + n ELSE rp + n - Size
      BY <1>1, AtIsACell
    <3>3. At(rp, n + 1) = IF rp + (n + 1) < Size THEN rp + (n + 1) ELSE rp + (n + 1) - Size
      BY <1>1, <2>2, AtIsACell
    <3>4. 1 \in 0..Size
      BY <1>1, <2>2
    <3>5. At(write_pos, 1) = IF write_pos + 1 < Size THEN write_pos + 1
                             ELSE write_pos + 1 - Size
      BY <1>1, <3>4, AtIsACell
    <3>6. Step(write_pos) = At(write_pos, 1)
      BY DEF Step, At
    <3>7. rp \in Int /\ rp >= 0 /\ rp < Size
      BY <1>1 DEF Cell
    <3> QED
      BY <1>1, <2>1, <2>2, <3>1, <3>2, <3>3, <3>5, <3>6, <3>7
  <2>4. queue' \in [Cell -> Packet] /\ queue'[At(rp, n)] = p
    BY <1>1, <1>2, <2>1, <2>2
  <2>5. ASSUME NEW j \in 0..n - 1 PROVE queue'[At(rp, j)] = queue[At(rp, j)]
    <3>1. At(rp, j) # At(rp, n)
      BY <1>1, <2>2, AtInjective
    <3> QED
      BY <1>1, <1>2, <2>1, <3>1
  <2>6. \A j \in 0..n - 1 : ~SameKey(queue[At(rp, j)], p)
    BY <1>1, <2>1, ScanIsComplete DEF ScanHits
  <2>7. ASSUME NEW j \in 0..n, NEW k \in 0..n,
               SameKey(queue'[At(rp, j)], queue'[At(rp, k)])
        PROVE  j = k
    <3>1. CASE j \in 0..n - 1 /\ k \in 0..n - 1
      BY <1>1, <2>5, <2>7, <3>1
    <3>2. CASE j = n /\ k \in 0..n - 1
      <4>1. SameKey(queue[At(rp, k)], p)
        BY <2>4, <2>5, <2>7, <3>2 DEF SameKey
      <4> QED
        BY <2>6, <3>2, <4>1
    <3>3. CASE j \in 0..n - 1 /\ k = n
      <4>1. SameKey(queue[At(rp, j)], p)
        BY <2>4, <2>5, <2>7, <3>3 DEF SameKey
      <4> QED
        BY <2>6, <3>3, <4>1
    <3>4. CASE j = n /\ k = n
      BY <3>4
    <3> QED
      BY <1>1, <3>1, <3>2, <3>3, <3>4
  <2>8. (n + 1) - 1 = n
    BY <1>1
  <2> QED
    BY <1>1, <2>1, <2>2, <2>3, <2>4, <2>7, <2>8 DEF Ring
<1>5. CASE RejectFull(rp, n, p)
  BY <1>1, <1>5 DEF RejectFull, Ring
<1> QED
  BY <1>3, <1>4, <1>5 DEF Store

(* Taking the oldest packet out leaves a ring behind.                        *)
LEMMA PopKeepsRing ==
  ASSUME NEW q, NEW rp, NEW wp, NEW n, Ring(q, rp, wp, n), n # 0
  PROVE  Ring(q, Step(rp), wp, n - 1)
<1>1. /\ rp \in Cell /\ n \in Int /\ n \in 0..Size /\ n - 1 \in 0..Size /\ n - 1 \in 0..Size - 1
      /\ Size \in Int
  BY SizeAssumption DEF Ring
<1>2. /\ Step(rp) \in Cell
      /\ \A k \in 0..Size - 1 : At(Step(rp), k) = At(rp, k + 1)
  BY <1>1, AtStep
<1>3. wp = At(Step(rp), n - 1)
  BY <1>1, <1>2 DEF Ring
<1>4. ASSUME NEW j \in 0..(n - 1) - 1, NEW k \in 0..(n - 1) - 1,
             SameKey(q[At(Step(rp), j)], q[At(Step(rp), k)])
      PROVE  j = k
  <2>1. j + 1 \in 0..n - 1 /\ k + 1 \in 0..n - 1 /\ j \in 0..Size - 1 /\ k \in 0..Size - 1
    BY <1>1
  <2>2. SameKey(q[At(rp, j + 1)], q[At(rp, k + 1)])
    BY <1>2, <1>4, <2>1
  <2>3. j + 1 = k + 1
    BY <2>1, <2>2 DEF Ring
  <2> QED
    BY <2>3
<1> QED
  BY <1>1, <1>2, <1>3, <1>4 DEF Ring

(* So does counting the repeats of the head down in place.                   *)
LEMMA CountDownKeepsRing ==
  ASSUME NEW q, NEW rp, NEW wp, NEW n, Ring(q, rp, wp, n), n # 0, NEW r \in Int
  PROVE  Ring([q EXCEPT ![rp] = SetRepeat(q[rp], r)], rp, wp, n)
<1> DEFINE p == SetRepeat(q[rp], r)
           t == [q EXCEPT ![rp] = p]
<1>1. /\ q \in [Cell -> Packet] /\ rp \in Cell /\ n \in Int /\ Size \in Int
      /\ 0..n - 1 \subseteq 0..Size - 1 /\ 0..Size - 1 \subseteq 0..Size
  BY SizeAssumption DEF Ring
<1>2. p \in Packet /\ p.addr = q[rp].addr /\ p.kind = q[rp].kind
  BY <1>1, SetRepeatIsAPacket
<1> HIDE DEF p
<1>3. t \in [Cell -> Packet]
  BY <1>1, <1>2
<1>4. ASSUME NEW j \in 0..n - 1
      PROVE  /\ t[At(rp, j)].addr = q[At(rp, j)].addr
             /\ t[At(rp, j)].kind = q[At(rp, j)].kind
  <2>1. At(rp, j) \in Cell
    BY <1>1, AtIsACell
  <2> QED
    BY <1>1, <1>2, <2>1
<1>5. ASSUME NEW j \in 0..n - 1, NEW k \in 0..n - 1,
             SameKey(t[At(rp, j)], t[At(rp, k)])
      PROVE  j = k
  <2>1. SameKey(q[At(rp, j)], q[At(rp, k)])
    BY <1>4, <1>5 DEF SameKey
  <2> QED
    BY <2>1 DEF Ring
<1> QED
  BY <1>3, <1>5 DEF Ring, p

-----------------------------------------------------------------------------
(* setup() makes a ring of idle packets, none of them waiting.               *)
LEMMA InitIInv == Init => IInv
<1> SUFFICES ASSUME Init PROVE IInv
  OBVIOUS
<1>1. IdlePacket \in Packet
  BY IdleAssumption, RepeatAssumption DEF IdlePacket, Packet
<1>2. 0 \in Cell /\ 0 \in 0..Size /\ 0..0 - 1 = {}
  BY SizeAssumption DEF Cell
<1>3. At(0, 0) = 0
  BY <1>2, AtStep
<1> QED
  BY <1>1, <1>2, <1>3 DEF Init, IInv, Ring

(* Every method of the four classes keeps it a ring.                         *)
LEMMA NextIInv == IInv /\ [Next]_vars => IInv'
<1> SUFFICES ASSUME IInv, [Next]_vars PROVE IInv'
  OBVIOUS
<1>1. /\ class \in Classes /\ packet \in Packet /\ result \in BOOLEAN
      /\ Ring(queue, read_pos, write_pos, written)
  BY DEF IInv
<1>2. queue \in [Cell -> Packet] /\ read_pos \in Cell
  BY <1>1 DEF Ring
<1>3. ASSUME NEW p \in Request, InsertPacket(p) PROVE IInv'
  <2>1. p \in Packet
    BY DEF Request
  <2>2. CASE NothingToRepeat(p)
    BY <1>1, <1>3, <2>2 DEF InsertPacket, IInv
  <2>3. CASE ~NothingToRepeat(p)
    <3>1. Store(read_pos, written, p, result') /\ result' \in BOOLEAN
      BY <1>3, <2>3 DEF InsertPacket
    <3>2. Ring(queue', read_pos, write_pos', written')
      BY <1>1, <2>1, <3>1, StoreKeepsRing
    <3> QED
      BY <1>1, <1>3, <3>1, <3>2 DEF InsertPacket, IInv
  <2> QED
    BY <2>2, <2>3
<1>4. CASE ReadPlain
  <2>1. Ring(queue', read_pos', write_pos', written')
    BY <1>1, <1>4, PopKeepsRing DEF ReadPlain, PopFront
  <2> QED
    BY <1>1, <1>2, <1>4, <2>1 DEF ReadPlain, IInv
<1>5. ASSUME NEW ok, Store(Step(read_pos), written - 1, packet', ok),
             written # 0, packet' \in Packet, read_pos' = Step(read_pos)
      PROVE  Ring(queue', read_pos', write_pos', written')
  <2>1. Ring(queue, Step(read_pos), write_pos, written - 1)
    BY <1>1, <1>5, PopKeepsRing
  <2> QED
    BY <1>5, <2>1, StoreKeepsRing
<1>6. CASE ReadRepeat
  <2>1. packet' \in Packet
    <3>1. queue[read_pos].rep - 1 \in Int /\ queue[read_pos] \in Packet
      BY <1>2, RepeatAssumption DEF Packet
    <3> QED
      BY <1>6, <3>1, SetRepeatIsAPacket DEF ReadRepeat
  <2>2. Ring(queue', read_pos', write_pos', written')
    <3>1. CASE packet'.rep = 0
      BY <1>1, <1>6, <3>1, PopKeepsRing DEF ReadRepeat, PopFront
    <3>2. CASE packet'.rep # 0
      BY <1>5, <1>6, <2>1, <3>2 DEF ReadRepeat
    <3> QED
      BY <3>1, <3>2
  <2> QED
    BY <1>1, <1>6, <2>1, <2>2 DEF ReadRepeat, IInv
<1>7. CASE ReadEmergency
  <2>1. queue[read_pos].rep - 1 \in Int /\ queue[read_pos] \in Packet
    BY <1>2, RepeatAssumption DEF Packet
  <2>2. packet' \in Packet
    BY <1>7, <2>1, SetRepeatIsAPacket DEF ReadEmergency
  <2>3. Ring(queue', read_pos, write_pos, written)
    BY <1>1, <1>7, <2>1, CountDownKeepsRing DEF ReadEmergency
  <2>4. Ring(queue', read_pos', write_pos', written')
    <3>1. CASE packet'.rep = 0
      BY <1>7, <2>3, <3>1, PopKeepsRing DEF ReadEmergency
    <3>2. CASE packet'.rep # 0
      BY <1>7, <2>3, <3>2 DEF ReadEmergency
    <3> QED
      BY <3>1, <3>2
  <2> QED
    BY <1>1, <1>7, <2>2, <2>4 DEF ReadEmergency, IInv
<1>8. CASE ReadTemporal
  <2>1. packet' \in Packet
    BY <1>2, <1>8 DEF ReadTemporal
  <2>2. Ring(queue', read_pos', write_pos', written')
    BY <1>5, <1>8, <2>1 DEF ReadTemporal
  <2> QED
    BY <1>1, <1>8, <2>1, <2>2 DEF ReadTemporal, IInv
<1>9. CASE ReadEmpty
  BY <1>1, <1>9 DEF ReadEmpty, IInv
<1>10. CASE UNCHANGED vars
  BY <1>1, <1>10 DEF vars, IInv
<1> QED
  BY <1>3, <1>4, <1>6, <1>7, <1>8, <1>9, <1>10 DEF Next

(* The queue is a ring between any two calls.                                *)
LEMMA SpecIInv == Spec => []IInv
  BY InitIInv, NextIInv, PTL DEF Spec

-----------------------------------------------------------------------------
(* The cursors stay inside the array and the cells hold packets, whatever     *)
(* the size of the queue.                                                    *)
THEOREM QueueTypeOK == Spec => []TypeOK
<1>1. IInv => TypeOK
  BY DEF IInv, Ring, TypeOK
<1> QED
  BY <1>1, SpecIInv, PTL

(* The three numbers insertPacket and readPacket keep apart never contradict  *)
(* each other: the cell written next is the first one that is not in use.    *)
THEOREM QueueCursorsAgree == Spec => []CursorsAgree
<1>1. IInv => CursorsAgree
  BY DEF IInv, Ring, CursorsAgree
<1> QED
  BY <1>1, SpecIInv, PTL

(* A decoder function never has two orders waiting in one queue.              *)
THEOREM QueueNoRivals == Spec => []NoRivals
<1>1. IInv => NoRivals
  BY DEF IInv, Ring, NoRivals
<1> QED
  BY <1>1, SpecIInv, PTL

-----------------------------------------------------------------------------
(***************************************************************************)
(* The ring buffer implements the queue of PacketQueueSpec.                *)
(***************************************************************************)

(* The waiting packets of a ring, oldest first.                              *)
Waiting(q, rp, n) == [k \in 1..n |-> q[At(rp, k - 1)]]

-----------------------------------------------------------------------------
(* The cells in use, read off from the read cursor, are a sequence.          *)
LEMMA WaitingIsASequence ==
  ASSUME NEW q, NEW rp, NEW wp, NEW n, Ring(q, rp, wp, n)
  PROVE  /\ Waiting(q, rp, n) \in Seq(Packet)
         /\ Len(Waiting(q, rp, n)) = n
         /\ \A k \in 1..n : Waiting(q, rp, n)[k] = q[At(rp, k - 1)]
<1>1. n \in Nat /\ rp \in Cell /\ q \in [Cell -> Packet]
  BY SizeAssumption DEF Ring
<1>2. ASSUME NEW k \in 1..n PROVE q[At(rp, k - 1)] \in Packet
  <2>1. k - 1 \in 0..Size
    BY SizeAssumption DEF Ring
  <2>2. At(rp, k - 1) \in Cell
    BY <1>1, <2>1, AtIsACell
  <2> QED
    BY <1>1, <2>2
<1> QED
  BY <1>1, <1>2 DEF Waiting

(* Taking the oldest packet out is Tail.                                     *)
LEMMA PopIsTail ==
  ASSUME NEW q, NEW rp, NEW wp, NEW n, Ring(q, rp, wp, n), n # 0
  PROVE  /\ Waiting(q, rp, n) # << >>
         /\ Head(Waiting(q, rp, n)) = q[rp]
         /\ Waiting(q, Step(rp), n - 1) = Tail(Waiting(q, rp, n))
<1>1. n \in Nat \ {0} /\ rp \in Cell /\ Size \in Nat /\ n <= Size
  BY SizeAssumption DEF Ring
<1>2. /\ Waiting(q, rp, n) \in Seq(Packet)
      /\ Len(Waiting(q, rp, n)) = n
      /\ \A k \in 1..n : Waiting(q, rp, n)[k] = q[At(rp, k - 1)]
  BY WaitingIsASequence
<1>3. At(rp, 0) = rp /\ \A k \in 0..Size - 1 : At(Step(rp), k) = At(rp, k + 1)
  BY <1>1, AtStep
<1>4. Waiting(q, rp, n) # << >> /\ Head(Waiting(q, rp, n)) = q[rp]
  BY <1>1, <1>2, <1>3
<1>5. /\ Tail(Waiting(q, rp, n)) \in Seq(Packet)
      /\ Len(Tail(Waiting(q, rp, n))) = n - 1
      /\ \A k \in 1..n - 1 : Tail(Waiting(q, rp, n))[k] = q[At(rp, k)]
  BY <1>1, <1>2, <1>4
<1>6. Ring(q, Step(rp), wp, n - 1)
  BY PopKeepsRing
<1>7. /\ Waiting(q, Step(rp), n - 1) \in Seq(Packet)
      /\ Len(Waiting(q, Step(rp), n - 1)) = n - 1
      /\ \A k \in 1..n - 1 : Waiting(q, Step(rp), n - 1)[k] = q[At(Step(rp), k - 1)]
  BY <1>6, WaitingIsASequence
<1>8. ASSUME NEW k \in 1..n - 1 PROVE At(Step(rp), k - 1) = At(rp, k)
  BY <1>1, <1>3
<1>9. Waiting(q, Step(rp), n - 1) = Tail(Waiting(q, rp, n))
  BY <1>5, <1>7, <1>8, SeqEqual
<1> QED
  BY <1>4, <1>9

Updated(f, i, p) == [f EXCEPT ![i] = p]

(* Counting the head down in place is an update of the first element.        *)
LEMMA CountDownIsUpdate ==
  ASSUME NEW q, NEW rp, NEW wp, NEW n, Ring(q, rp, wp, n), n # 0, NEW p \in Packet
  PROVE  Waiting(Updated(q, rp, p), rp, n) = Updated(Waiting(q, rp, n), 1, p)
<1> DEFINE t == Updated(q, rp, p)
<1>1. n \in Nat \ {0} /\ rp \in Cell /\ Size \in Nat /\ n <= Size /\ q \in [Cell -> Packet]
  BY SizeAssumption DEF Ring
<1>2. ASSUME NEW k \in 1..n
      PROVE  t[At(rp, k - 1)] = IF k = 1 THEN p ELSE q[At(rp, k - 1)]
  <2>1. k - 1 \in 0..Size - 1 /\ 0 \in 0..Size - 1 /\ k - 1 \in 0..Size
    BY <1>1
  <2>2. At(rp, k - 1) \in Cell /\ At(rp, 0) = rp
    BY <1>1, <2>1, AtIsACell, AtStep
  <2>3. At(rp, k - 1) = rp => k - 1 = 0
    BY <1>1, <2>1, <2>2, AtInjective
  <2> QED
    BY <1>1, <2>2, <2>3 DEF Updated
<1> QED
  BY <1>1, <1>2 DEF Waiting, Updated

(* insertPacket is Insert, and it accepts what Insert accepts.               *)
LEMMA StoreIsInsert ==
  ASSUME NEW rp, NEW n, Ring(queue, rp, write_pos, n), NEW p \in Packet,
         NEW ok \in BOOLEAN, Store(rp, n, p, ok)
  PROVE  /\ Waiting(queue', rp, written') = Fifo!Insert(Waiting(queue, rp, n), Size, p)
         /\ ok = Fifo!Accepts(Waiting(queue, rp, n), Size)
<1> DEFINE s == Waiting(queue, rp, n)
           hits == Fifo!Hits(s, p)
<1>1. /\ n \in Nat /\ Size \in Nat /\ n <= Size /\ n \in 0..Size /\ rp \in Cell
      /\ queue \in [Cell -> Packet] /\ write_pos = At(rp, n)
      /\ \A k \in 1..n : k - 1 \in 0..Size - 1
  BY SizeAssumption DEF Ring
<1>2. /\ s \in Seq(Packet)
      /\ Len(s) = n
      /\ \A k \in 1..n : s[k] = queue[At(rp, k - 1)]
  BY WaitingIsASequence
<1>3. Ring(queue', rp, write_pos', written')
  BY StoreKeepsRing
<1>4. /\ Waiting(queue', rp, written') \in Seq(Packet)
      /\ Len(Waiting(queue', rp, written')) = written'
      /\ \A k \in 1..written' : Waiting(queue', rp, written')[k] = queue'[At(rp, k - 1)]
  BY <1>3, WaitingIsASequence
<1>5. \A c, d : Fifo!SameKey(c, d) <=> SameKey(c, d)
  BY DEF Fifo!SameKey, SameKey
<1>6. hits = {k \in 1..n : SameKey(queue[At(rp, k - 1)], p)}
  BY <1>2, <1>5 DEF Fifo!Hits
<1>7. Fifo!Accepts(s, Size) <=> n < Size
  BY <1>2 DEF Fifo!Accepts
<1> HIDE DEF s, hits
<1>8. CASE OverwriteInPlace(rp, n, p) /\ ok
  <2> DEFINE found == ScanHits(rp, n, p)
             h == FirstHit(found)
  <2>1. found # {} /\ queue' = [queue EXCEPT ![At(rp, h)] = p] /\ written' = n
    BY <1>8 DEF OverwriteInPlace
  <2>2. n < Size
    <3>1. At(rp, Size) = rp
      BY <1>1, AtStep
    <3>2. n # Size
      BY <2>1, <3>1 DEF ScanHits, Scanned
    <3> QED
      BY <1>1, <3>2
  <2>3. found = {k \in 0..n - 1 : SameKey(queue[At(rp, k)], p)}
    BY <1>1, <2>2, ScanIsComplete DEF ScanHits
  <2>4. h \in found /\ \A j \in found : h <= j
    <3>1. found \subseteq Nat
      BY <1>1, <2>3
    <3>2. \E i \in found : \A j \in found : i <= j
      BY <2>1, <3>1, LeastElement
    <3> QED
      BY <3>2 DEF FirstHit
  <2> HIDE DEF found, h
  <2>5. h \in 0..n - 1 /\ h \in Nat /\ h + 1 \in 1..n
    BY <1>1, <2>3, <2>4
  <2>6. h + 1 \in hits /\ \A j \in hits : h + 1 <= j
    <3>1. (h + 1) - 1 = h
      BY <2>5
    <3>2. h + 1 \in hits
      BY <1>6, <2>3, <2>4, <2>5, <3>1
    <3>3. ASSUME NEW j \in hits PROVE h + 1 <= j
      <4>1. j \in 1..n /\ SameKey(queue[At(rp, j - 1)], p) /\ j - 1 \in 0..n - 1
        BY <1>1, <1>6
      <4>2. h <= j - 1
        BY <2>3, <2>4, <4>1
      <4> QED
        BY <2>5, <4>1, <4>2
    <3> QED
      BY <3>2, <3>3
  <2>7. Fifo!Least(hits) = h + 1
    <3>1. Fifo!Least(hits) \in hits /\ \A j \in hits : Fifo!Least(hits) <= j
      BY <2>6 DEF Fifo!Least
    <3>2. Fifo!Least(hits) \in Nat
      BY <1>1, <1>6, <3>1
    <3>3. Fifo!Least(hits) <= h + 1 /\ h + 1 <= Fifo!Least(hits)
      BY <2>6, <3>1
    <3> DEFINE l == Fifo!Least(hits)
    <3> HIDE DEF l
    <3>4. l \in Nat /\ l <= h + 1 /\ h + 1 <= l
      BY <3>2, <3>3 DEF l
    <3>5. l = h + 1
      BY <2>5, <3>4
    <3> QED
      BY <3>5 DEF l
  <2>8. Fifo!Insert(s, Size, p) = [s EXCEPT ![h + 1] = p]
    BY <1>7, <2>2, <2>6, <2>7 DEF Fifo!Insert, hits
  <2>9. /\ [s EXCEPT ![h + 1] = p] \in Seq(Packet)
        /\ Len([s EXCEPT ![h + 1] = p]) = n
        /\ \A k \in 1..n : [s EXCEPT ![h + 1] = p][k] = IF k = h + 1 THEN p ELSE s[k]
    BY <1>2, <2>5, ExceptSeq
  <2>10. ASSUME NEW k \in 1..n
         PROVE  queue'[At(rp, k - 1)] = IF k = h + 1 THEN p ELSE queue[At(rp, k - 1)]
    <3>1. k - 1 \in 0..Size - 1 /\ h \in 0..Size - 1 /\ k - 1 \in 0..Size /\ h \in 0..Size
      BY <1>1, <2>5
    <3>2. At(rp, k - 1) \in Cell /\ At(rp, h) \in Cell
      BY <1>1, <3>1, AtIsACell
    <3>3. At(rp, k - 1) = At(rp, h) <=> k = h + 1
      <4>1. At(rp, k - 1) = At(rp, h) => k - 1 = h
        BY <1>1, <3>1, AtInjective
      <4>2. k = h + 1 <=> k - 1 = h
        BY <2>5
      <4> QED
        BY <4>1, <4>2
    <3> QED
      BY <1>1, <2>1, <3>2, <3>3
  <2>11. ASSUME NEW k \in 1..n
         PROVE  Waiting(queue', rp, written')[k] = [s EXCEPT ![h + 1] = p][k]
    <3>1. Waiting(queue', rp, written')[k] = queue'[At(rp, k - 1)]
      BY <1>4, <2>1
    <3>2. [s EXCEPT ![h + 1] = p][k] = IF k = h + 1 THEN p ELSE s[k]
      BY <2>9
    <3>3. s[k] = queue[At(rp, k - 1)]
      BY <1>2
    <3>4. queue'[At(rp, k - 1)] = IF k = h + 1 THEN p ELSE queue[At(rp, k - 1)]
      BY <2>10
    <3> QED
      BY <3>1, <3>2, <3>3, <3>4
  <2>12. Waiting(queue', rp, written') = [s EXCEPT ![h + 1] = p]
    <3> DEFINE u == Waiting(queue', rp, written')
               t == [s EXCEPT ![h + 1] = p]
    <3>1. u \in Seq(Packet) /\ t \in Seq(Packet) /\ Len(u) = n /\ Len(t) = n
          /\ \A k \in 1..n : u[k] = t[k]
      BY <1>4, <2>1, <2>9, <2>11
    <3> HIDE DEF u, t
    <3>2. u = t
      BY <3>1, SeqEqual
    <3> QED
      BY <3>2 DEF u, t
  <2> QED
    BY <1>7, <1>8, <2>2, <2>8, <2>12 DEF s
<1>9. CASE AppendAtEnd(rp, n, p) /\ ok
  <2>1. /\ n < Size /\ written' = n + 1 /\ ScanHits(rp, n, p) = {}
        /\ queue' = [queue EXCEPT ![At(rp, n)] = p]
    BY <1>1, <1>9 DEF AppendAtEnd
  <2>2. hits = {}
    <3> SUFFICES ASSUME NEW k \in hits PROVE FALSE
      OBVIOUS
    <3>1. k \in 1..n /\ SameKey(queue[At(rp, k - 1)], p) /\ k - 1 \in 0..n - 1
      BY <1>1, <1>6
    <3>2. k - 1 \in ScanHits(rp, n, p)
      BY <1>1, <2>1, <3>1, ScanIsComplete DEF ScanHits
    <3> QED
      BY <2>1, <3>2
  <2>3. Fifo!Insert(s, Size, p) = Append(s, p)
    BY <1>7, <2>1, <2>2 DEF Fifo!Insert, hits
  <2>4. /\ Append(s, p) \in Seq(Packet) /\ Len(Append(s, p)) = n + 1
        /\ \A k \in 1..n + 1 : Append(s, p)[k] = IF k = n + 1 THEN p ELSE s[k]
    BY <1>1, <1>2
  <2>5. ASSUME NEW k \in 1..n + 1
        PROVE  queue'[At(rp, k - 1)] = IF k = n + 1 THEN p ELSE queue[At(rp, k - 1)]
    <3>1. k - 1 \in 0..Size - 1 /\ n \in 0..Size - 1 /\ k - 1 \in 0..Size
      BY <1>1, <2>1
    <3>2. At(rp, k - 1) \in Cell /\ At(rp, n) \in Cell
      BY <1>1, <3>1, AtIsACell
    <3>3. At(rp, k - 1) = At(rp, n) <=> k = n + 1
      <4>1. At(rp, k - 1) = At(rp, n) => k - 1 = n
        BY <1>1, <3>1, AtInjective
      <4>2. k = n + 1 <=> k - 1 = n
        BY <1>1
      <4> QED
        BY <4>1, <4>2
    <3> QED
      BY <1>1, <2>1, <3>2, <3>3
  <2>6. \A k \in 1..n + 1 : k # n + 1 => k \in 1..n
    BY <1>1
  <2>7. ASSUME NEW k \in 1..n + 1
        PROVE  Waiting(queue', rp, written')[k] = Append(s, p)[k]
    <3>1. Waiting(queue', rp, written')[k] = queue'[At(rp, k - 1)]
      BY <1>4, <2>1
    <3>2. Append(s, p)[k] = IF k = n + 1 THEN p ELSE s[k]
      BY <2>4
    <3>3. k # n + 1 => s[k] = queue[At(rp, k - 1)]
      BY <1>2, <2>6
    <3>4. queue'[At(rp, k - 1)] = IF k = n + 1 THEN p ELSE queue[At(rp, k - 1)]
      BY <2>5
    <3> QED
      BY <3>1, <3>2, <3>3, <3>4
  <2>8. Waiting(queue', rp, written') = Append(s, p)
    <3> DEFINE u == Waiting(queue', rp, written')
               t == Append(s, p)
    <3>1. u \in Seq(Packet) /\ t \in Seq(Packet) /\ Len(u) = n + 1 /\ Len(t) = n + 1
          /\ \A k \in 1..n + 1 : u[k] = t[k]
      BY <1>4, <2>1, <2>4, <2>7
    <3> HIDE DEF u, t
    <3>2. u = t
      BY <3>1, SeqEqual
    <3> QED
      BY <3>2 DEF u, t
  <2> QED
    BY <1>7, <1>9, <2>1, <2>3, <2>8 DEF s
<1>10. CASE RejectFull(rp, n, p) /\ ~ok
  <2>1. written' = n /\ n = Size /\ queue' = queue
    BY <1>10 DEF RejectFull
  <2>2. ~Fifo!Accepts(s, Size)
    BY <1>1, <1>7, <2>1
  <2>3. Fifo!Insert(s, Size, p) = s
    BY <2>2 DEF Fifo!Insert
  <2>4. Fifo!Accepts(s, Size) = FALSE
    BY <2>2 DEF Fifo!Accepts
  <2> QED
    BY <1>10, <2>1, <2>3, <2>4 DEF s
<1> QED
  BY <1>8, <1>9, <1>10 DEF Store

-----------------------------------------------------------------------------
(* setup() leaves an empty queue behind.                                     *)
LEMMA InitIsFifoInit == Init => Fifo!Init
<1> SUFFICES ASSUME Init PROVE Fifo!Init
  OBVIOUS
<1>1. Classes = Fifo!Classes
  BY DEF Classes, Fifo!Classes
<1>2. IInv
  BY InitIInv
<1>3. Ring(queue, read_pos, write_pos, written) /\ written = 0
  BY <1>2 DEF IInv, Init
<1>4. Contents = << >>
  <2>1. Contents = Waiting(queue, read_pos, written)
    BY DEF Contents, Waiting
  <2>2. Contents \in Seq(Packet) /\ Len(Contents) = 0
    BY <1>3, <2>1, WaitingIsASequence
  <2> QED
    BY <2>2, EmptySeq
<1> QED
  BY <1>1, <1>2, <1>4 DEF Init, IInv, Fifo!Init

(* Every call of the ring buffer is the same call of the abstract queue.      *)
LEMMA StepIsFifoStep == IInv /\ [Next]_vars => [Fifo!Next]_(Fifo!vars)
<1> SUFFICES ASSUME IInv, [Next]_vars PROVE [Fifo!Next]_(Fifo!vars)
  OBVIOUS
<1> DEFINE W == Waiting(queue, read_pos, written)
           V == Waiting(queue', read_pos', written')
<1>1. /\ class \in Classes
      /\ Ring(queue, read_pos, write_pos, written)
      /\ queue \in [Cell -> Packet] /\ read_pos \in Cell /\ written \in Nat
  BY SizeAssumption DEF IInv, Ring
<1>2. Contents = W /\ Contents' = V
  BY DEF Contents, Waiting
<1>3. W \in Seq(Packet) /\ Len(W) = written
  BY <1>1, WaitingIsASequence
<1>4. \A p, r : Fifo!SetRepeat(p, r) = SetRepeat(p, r)
  BY DEF Fifo!SetRepeat, SetRepeat
<1>5. written # 0 => /\ W # << >>
                     /\ Head(W) = queue[read_pos]
                     /\ Waiting(queue, Step(read_pos), written - 1) = Tail(W)
  BY <1>1, PopIsTail
<1>6. queue[read_pos] \in Packet /\ queue[read_pos].rep - 1 \in Int
  BY <1>1, RepeatAssumption DEF Packet
<1>7. ASSUME NEW ok \in BOOLEAN, Store(Step(read_pos), written - 1, packet', ok),
             written # 0, packet' \in Packet, read_pos' = Step(read_pos)
      PROVE  V = Fifo!Insert(Tail(W), Size, packet')
  <2>1. Ring(queue, Step(read_pos), write_pos, written - 1)
    BY <1>1, <1>7, PopKeepsRing
  <2>2. Waiting(queue', Step(read_pos), written')
          = Fifo!Insert(Waiting(queue, Step(read_pos), written - 1), Size, packet')
    BY <1>7, <2>1, StoreIsInsert
  <2> QED
    BY <1>5, <1>7, <2>2
<1> HIDE DEF W, V
<1>8. ASSUME NEW p \in Request, InsertPacket(p) PROVE Fifo!InsertPacket(p)
  <2>1. p \in Packet
    BY DEF Request
  <2>2. CASE NothingToRepeat(p)
    <3>1. V = W
      BY <1>8, <2>2 DEF InsertPacket, V, W
    <3> QED
      BY <1>2, <1>8, <2>2, <3>1 DEF InsertPacket, NothingToRepeat, Fifo!InsertPacket,
        Fifo!RepeatInsert, Fifo!RepeatAccepts
  <2>3. CASE ~NothingToRepeat(p)
    <3>1. Store(read_pos, written, p, result') /\ result' \in BOOLEAN
      BY <1>8, <2>3 DEF InsertPacket
    <3>2. V = Fifo!Insert(W, Size, p) /\ result' = Fifo!Accepts(W, Size)
      BY <1>1, <1>8, <2>1, <3>1, StoreIsInsert DEF InsertPacket, V, W
    <3>3. CASE class = "DCCRepeatQueue"
      <4>1. p.rep # 0
        BY <2>3, <3>3 DEF NothingToRepeat
      <4> QED
        BY <1>2, <1>8, <3>2, <3>3, <4>1 DEF InsertPacket, Fifo!InsertPacket,
          Fifo!RepeatInsert, Fifo!RepeatAccepts, Fifo!Accepts
    <3>4. CASE class # "DCCRepeatQueue"
      BY <1>2, <1>8, <3>2, <3>4 DEF InsertPacket, Fifo!InsertPacket
    <3> QED
      BY <3>3, <3>4
  <2> QED
    BY <2>2, <2>3
<1>9. CASE ReadPlain
  <2>1. V = Tail(W) /\ packet' = Head(W) /\ W # << >>
    BY <1>5, <1>9 DEF ReadPlain, PopFront, V
  <2>2. Fifo!ReadOf(W) = Fifo!FifoRead(W)
    BY <1>9 DEF ReadPlain, Fifo!ReadOf
  <2> QED
    BY <1>2, <1>9, <2>1, <2>2 DEF ReadPlain, Fifo!ReadPacket, Fifo!FifoRead, Fifo!Next
<1>10. CASE ReadRepeat
  <2>1. Fifo!ReadOf(W) = Fifo!RepeatRead(W, Size)
    BY <1>10 DEF ReadRepeat, Fifo!ReadOf
  <2>2. W # << >> /\ Head(W) = queue[read_pos] /\ written # 0
    BY <1>5, <1>10 DEF ReadRepeat
  <2>3. packet' \in Packet
    BY <1>6, <1>10, SetRepeatIsAPacket DEF ReadRepeat
  <2>4. V = Fifo!RepeatRead(W, Size).rest /\ packet' = Fifo!RepeatRead(W, Size).packet
    <3>1. CASE queue[read_pos].rep = 0
      <4>1. packet' = queue[read_pos] /\ PopFront
        BY <1>10, <3>1 DEF ReadRepeat
      <4>2. V = Tail(W)
        BY <1>5, <2>2, <4>1 DEF PopFront, V
      <4> QED
        BY <2>2, <3>1, <4>1, <4>2 DEF Fifo!RepeatRead, Fifo!FifoRead
    <3>2. CASE queue[read_pos].rep # 0
      <4>1. packet' = SetRepeat(queue[read_pos], queue[read_pos].rep - 1)
        BY <1>10, <3>2 DEF ReadRepeat
      <4>2. Fifo!RepeatRead(W, Size)
              = [packet |-> packet', rest |-> Fifo!RepeatInsert(Tail(W), Size, packet')]
        BY <1>4, <2>2, <3>2, <4>1 DEF Fifo!RepeatRead
      <4>3. V = Fifo!RepeatInsert(Tail(W), Size, packet')
        <5>1. CASE packet'.rep = 0
          <6>1. V = Tail(W)
            BY <1>5, <1>10, <5>1 DEF ReadRepeat, PopFront, V
          <6> QED
            BY <5>1, <6>1 DEF Fifo!RepeatInsert
        <5>2. CASE packet'.rep # 0
          <6>1. V = Fifo!Insert(Tail(W), Size, packet')
            BY <1>7, <1>10, <2>3, <5>2 DEF ReadRepeat
          <6> QED
            BY <5>2, <6>1 DEF Fifo!RepeatInsert
        <5> QED
          BY <5>1, <5>2
      <4> QED
        BY <4>2, <4>3
    <3> QED
      BY <3>1, <3>2
  <2> QED
    BY <1>2, <1>10, <2>1, <2>2, <2>4 DEF ReadRepeat, Fifo!ReadPacket, Fifo!Next
<1>11. CASE ReadEmergency
  <2>1. Fifo!ReadOf(W) = Fifo!EmergencyRead(W)
    BY <1>11 DEF ReadEmergency, Fifo!ReadOf
  <2>2. W # << >> /\ Head(W) = queue[read_pos] /\ written # 0
    BY <1>5, <1>11 DEF ReadEmergency
  <2>3. packet' = SetRepeat(queue[read_pos], queue[read_pos].rep - 1)
        /\ queue' = [queue EXCEPT ![read_pos] = packet']
    BY <1>11 DEF ReadEmergency
  <2>4. packet' \in Packet
    BY <1>6, <2>3, SetRepeatIsAPacket
  <2>5. Ring(queue', read_pos, write_pos, written)
    BY <1>1, <1>6, <2>2, <2>3, CountDownKeepsRing
  <2>6. Waiting(queue', read_pos, written) = [W EXCEPT ![1] = packet']
    <3>1. Waiting(Updated(queue, read_pos, packet'), read_pos, written)
            = Updated(Waiting(queue, read_pos, written), 1, packet')
      BY <1>1, <2>2, <2>4, CountDownIsUpdate
    <3>2. queue' = Updated(queue, read_pos, packet')
      BY <2>3 DEF Updated
    <3> QED
      BY <3>1, <3>2 DEF W, Updated
  <2>7. V = IF packet'.rep = 0 THEN Tail(W) ELSE [W EXCEPT ![1] = packet']
    <3>1. CASE packet'.rep = 0
      <4>1. V = Waiting(queue', Step(read_pos), written - 1)
        BY <1>11, <3>1 DEF ReadEmergency, V
      <4>2. V = Tail([W EXCEPT ![1] = packet'])
        <5>1. Waiting(queue', Step(read_pos), written - 1)
                = Tail(Waiting(queue', read_pos, written))
          BY <2>2, <2>5, PopIsTail
        <5> QED
          BY <2>6, <4>1, <5>1
      <4>3. Tail([W EXCEPT ![1] = packet']) = Tail(W)
        BY <1>3, <2>2, <2>4
      <4> QED
        BY <3>1, <4>2, <4>3
    <3>2. CASE packet'.rep # 0
      BY <1>11, <2>6, <3>2 DEF ReadEmergency, V
    <3> QED
      BY <3>1, <3>2
  <2>8. Fifo!EmergencyRead(W)
          = [packet |-> packet',
             rest |-> IF packet'.rep = 0 THEN Tail(W) ELSE [W EXCEPT ![1] = packet']]
    BY <1>4, <2>2, <2>3 DEF Fifo!EmergencyRead
  <2> QED
    BY <1>2, <1>11, <2>1, <2>2, <2>7, <2>8 DEF ReadEmergency, Fifo!ReadPacket, Fifo!Next
<1>12. CASE ReadTemporal
  <2>1. Fifo!ReadOf(W) = Fifo!TemporalRead(W, Size)
    BY <1>12 DEF ReadTemporal, Fifo!ReadOf
  <2>2. W # << >> /\ Head(W) = queue[read_pos] /\ packet' = queue[read_pos]
    BY <1>5, <1>12 DEF ReadTemporal
  <2>3. V = Fifo!Insert(Tail(W), Size, packet')
    BY <1>6, <1>7, <1>12, <2>2 DEF ReadTemporal
  <2> QED
    BY <1>2, <1>12, <2>1, <2>2, <2>3 DEF ReadTemporal, Fifo!TemporalRead, Fifo!ReadPacket, Fifo!Next
<1>13. CASE ReadEmpty
  <2>1. W = << >>
    BY <1>3, <1>13, EmptySeq DEF ReadEmpty
  <2>2. V = W
    BY <1>13 DEF ReadEmpty, V, W
  <2> QED
    BY <1>2, <1>13, <2>1, <2>2 DEF ReadEmpty, Fifo!ReadNothing, Fifo!Next
<1>14. CASE UNCHANGED vars
  BY <1>2, <1>14 DEF vars, Fifo!vars, Contents
<1>15. ASSUME NEW p \in Request, InsertPacket(p) PROVE Fifo!Next
  BY <1>8, <1>15 DEF Request, Fifo!Next
<1> QED
  BY <1>9, <1>10, <1>11, <1>12, <1>13, <1>14, <1>15 DEF Next

(* Whatever its size, the ring buffer implements the abstract queue: its      *)
(* cursor arithmetic loses, doubles, reorders and invents nothing.           *)
THEOREM RingImplementsFifo == Spec => ImplementsFifo
  BY InitIsFifoInit, StepIsFifoStep, SpecIInv, PTL DEF Spec, ImplementsFifo, Fifo!Spec

=============================================================================
