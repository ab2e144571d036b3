---------------------------- MODULE DecoderProofs ----------------------------
(***************************************************************************)
(* What a decoder understands: of the library's packets, for every address,*)
(* CV and value that the formats can carry, and of the message that the    *)
(* throttle sends while loop() writes into it.                             *)
(***************************************************************************)
EXTENDS DCCPacketBytes, SimpleDCC, SequenceTheorems, TLAPS

Weights == {1, 2, 4, 8, 16, 32, 64, 128}

-----------------------------------------------------------------------------
(***************************************************************************)
(* Bytes and their bits.                                                   *)
(***************************************************************************)

LEMMA BitType ==
  ASSUME NEW a \in Nat, NEW w \in Weights
  PROVE  Bit(a, w) \in {0, 1} /\ Bit(0, w) = 0
BY SMT DEF Bit, Weights

(* A byte is put together of its bits, and has them.                        *)
Together(d1, d2, d4, d8, d16, d32, d64, d128) ==
  d1 + 2 * d2 + 4 * d4 + 8 * d8 + 16 * d16 + 32 * d32 + 64 * d64 + 128 * d128

LEMMA EightBits ==
  ASSUME NEW d1 \in {0, 1}, NEW d2 \in {0, 1}, NEW d4 \in {0, 1}, NEW d8 \in {0, 1},
         NEW d16 \in {0, 1}, NEW d32 \in {0, 1}, NEW d64 \in {0, 1}, NEW d128 \in {0, 1},
         NEW b, b = Together(d1, d2, d4, d8, d16, d32, d64, d128)
  PROVE  /\ b \in Bytes
         /\ Bit(b, 1) = d1 /\ Bit(b, 2) = d2 /\ Bit(b, 4) = d4 /\ Bit(b, 8) = d8
         /\ Bit(b, 16) = d16 /\ Bit(b, 32) = d32 /\ Bit(b, 64) = d64 /\ Bit(b, 128) = d128
BY SMT DEF Together, Bit, Bytes

LEMMA BitsOfByte ==
  ASSUME NEW D \in [Weights -> {0, 1}],
         NEW b, b = Together(D[1], D[2], D[4], D[8], D[16], D[32], D[64], D[128])
  PROVE  b \in Bytes /\ \A w \in Weights : Bit(b, w) = D[w]
<1>1. /\ D[1] \in {0, 1} /\ D[2] \in {0, 1} /\ D[4] \in {0, 1} /\ D[8] \in {0, 1}
      /\ D[16] \in {0, 1} /\ D[32] \in {0, 1} /\ D[64] \in {0, 1} /\ D[128] \in {0, 1}
  BY DEF Weights
<1>2. /\ b \in Bytes
      /\ Bit(b, 1) = D[1] /\ Bit(b, 2) = D[2] /\ Bit(b, 4) = D[4] /\ Bit(b, 8) = D[8]
      /\ Bit(b, 16) = D[16] /\ Bit(b, 32) = D[32] /\ Bit(b, 64) = D[64] /\ Bit(b, 128) = D[128]
  BY <1>1, EightBits
<1> QED
  BY <1>2 DEF Weights

(* Bits of which one more is set.                                           *)
LEMMA OneMoreBit ==
  ASSUME NEW B \in [1..6 -> {0, 1}], NEW C \in [1..6 -> {0, 1}],
         NEW n \in 1..6, NEW e \in {0, 1}, B[n] = 0,
         \A k \in 1..6 : C[k] = IF k = n THEN e ELSE B[k]
  PROVE  C[1] + C[2] + C[3] + C[4] + C[5] + C[6] = B[1] + B[2] + B[3] + B[4] + B[5] + B[6] + e
OBVIOUS

(* A remainder by a power of two is the sum of the bits below it.           *)
LEMMA LowBits ==
  ASSUME NEW a \in Nat
  PROVE  /\ a % 4 = Bit(a, 1) + 2 * Bit(a, 2)
         /\ a % 8 = (a % 4) + 4 * Bit(a, 4)
         /\ a % 16 = (a % 8) + 8 * Bit(a, 8)
         /\ a % 32 = (a % 16) + 16 * Bit(a, 16)
         /\ a % 64 = (a % 32) + 32 * Bit(a, 32)
         /\ a % 128 = (a % 64) + 64 * Bit(a, 64)
BY SMT DEF Bit

(* What a mask leaves of a number.                                          *)
LEMMA Masks ==
  ASSUME NEW a \in Nat
  PROVE  /\ And(a, 3) = a % 4
         /\ And(a, 15) = a % 16
         /\ And(a, 31) = a % 32
         /\ And(a, 63) = a % 64
         /\ And(a, 127) = a % 128
         /\ And(a, 128) = 128 * Bit(a, 128)
         /\ And(a, 112) = 16 * Bit(a, 16) + 32 * Bit(a, 32) + 64 * Bit(a, 64)
<1> DEFINE d(w) == Bit(a, w)
<1>1. \A w \in Weights : d(w) \in {0, 1}
  BY BitType
<1>2. /\ d(1) \in {0, 1} /\ d(2) \in {0, 1} /\ d(4) \in {0, 1} /\ d(8) \in {0, 1}
      /\ d(16) \in {0, 1} /\ d(32) \in {0, 1} /\ d(64) \in {0, 1} /\ d(128) \in {0, 1}
  BY <1>1 DEF Weights
<1> HIDE DEF d
<1>3. /\ And(a, 3) = d(1) + 2 * d(2)
      /\ And(a, 15) = d(1) + 2 * d(2) + 4 * d(4) + 8 * d(8)
      /\ And(a, 31) = d(1) + 2 * d(2) + 4 * d(4) + 8 * d(8) + 16 * d(16)
      /\ And(a, 63) = d(1) + 2 * d(2) + 4 * d(4) + 8 * d(8) + 16 * d(16) + 32 * d(32)
      /\ And(a, 127) = d(1) + 2 * d(2) + 4 * d(4) + 8 * d(8) + 16 * d(16) + 32 * d(32) + 64 * d(64)
      /\ And(a, 128) = 128 * d(128)
      /\ And(a, 112) = 16 * d(16) + 32 * d(32) + 64 * d(64)
  BY <1>2, SMTT(30) DEF And, Byte, Bit, d
<1> QED
  BY <1>2, <1>3, LowBits DEF d

(* The bytes the library joins have no bit in common.                       *)
LEMMA Joins ==
  /\ \A x \in 0..31 : Or(64, x) = 64 + x
  /\ \A x \in 0..31 : Or(64 + x, 32) = 96 + x /\ Or(64 + x, 0) = 64 + x
  /\ \A x \in 0..31 : Or(128, x) = 128 + x
  /\ \A x \in 0..15 : Or(176, x) = 176 + x
  /\ \A x \in 0..15 : Or(160, x) = 160 + x
  /\ \A x \in 0..63 : Or(128, x) = 128 + x
  /\ \A x \in 0..63 : Or(x, 192) = x + 192
  /\ \A x \in 0..7 : Or(224, x) = 224 + x
  /\ \A x \in 0..7 : Or(224 + x, 8) = 232 + x /\ Or(224 + x, 0) = 224 + x
  /\ \A x \in 0..3 : /\ Or(x, 124) = x + 124 /\ Or(x, 116) = x + 116 /\ Or(x, 120) = x + 120
                     /\ Or(x, 236) = x + 236 /\ Or(x, 232) = x + 232 /\ Or(x, 228) = x + 228
  /\ \A x \in 0..3, y \in 0..1 : Or(x * 2, y) = x * 2 + y
  /\ \A x \in 0..7 : Or(x, 8) = x + 8 /\ Or(x, 0) = x
  /\ \A x \in 0..7, y \in 0..15 : Or(16 * x, y) = 16 * x + y
  /\ \A x \in 0..127 : Or(128, x) = 128 + x /\ Or(0, x) = x
<1>1. \A x \in 0..31 : Or(64, x) = 64 + x
  BY SMT DEF Or, Byte, Bit
<1>2. \A x \in 0..31 : Or(64 + x, 32) = 96 + x /\ Or(64 + x, 0) = 64 + x
  BY SMT DEF Or, Byte, Bit
<1>3. \A x \in 0..127 : Or(128, x) = 128 + x /\ Or(0, x) = x
  BY SMT DEF Or, Byte, Bit
<1>4. \A x \in 0..15 : Or(176, x) = 176 + x /\ Or(160, x) = 160 + x
  BY SMT DEF Or, Byte, Bit
<1>5. \A x \in 0..63 : Or(x, 192) = x + 192
  BY SMT DEF Or, Byte, Bit
<1>6. \A x \in 0..7 : /\ Or(224, x) = 224 + x
                      /\ Or(224 + x, 8) = 232 + x /\ Or(224 + x, 0) = 224 + x
                      /\ Or(x, 8) = x + 8 /\ Or(x, 0) = x
  BY SMT DEF Or, Byte, Bit
<1>7. \A x \in 0..3 : /\ Or(x, 124) = x + 124 /\ Or(x, 116) = x + 116 /\ Or(x, 120) = x + 120
                      /\ Or(x, 236) = x + 236 /\ Or(x, 232) = x + 232 /\ Or(x, 228) = x + 228
  BY SMT DEF Or, Byte, Bit
<1>8. \A x \in 0..3, y \in 0..1 : Or(x * 2, y) = x * 2 + y
  BY SMT DEF Or, Byte, Bit
<1>9. \A x \in 0..7, y \in 0..15 : Or(16 * x, y) = 16 * x + y
  BY SMTT(30) DEF Or, Byte, Bit
<1> QED
  BY <1>1, <1>2, <1>3, <1>4, <1>5, <1>6, <1>7, <1>8, <1>9

(* The check byte is a byte, and with it the bytes cancel.                  *)
LEMMA ClosedCancels ==
  ASSUME NEW b \in Seq(Bytes), 1 <= Len(b), Len(b) <= 5
  PROVE  /\ XOR(b) \in Bytes
         /\ XOR(Closed(b)) = 0
<1> DEFINE x == XOR(b)
           c == Closed(b)
           D == [w \in Weights |-> Ones(b, w) % 2]
<1>0. Bytes \subseteq Nat /\ 0 \in Bytes
  BY DEF Bytes
<1>1. \A k \in 1..6 : At(b, k) \in Nat
  <2> SUFFICES ASSUME NEW k \in 1..6
               PROVE  At(b, k) \in Bytes
    BY <1>0
  <2>1. CASE k <= Len(b)
    <3>1. b[k] \in Bytes
      BY <2>1
    <3> QED
      BY <2>1, <3>1 DEF At
  <2>2. CASE ~(k <= Len(b))
    BY <1>0, <2>2 DEF At
  <2> QED
    BY <2>1, <2>2
<1>2. \A w \in Weights : Ones(b, w) \in 0..6
  <2> SUFFICES ASSUME NEW w \in Weights
               PROVE  Ones(b, w) \in 0..6
    OBVIOUS
  <2>1. \A k \in 1..6 : Bit(At(b, k), w) \in {0, 1}
    BY <1>1, BitType
  <2> QED
    BY <2>1 DEF Ones
<1>3. D \in [Weights -> {0, 1}]
  BY <1>2
<1>4. x = Together(D[1], D[2], D[4], D[8], D[16], D[32], D[64], D[128])
  BY DEF XOR, Byte, Together, Weights
<1>5. x \in Bytes /\ \A w \in Weights : Bit(x, w) = D[w]
  <2> HIDE DEF D, x
  <2> QED
    BY <1>3, <1>4, BitsOfByte
<1>6. /\ Len(c) = Len(b) + 1
      /\ \A k \in 1..Len(b) : c[k] = b[k]
      /\ c[Len(b) + 1] = x
  BY <1>5 DEF Closed
<1>7. \A k \in 1..6 : At(c, k) = IF k = Len(b) + 1 THEN x ELSE At(b, k)
  BY <1>6 DEF At
<1>8. At(b, Len(b) + 1) = 0
  BY DEF At
<1>8a. Len(b) + 1 \in 1..6
  OBVIOUS
<1>9. \A w \in Weights : Ones(c, w) = Ones(b, w) + D[w]
  <2> SUFFICES ASSUME NEW w \in Weights
               PROVE  Ones(c, w) = Ones(b, w) + D[w]
    OBVIOUS
  <2> DEFINE B == [k \in 1..6 |-> Bit(At(b, k), w)]
             C == [k \in 1..6 |-> Bit(At(c, k), w)]
             n == Len(b) + 1
  <2>1. B \in [1..6 -> {0, 1}]
    BY <1>1, BitType
  <2>2. n \in 1..6 /\ B[n] = 0
    <3>1. n \in 1..6
      BY <1>8a
    <3>2. B[n] = Bit(0, w)
      BY <1>8, <3>1
    <3> QED
      BY <3>1, <3>2, BitType
  <2>3. \A k \in 1..6 : C[k] = IF k = n THEN D[w] ELSE B[k]
    BY <1>5, <1>7
  <2>4. /\ Ones(b, w) = B[1] + B[2] + B[3] + B[4] + B[5] + B[6]
        /\ Ones(c, w) = C[1] + C[2] + C[3] + C[4] + C[5] + C[6]
    BY DEF Ones
  <2>5. D[w] \in {0, 1}
    BY <1>3
  <2>6. C \in [1..6 -> {0, 1}]
    BY <2>1, <2>3, <2>5
  <2> HIDE DEF B, C, D, n, c
  <2>7. C[1] + C[2] + C[3] + C[4] + C[5] + C[6] = B[1] + B[2] + B[3] + B[4] + B[5] + B[6] + D[w]
    BY <2>1, <2>2, <2>3, <2>5, <2>6, OneMoreBit
  <2> QED
    BY <2>4, <2>7
<1>10. \A w \in Weights : Ones(c, w) % 2 = 0
  BY <1>2, <1>9
<1>11. XOR(c) = 0
  <2>1. /\ Ones(c, 1) % 2 = 0 /\ Ones(c, 2) % 2 = 0 /\ Ones(c, 4) % 2 = 0 /\ Ones(c, 8) % 2 = 0
        /\ Ones(c, 16) % 2 = 0 /\ Ones(c, 32) % 2 = 0 /\ Ones(c, 64) % 2 = 0 /\ Ones(c, 128) % 2 = 0
    BY <1>10 DEF Weights
  <2> HIDE DEF c
  <2> QED
    BY <2>1 DEF XOR, Byte
<1> QED
  BY <1>5, <1>11

(* What is checked is what was closed.                                      *)
LEMMA ClosedFront ==
  ASSUME NEW b \in Seq(Bytes), 1 <= Len(b), Len(b) <= 5
  PROVE  SubSeq(Closed(b), 1, Len(Closed(b)) - 1) = b
<1>1. XOR(b) \in Bytes
  BY ClosedCancels
<1>2. Closed(b) \in Seq(Bytes) /\ Len(Closed(b)) = Len(b) + 1
  BY <1>1 DEF Closed
<1>3. \A k \in 1..Len(b) : Closed(b)[k] = b[k]
  BY <1>1 DEF Closed
<1> QED
  BY <1>2, <1>3

-----------------------------------------------------------------------------
(***************************************************************************)
(* From the packet to what a decoder hears.                                *)
(***************************************************************************)

(* The ranges of a first byte are disjoint.                                 *)
LEMMA FirstBytes ==
  \A x : /\ x \in Short => x \notin Accessory /\ x \notin Long
         /\ x \in Instructions => x \notin Accessory /\ x \notin Long
         /\ x \in Accessory => x \notin Short /\ x \notin Long /\ x \notin Instructions
         /\ x \in Long => x \notin Short /\ x \notin Accessory /\ x \notin Instructions
BY DEF Short, Accessory, Long, Instructions

(* Who hears what: the first byte tells.                                    *)
LEMMA FirstByteTells ==
  ASSUME NEW b, b # <<255, 0>>
  PROVE  /\ b[1] \in Short => Addressed(b, FALSE) = Instruction(<<"loco", b[1]>>, Tail(b))
         /\ b[1] \in Instructions => Addressed(b, TRUE) = Programming(b)
         /\ b[1] \in Accessory => Addressed(b, FALSE) = AccessoryOrder(b)
         /\ b[1] \in Long =>
              Addressed(b, FALSE)
                = Instruction(<<"loco", (b[1] - 192) * 256 + b[2]>>, SubSeq(b, 3, Len(b)))
<1>1. ASSUME b[1] \in Short
      PROVE  Addressed(b, FALSE) = Instruction(<<"loco", b[1]>>, Tail(b))
  BY <1>1, FirstBytes, Zenon DEF Addressed
<1>2. ASSUME b[1] \in Instructions
      PROVE  Addressed(b, TRUE) = Programming(b)
  BY <1>2, FirstBytes, Zenon DEF Addressed
<1>3. ASSUME b[1] \in Accessory
      PROVE  Addressed(b, FALSE) = AccessoryOrder(b)
  BY <1>3, FirstBytes, Zenon DEF Addressed
<1>4. ASSUME b[1] \in Long
      PROVE  Addressed(b, FALSE)
               = Instruction(<<"loco", (b[1] - 192) * 256 + b[2]>>, SubSeq(b, 3, Len(b)))
  BY <1>4, FirstBytes, Zenon DEF Addressed
<1> QED
  BY <1>1, <1>2, <1>3, <1>4, Zenon

LEMMA HeardInFull ==
  ASSUME NEW b \in Seq(Bytes), 1 <= Len(b), Len(b) <= 5, NEW service
  PROVE  Heard(Closed(b), service) = Addressed(b, service)
BY ClosedCancels, ClosedFront, Zenon DEF Heard, WithoutCheck

(* What the packet of a loco puts before its data, and who hears it.        *)
LongAddresses == 128..10239
LocoKind(kind) == kind \notin {"idle", "ops_mode"} \union AccessoryKinds

LEMMA ShortLoco ==
  ASSUME NEW a \in 0..127, NEW kind, LocoKind(kind),
         NEW data \in Seq(Bytes), 1 <= Len(data), Len(data) <= 3, NEW junk
  PROVE  Heard(Bitstream(DCCPacket(a, kind, data), junk), FALSE) = Instruction(<<"loco", a>>, data)
<1> DEFINE p == DCCPacket(a, kind, data)
           b == <<a>> \o data
<1>1. p.kind = kind /\ p.address = a /\ p.data = data
  BY DEF DCCPacket
<1>2. And(a, 127) = a
  <2>1. a \in Nat /\ a % 128 = a
    OBVIOUS
  <2> QED
    BY <2>1, Masks
<1>3. Bitstream(p, junk) = Closed(b)
  BY <1>1, <1>2 DEF Bitstream, AddressBytes, LocoKind, AccessoryKinds, MAX_DCC_SHORT_ADDRESS
<1>4. /\ b \in Seq(Bytes) /\ Len(b) = Len(data) + 1
      /\ b[1] = a /\ Tail(b) = data
  BY DEF Bytes
<1>5. b # <<255, 0>>
  <2>1. <<255, 0>>[1] = 255 /\ a # 255
    OBVIOUS
  <2> QED
    BY <1>4, <2>1, Zenon
<1> HIDE DEF b
<1>6. Heard(Closed(b), FALSE) = Addressed(b, FALSE)
  <2>1. 1 <= Len(b) /\ Len(b) <= 5
    BY <1>4
  <2> QED
    BY <1>4, <2>1, HeardInFull, Zenon
<1>7. Addressed(b, FALSE) = Instruction(<<"loco", a>>, data)
  <2>1. a \in Short
    BY DEF Short
  <2>2. Addressed(b, FALSE) = Instruction(<<"loco", b[1]>>, Tail(b))
    BY <1>4, <1>5, <2>1, FirstByteTells, Zenon
  <2> QED
    BY <1>4, <2>2
<1> QED
  BY <1>3, <1>6, <1>7

LEMMA LongLoco ==
  ASSUME NEW a \in LongAddresses, NEW kind, LocoKind(kind),
         NEW data \in Seq(Bytes), 1 <= Len(data), Len(data) <= 3, NEW junk
  PROVE  Heard(Bitstream(DCCPacket(a, kind, data), junk), FALSE) = Instruction(<<"loco", a>>, data)
<1> DEFINE p == DCCPacket(a, kind, data)
           hi == Hi(a) + 192
           b == <<hi, Lo(a)>> \o data
<1>1. p.kind = kind /\ p.address = a /\ p.data = data
  BY DEF DCCPacket
<1>2. /\ hi \in Bytes /\ hi \in Long /\ Lo(a) \in Bytes /\ hi # 255
      /\ (hi - 192) * 256 + Lo(a) = a
      /\ Hi(a) \in 0..63 /\ ~(hi > 231)
  BY DEF Hi, Lo, Bytes, Long, LongAddresses
<1>3. AtMost(231, Or(Hi(a), 192)) = hi
  <2>1. \A x \in 0..63 : Or(x, 192) = x + 192
    BY Joins
  <2>2. Or(Hi(a), 192) = hi
    BY <1>2, <2>1
  <2> QED
    BY <1>2, <2>2, Zenon DEF AtMost
<1> HIDE DEF hi
<1>4. Bitstream(p, junk) = Closed(b)
  <2>1. a > 127
    BY DEF LongAddresses
  <2> QED
    BY <1>1, <1>3, <2>1 DEF Bitstream, AddressBytes, LocoKind, AccessoryKinds, MAX_DCC_SHORT_ADDRESS
<1>5. b \in Seq(Bytes) /\ Len(b) = Len(data) + 2
  BY <1>2
<1>6. b[1] = hi /\ b[2] = Lo(a)
  BY <1>2
<1>7. SubSeq(b, 3, Len(b)) = data
  BY <1>2
<1> HIDE DEF b
<1>8. b # <<255, 0>>
  <2>1. <<255, 0>>[1] = 255
    OBVIOUS
  <2> QED
    BY <1>2, <1>6, <2>1, Zenon
<1>9. Heard(Closed(b), FALSE) = Addressed(b, FALSE)
  <2>1. 1 <= Len(b) /\ Len(b) <= 5
    BY <1>5
  <2> QED
    BY <1>5, <2>1, HeardInFull, Zenon
<1>10. Addressed(b, FALSE) = Instruction(<<"loco", a>>, data)
  <2>1. Addressed(b, FALSE)
          = Instruction(<<"loco", (b[1] - 192) * 256 + b[2]>>, SubSeq(b, 3, Len(b)))
    BY <1>2, <1>6, <1>8, FirstByteTells, Zenon
  <2>2. (b[1] - 192) * 256 + b[2] = a
    BY <1>2, <1>6
  <2> QED
    BY <1>7, <2>1, <2>2
<1> QED
  BY <1>4, <1>9, <1>10

LEMMA LocoHears ==
  ASSUME NEW a \in LocoAddresses, NEW kind, LocoKind(kind),
         NEW data \in Seq(Bytes), 1 <= Len(data), Len(data) <= 3, NEW junk
  PROVE  Heard(Bitstream(DCCPacket(a, kind, data), junk), FALSE) = Instruction(<<"loco", a>>, data)
<1>1. a \in 0..127 \/ a \in LongAddresses
  BY DEF LocoAddresses, LongAddresses
<1> QED
  BY <1>1, ShortLoco, LongLoco, Zenon

-----------------------------------------------------------------------------
(***************************************************************************)
(* What the instruction says, call by call.                                *)
(***************************************************************************)

LEMMA OneByte ==
  ASSUME NEW to
  PROVE  /\ Instruction(to, <<0>>) = Said(to, "reset", << >>)
         /\ \A x \in 64..127 :
              Instruction(to, <<x>>) = Said(to, "speed_5_bit", <<Direction(x), x % 32>>)
         /\ \A x \in 128..159 : Instruction(to, <<x>>) = Said(to, "F0-F4", <<x % 32>>)
         /\ \A x \in 176..191 : Instruction(to, <<x>>) = Said(to, "F5-F8", <<x % 16>>)
         /\ \A x \in 160..175 : Instruction(to, <<x>>) = Said(to, "F9-F12", <<x % 16>>)
<1>1. Instruction(to, <<0>>) = Said(to, "reset", << >>)
  BY DEF Instruction
<1>2. \A x \in 64..127 : Instruction(to, <<x>>) = Said(to, "speed_5_bit", <<Direction(x), x % 32>>)
  BY DEF Instruction
<1>3. \A x \in 128..159 : Instruction(to, <<x>>) = Said(to, "F0-F4", <<x % 32>>)
  BY DEF Instruction
<1>4. \A x \in 176..191 : Instruction(to, <<x>>) = Said(to, "F5-F8", <<x % 16>>)
  BY DEF Instruction
<1>5. \A x \in 160..175 : Instruction(to, <<x>>) = Said(to, "F9-F12", <<x % 16>>)
  BY DEF Instruction
<1> QED
  BY <1>1, <1>2, <1>3, <1>4, <1>5

LEMMA TwoBytes ==
  /\ \A to, y : Instruction(to, <<63, y>>) = Said(to, "speed128", <<y \div 128, y % 128>>)
  /\ \A to, y : Instruction(to, <<222, y>>) = Said(to, "F13-F20", <<y>>)
  /\ \A to, y : Instruction(to, <<223, y>>) = Said(to, "F21-F28", <<y>>)
  /\ \A to, y : Instruction(to, <<221, y>>) = Said(to, "binary", <<y \div 128, y % 128>>)
BY DEF Instruction

LEMMA ThreeBytes ==
  \A to, y, z : Instruction(to, <<192, y, z>>) = Said(to, "binary", <<y \div 128, z * 128 + (y % 128)>>)
BY DEF Instruction

(* Speed: what is heard of the five bits and of the eight.                  *)
LEMMA FiveBitsHeard ==
  ASSUME NEW to, NEW s \in Bytes
  PROVE  /\ FiveBits(s) \in Bytes
         /\ Instruction(to, <<FiveBits(s)>>) = Said(to, "speed_5_bit", <<s \div 128, s % 32>>)
<1> DEFINE d == s \div 128
           low == s % 32
           x == 64 + low + 32 * d
<1>1. d \in {0, 1} /\ low \in 0..31 /\ Bit(s, 128) = d /\ s \in Nat
  BY DEF Bytes, Bit
<1>2. And(s, 31) = low /\ And(s, 128) = 128 * d
  <2>1. And(s, 31) = s % 32 /\ And(s, 128) = 128 * Bit(s, 128)
    BY <1>1, Masks, ZenonT(60)
  <2> QED
    BY <1>1, <2>1
<1>3. Or(64, low) = 64 + low /\ Or(64 + low, 32) = 96 + low /\ Or(64 + low, 0) = 64 + low
  BY <1>1, Joins
<1> HIDE DEF d, low
<1>4. FiveBits(s) = x
  <2>1. And(s, 128) \div 4 = 32 * d
    BY <1>1, <1>2
  <2> QED
    BY <1>1, <1>2, <1>3, <2>1 DEF FiveBits
<1>5. x \in 64..127 /\ Direction(x) = d /\ x % 32 = low
  BY <1>1 DEF Direction
<1>6. Instruction(to, <<x>>) = Said(to, "speed_5_bit", <<d, low>>)
  <2> HIDE DEF x
  <2> QED
    BY <1>5, OneByte
<1> QED
  BY <1>4, <1>5, <1>6 DEF Bytes, d, low

(* The data of a packet are bytes.                                          *)
LEMMA Data ==
  /\ \A x \in Bytes : <<x>> \in Seq(Bytes) /\ Len(<<x>>) = 1
  /\ \A x, y \in Bytes : <<x, y>> \in Seq(Bytes) /\ Len(<<x, y>>) = 2
  /\ \A x, y, z \in Bytes : <<x, y, z>> \in Seq(Bytes) /\ Len(<<x, y, z>>) = 3
OBVIOUS

LEMMA Tails ==
  /\ \A x : <<x>>[1] = x /\ Tail(<<x>>) = << >>
  /\ \A x, y : <<x, y>>[1] = x /\ Tail(<<x, y>>) = <<y>>
OBVIOUS

LEMMA Concat2 ==
  ASSUME NEW x \in Bytes, NEW y \in Bytes
  PROVE  <<x>> \o <<y>> = <<x, y>>
<1> DEFINE s == <<x>> \o <<y>>
<1>1. \A q \in Seq(Bytes) : Len(q) = 2 => q = <<q[1], q[2]>>
  OBVIOUS
<1>2. s \in Seq(Bytes) /\ Len(s) = 2 /\ s[1] = x /\ s[2] = y
  OBVIOUS
<1> HIDE DEF s
<1>3. s = <<x, y>>
  BY <1>1, <1>2
<1> QED
  BY <1>3 DEF s

LEMMA Concat3 ==
  ASSUME NEW x \in Bytes, NEW y \in Bytes, NEW z \in Bytes
  PROVE  <<x>> \o <<y, z>> = <<x, y, z>> /\ <<x, y>> \o <<z>> = <<x, y, z>>
<1>1. \A s \in Seq(Bytes) : Len(s) = 3 => s = <<s[1], s[2], s[3]>>
  OBVIOUS
<1>2. <<x>> \o <<y, z>> = <<x, y, z>>
  <2> DEFINE s == <<x>> \o <<y, z>>
  <2>1. s[1] = x /\ s[2] = y /\ s[3] = z
    OBVIOUS
  <2>2. s \in Seq(Bytes) /\ Len(s) = 3
    OBVIOUS
  <2> HIDE DEF s
  <2>3. s = <<x, y, z>>
    BY <1>1, <2>1, <2>2
  <2> QED
    BY <2>3 DEF s
<1>3. <<x, y>> \o <<z>> = <<x, y, z>>
  <2> DEFINE s == <<x, y>> \o <<z>>
  <2>1. s[1] = x /\ s[2] = y /\ s[3] = z
    OBVIOUS
  <2>2. s \in Seq(Bytes) /\ Len(s) = 3
    OBVIOUS
  <2> HIDE DEF s
  <2>3. s = <<x, y, z>>
    BY <1>1, <2>1, <2>2
  <2> QED
    BY <2>3 DEF s
<1> QED
  BY <1>2, <1>3

LEMMA GroupNames ==
  /\ Groups[1] = "F0-F4" /\ Groups[2] = "F5-F8" /\ Groups[3] = "F9-F12"
  /\ Groups[4] = "F13-F20" /\ Groups[5] = "F21-F28"
  /\ Width(1) = 32 /\ Width(2) = 16 /\ Width(3) = 16
  /\ \A g \in 4..10 : Width(g) = 256
BY DEF Groups, Width

(* Functions: the group and the state of its functions.                     *)
LEMMA FunctionsHeard ==
  ASSUME NEW to, NEW g \in 1..10, NEW f \in Bytes
  PROVE  /\ FunctionData(g, f) \in Seq(Bytes)
         /\ 1 <= Len(FunctionData(g, f)) /\ Len(FunctionData(g, f)) <= 3
         /\ Instruction(to, FunctionData(g, f)) = Said(to, Groups[g], <<f % Width(g)>>)
<1>0. f \in Nat /\ f % 32 \in 0..31 /\ f % 16 \in 0..15 /\ f % 256 = f
  BY DEF Bytes
<1>1. CASE g = 1
  <2>1. FunctionData(g, f) = <<128 + (f % 32)>>
    <3>1. And(f, 31) = f % 32
      BY <1>0, Masks
    <3>2. Or(128, f % 32) = 128 + (f % 32)
      BY <1>0, Joins
    <3> QED
      BY <1>1, <3>1, <3>2 DEF FunctionData
  <2>2. 128 + (f % 32) \in 128..159 /\ (128 + (f % 32)) % 32 = f % 32
    BY <1>0
  <2>3. Instruction(to, <<128 + (f % 32)>>) = Said(to, "F0-F4", <<f % 32>>)
    BY <2>2, OneByte
  <2>4. 128 + (f % 32) \in Bytes
    BY <1>0 DEF Bytes
  <2>5. /\ FunctionData(g, f) \in Seq(Bytes)
        /\ Len(FunctionData(g, f)) = 1
    BY <2>1, <2>4, Data, Zenon
  <2>6. Groups[g] = "F0-F4" /\ Width(g) = 32
    BY <1>1, GroupNames
  <2>7. Instruction(to, FunctionData(g, f)) = Said(to, Groups[g], <<f % Width(g)>>)
    BY <2>1, <2>3, <2>6, Zenon
  <2> QED
    BY <2>5, <2>7
<1>2. CASE g = 2
  <2>1. FunctionData(g, f) = <<176 + (f % 16)>>
    <3>1. And(f, 15) = f % 16
      BY <1>0, Masks
    <3>2. Or(176, f % 16) = 176 + (f % 16)
      BY <1>0, Joins
    <3> QED
      BY <1>2, <3>1, <3>2 DEF FunctionData
  <2>2. 176 + (f % 16) \in 176..191 /\ (176 + (f % 16)) % 16 = f % 16
    BY <1>0
  <2>3. Instruction(to, <<176 + (f % 16)>>) = Said(to, "F5-F8", <<f % 16>>)
    BY <2>2, OneByte, ZenonT(60)
  <2>4. 176 + (f % 16) \in Bytes
    BY <1>0 DEF Bytes
  <2>5. /\ FunctionData(g, f) \in Seq(Bytes)
        /\ Len(FunctionData(g, f)) = 1
    BY <2>1, <2>4, Data, Zenon
  <2>6. Groups[g] = "F5-F8" /\ Width(g) = 16
    BY <1>2, GroupNames
  <2>7. Instruction(to, FunctionData(g, f)) = Said(to, Groups[g], <<f % Width(g)>>)
    BY <2>1, <2>3, <2>6, Zenon
  <2> QED
    BY <2>5, <2>7
<1>3. CASE g = 3
  <2>1. FunctionData(g, f) = <<160 + (f % 16)>>
    <3>1. And(f, 15) = f % 16
      BY <1>0, Masks
    <3>2. Or(160, f % 16) = 160 + (f % 16)
      BY <1>0, Joins
    <3> QED
      BY <1>3, <3>1, <3>2 DEF FunctionData
  <2>2. 160 + (f % 16) \in 160..175 /\ (160 + (f % 16)) % 16 = f % 16
    BY <1>0
  <2>3. Instruction(to, <<160 + (f % 16)>>) = Said(to, "F9-F12", <<f % 16>>)
    BY <2>2, OneByte, ZenonT(60)
  <2>4. 160 + (f % 16) \in Bytes
    BY <1>0 DEF Bytes
  <2>5. /\ FunctionData(g, f) \in Seq(Bytes)
        /\ Len(FunctionData(g, f)) = 1
    BY <2>1, <2>4, Data, Zenon
  <2>6. Groups[g] = "F9-F12" /\ Width(g) = 16
    BY <1>3, GroupNames
  <2>7. Instruction(to, FunctionData(g, f)) = Said(to, Groups[g], <<f % Width(g)>>)
    BY <2>1, <2>3, <2>6, Zenon
  <2> QED
    BY <2>5, <2>7
<1>4. CASE g = 4
  <2>1. FunctionData(g, f) = <<222, f>>
    BY <1>4 DEF FunctionData
  <2>2. Instruction(to, <<222, f>>) = Said(to, "F13-F20", <<f>>)
    BY TwoBytes
  <2>3. 222 \in Bytes
    BY DEF Bytes
  <2>4. <<222, f>> \in Seq(Bytes) /\ Len(<<222, f>>) = 2
    BY <2>3, Data, Zenon
  <2>5. Groups[g] = "F13-F20" /\ Width(g) = 256
    BY <1>4, GroupNames
  <2> QED
    BY <1>0, <2>1, <2>2, <2>4, <2>5
<1>5. CASE g = 5
  <2>1. FunctionData(g, f) = <<223, f>>
    BY <1>5 DEF FunctionData
  <2>2. Instruction(to, <<223, f>>) = Said(to, "F21-F28", <<f>>)
    BY TwoBytes
  <2>3. 223 \in Bytes
    BY DEF Bytes
  <2>4. <<223, f>> \in Seq(Bytes) /\ Len(<<223, f>>) = 2
    BY <2>3, Data, Zenon
  <2>5. Groups[g] = "F21-F28" /\ Width(g) = 256
    BY <1>5, GroupNames
  <2> QED
    BY <1>0, <2>1, <2>2, <2>4, <2>5
<1>6. CASE g \in 6..10
  <2>1. FunctionData(g, f) = <<210 + g, f>>
    BY <1>6 DEF FunctionData
  <2>2. Instruction(to, <<210 + g, f>>) = Said(to, Groups[g], <<f>>)
    BY <1>6 DEF Instruction
  <2>3. Width(g) = 256
    BY <1>6, GroupNames
  <2>4. 210 + g \in Bytes
    BY <1>6 DEF Bytes
  <2>5. <<210 + g, f>> \in Seq(Bytes) /\ Len(<<210 + g, f>>) = 2
    BY <2>4, Data, Zenon
  <2> QED
    BY <1>0, <2>1, <2>2, <2>3, <2>5
<1>7. g = 1 \/ g = 2 \/ g = 3 \/ g = 4 \/ g = 5 \/ g \in 6..10
  OBVIOUS
<1> QED
  BY <1>1, <1>2, <1>3, <1>4, <1>5, <1>6, <1>7

(* CVs: the two bits of the number in the instruction, and the rest.        *)
LEMMA CVBits ==
  ASSUME NEW cv \in CVNumbers
  PROVE  /\ And(Hi(cv), 3) \in 0..3
         /\ Lo(cv) \in Bytes
         /\ And(Hi(cv), 3) * 256 + Lo(cv) = cv
<1>1. Hi(cv) \in 0..3 /\ Lo(cv) \in Bytes /\ Hi(cv) * 256 + Lo(cv) = cv
  BY DEF Hi, Lo, Bytes, CVNumbers
<1>2. And(Hi(cv), 3) = Hi(cv)
  <2>1. Hi(cv) \in Nat /\ Hi(cv) % 4 = Hi(cv)
    BY <1>1
  <2> QED
    BY <2>1, Masks
<1> QED
  BY <1>1, <1>2

(* An instruction of eight bits with two of the number of the CV.           *)
LEMMA WithCVBits ==
  ASSUME NEW h \in 0..3
  PROVE  /\ Or(h, 124) = 124 + h /\ 124 + h \in Bytes /\ 124 + h \in 124..127 /\ (124 + h) % 4 = h
         /\ Or(h, 116) = 116 + h /\ 116 + h \in Bytes /\ 116 + h \in 116..119 /\ (116 + h) % 4 = h
         /\ Or(h, 120) = 120 + h /\ 120 + h \in Bytes /\ 120 + h \in 120..123 /\ (120 + h) % 4 = h
         /\ Or(h, 236) = 236 + h /\ 236 + h \in Bytes /\ 236 + h \in 236..239 /\ (236 + h) % 4 = h
         /\ Or(h, 228) = 228 + h /\ 228 + h \in Bytes /\ 228 + h \in 228..231 /\ (228 + h) % 4 = h
<1>1. /\ 124 + h \in Bytes /\ 124 + h \in 124..127 /\ (124 + h) % 4 = h
      /\ 116 + h \in Bytes /\ 116 + h \in 116..119 /\ (116 + h) % 4 = h
      /\ 120 + h \in Bytes /\ 120 + h \in 120..123 /\ (120 + h) % 4 = h
      /\ 236 + h \in Bytes /\ 236 + h \in 236..239 /\ (236 + h) % 4 = h
      /\ 228 + h \in Bytes /\ 228 + h \in 228..231 /\ (228 + h) % 4 = h
  BY DEF Bytes
<1>2. /\ Or(h, 124) = 124 + h /\ Or(h, 116) = 116 + h /\ Or(h, 120) = 120 + h
      /\ Or(h, 236) = 236 + h /\ Or(h, 228) = 228 + h
  BY Joins
<1> QED
  BY <1>1, <1>2

PomData(instruction, cv, v) == <<Or(And(Hi(cv), 3), instruction), Lo(cv), v>>

LEMMA PomHeard ==
  ASSUME NEW to, NEW cv \in CVNumbers, NEW v \in Bytes
  PROVE  /\ PomData(236, cv, v) \in Seq(Bytes) /\ PomData(228, cv, v) \in Seq(Bytes)
         /\ Len(PomData(236, cv, v)) = 3 /\ Len(PomData(228, cv, v)) = 3
         /\ Instruction(to, PomData(236, cv, v)) = Said(to, "write", <<cv, v>>)
         /\ Instruction(to, PomData(228, cv, v)) = Said(to, "verify", <<cv, v>>)
<1> DEFINE h == And(Hi(cv), 3)
           lo == Lo(cv)
           w == Or(h, 236)
           r == Or(h, 228)
<1>1. h \in 0..3 /\ lo \in Bytes /\ h * 256 + lo = cv
  BY CVBits
<1> HIDE DEF h, lo
<1>2. /\ w \in Bytes /\ w \in 236..239 /\ w % 4 = h
      /\ r \in Bytes /\ r \in 228..231 /\ r % 4 = h
  BY <1>1, WithCVBits
<1> HIDE DEF w, r
<1>3. /\ <<w, lo, v>> \in Seq(Bytes) /\ <<r, lo, v>> \in Seq(Bytes)
      /\ Len(<<w, lo, v>>) = 3 /\ Len(<<r, lo, v>>) = 3
  BY <1>1, <1>2, Data
<1>4. Instruction(to, <<w, lo, v>>) = Said(to, "write", <<cv, v>>)
  <2>1. Instruction(to, <<w, lo, v>>) = Said(to, "write", <<((w % 4) * 256) + lo, v>>)
    <3>1. \A x \in 236..239 : Instruction(to, <<x, lo, v>>) = Said(to, "write", <<((x % 4) * 256) + lo, v>>)
      BY DEF Instruction
    <3> QED
      BY <1>2, <3>1, Zenon
  <2>2. ((w % 4) * 256) + lo = cv
    BY <1>1, <1>2
  <2> QED
    BY <2>1, <2>2
<1>5. Instruction(to, <<r, lo, v>>) = Said(to, "verify", <<cv, v>>)
  <2>1. Instruction(to, <<r, lo, v>>) = Said(to, "verify", <<((r % 4) * 256) + lo, v>>)
    <3>1. \A x \in 228..231 : Instruction(to, <<x, lo, v>>) = Said(to, "verify", <<((x % 4) * 256) + lo, v>>)
      BY DEF Instruction
    <3> QED
      BY <1>2, <3>1, Zenon
  <2>2. ((r % 4) * 256) + lo = cv
    BY <1>1, <1>2
  <2> QED
    BY <2>1, <2>2
<1> QED
  BY <1>3, <1>4, <1>5 DEF h, lo, w, r, PomData

(* Binary states: the number in one byte or in two.                         *)
BinaryData(low, high) == IF high = 0 THEN <<221, low>> ELSE <<192, low, high>>

LEMMA BinaryHeard ==
  ASSUME NEW to, NEW low \in Bytes, NEW high \in Bytes
  PROVE  /\ BinaryData(low, high) \in Seq(Bytes)
         /\ 1 <= Len(BinaryData(low, high)) /\ Len(BinaryData(low, high)) <= 3
         /\ Instruction(to, BinaryData(low, high))
              = Said(to, "binary", <<low \div 128, high * 128 + (low % 128)>>)
<1>0. 221 \in Bytes /\ 192 \in Bytes
  BY DEF Bytes
<1>1. CASE high = 0
  <2>1. <<221, low>> \in Seq(Bytes) /\ Len(<<221, low>>) = 2
    BY <1>0, Data, Zenon
  <2>2. Instruction(to, <<221, low>>) = Said(to, "binary", <<low \div 128, low % 128>>)
    BY TwoBytes
  <2>3. high * 128 + (low % 128) = low % 128
    BY <1>1 DEF Bytes
  <2>4. BinaryData(low, high) = <<221, low>>
    BY <1>1 DEF BinaryData
  <2> QED
    BY <2>1, <2>2, <2>3, <2>4
<1>2. CASE high # 0
  <2>1. <<192, low, high>> \in Seq(Bytes) /\ Len(<<192, low, high>>) = 3
    BY <1>0, Data, ZenonT(60)
  <2>2. Instruction(to, <<192, low, high>>)
          = Said(to, "binary", <<low \div 128, high * 128 + (low % 128)>>)
    BY ThreeBytes
  <2>3. BinaryData(low, high) = <<192, low, high>>
    BY <1>2 DEF BinaryData
  <2> QED
    BY <2>1, <2>2, <2>3
<1> QED
  BY <1>1, <1>2

(* The programming track: the instruction takes the place of the address.   *)
Rails == <<"programming_track">>

LEMMA ServiceHeard ==
  ASSUME NEW x \in Instructions, NEW y \in Bytes, NEW z \in Bytes, NEW junk
  PROVE  Heard(Bitstream(DCCPacket(x, "ops_mode", <<y, z>>), junk), TRUE) = Programming(<<x, y, z>>)
<1> DEFINE p == DCCPacket(x, "ops_mode", <<y, z>>)
           b == <<x, y, z>>
<1>1. x \in Bytes /\ x \in Nat /\ x % 128 = x /\ x # 255
  BY DEF Instructions, Bytes
<1>2. And(x, 127) = x
  BY <1>1, Masks
<1>3. p.kind = "ops_mode" /\ p.address = x /\ p.data = <<y, z>>
  BY DEF DCCPacket
<1>4. <<x>> \o <<y, z>> = b
  BY <1>1, Concat3
<1>5. Bitstream(p, junk) = Closed(b)
  BY <1>2, <1>3, <1>4 DEF Bitstream, AddressBytes, AccessoryKinds
<1>6. b \in Seq(Bytes) /\ Len(b) = 3 /\ b[1] = x
  BY <1>1, Data
<1>7. b # <<255, 0>>
  BY <1>6
<1> HIDE DEF b
<1>8. Heard(Closed(b), TRUE) = Addressed(b, TRUE)
  <2>1. 1 <= Len(b) /\ Len(b) <= 5
    BY <1>6
  <2> QED
    BY <1>6, <2>1, HeardInFull, Zenon
<1>9. Addressed(b, TRUE) = Programming(b)
  BY <1>6, <1>7, FirstByteTells, Zenon
<1> QED
  BY <1>5, <1>8, <1>9 DEF b

ServicePacket(instruction, cv, v) ==
  DCCPacket(Or(And(Hi(cv), 3), instruction), "ops_mode", <<Lo(cv), v>>)

LEMMA ServiceCallsHeard ==
  ASSUME NEW cv \in CVNumbers, NEW v \in Bytes, NEW junk
  PROVE  /\ Heard(Bitstream(ServicePacket(124, cv, v), junk), TRUE) = Said(Rails, "write", <<cv, v>>)
         /\ Heard(Bitstream(ServicePacket(116, cv, v), junk), TRUE) = Said(Rails, "verify", <<cv, v>>)
         /\ v \in 224..239 =>
              Heard(Bitstream(ServicePacket(120, cv, v), junk), TRUE)
                = Said(Rails, "verify_bit", <<cv, v % 16>>)
<1> DEFINE h == And(Hi(cv), 3)
           lo == Lo(cv)
           w == Or(h, 124)
           r == Or(h, 116)
           b == Or(h, 120)
<1>1. h \in 0..3 /\ lo \in Bytes /\ h * 256 + lo = cv
  BY CVBits
<1> HIDE DEF h, lo
<1>2. /\ w \in 124..127 /\ ((w % 4) * 256) + lo = cv
      /\ r \in 116..119 /\ ((r % 4) * 256) + lo = cv
      /\ b \in 120..123 /\ ((b % 4) * 256) + lo = cv
  BY <1>1, WithCVBits
<1> HIDE DEF w, r, b
<1>3. w \in Instructions /\ r \in Instructions /\ b \in Instructions
  BY <1>2 DEF Instructions
<1>4. Heard(Bitstream(DCCPacket(w, "ops_mode", <<lo, v>>), junk), TRUE) = Said(Rails, "write", <<cv, v>>)
  <2>1. \A x \in 124..127 :
          Programming(<<x, lo, v>>) = Said(Rails, "write", <<((x % 4) * 256) + lo, v>>)
    BY DEF Programming, Rails
  <2>2. Programming(<<w, lo, v>>) = Said(Rails, "write", <<((w % 4) * 256) + lo, v>>)
    BY <1>2, <2>1, Zenon
  <2>3. Programming(<<w, lo, v>>) = Said(Rails, "write", <<cv, v>>)
    BY <1>2, <2>2
  <2> QED
    BY <1>1, <1>3, <2>3, ServiceHeard, ZenonT(60)
<1>5. Heard(Bitstream(DCCPacket(r, "ops_mode", <<lo, v>>), junk), TRUE) = Said(Rails, "verify", <<cv, v>>)
  <2>1. \A x \in 116..119 :
          Programming(<<x, lo, v>>) = Said(Rails, "verify", <<((x % 4) * 256) + lo, v>>)
    BY DEF Programming, Rails
  <2>2. Programming(<<r, lo, v>>) = Said(Rails, "verify", <<((r % 4) * 256) + lo, v>>)
    BY <1>2, <2>1, Zenon
  <2>3. Programming(<<r, lo, v>>) = Said(Rails, "verify", <<cv, v>>)
    BY <1>2, <2>2
  <2> QED
    BY <1>1, <1>3, <2>3, ServiceHeard, ZenonT(60)
<1>6. ASSUME v \in 224..239
      PROVE  Heard(Bitstream(DCCPacket(b, "ops_mode", <<lo, v>>), junk), TRUE)
               = Said(Rails, "verify_bit", <<cv, v % 16>>)
  <2>1. \A z \in 224..239, x \in 120..123 :
          Programming(<<x, lo, z>>) = Said(Rails, "verify_bit", <<((x % 4) * 256) + lo, z % 16>>)
    BY DEF Programming, Rails
  <2>2. Programming(<<b, lo, v>>) = Said(Rails, "verify_bit", <<((b % 4) * 256) + lo, v % 16>>)
    BY <1>2, <1>6, <2>1, Zenon
  <2>3. Programming(<<b, lo, v>>) = Said(Rails, "verify_bit", <<cv, v % 16>>)
    BY <1>2, <2>2
  <2> QED
    BY <1>1, <1>3, <2>3, ServiceHeard, ZenonT(60)
<1> QED
  BY <1>4, <1>5, <1>6 DEF h, lo, w, r, b, ServicePacket

Decoders == 0..511

(* Accessories: nine bits of address, three of them complemented, two of    *)
(* the output.                                                              *)
LEMMA AccessoryBits ==
  ASSUME NEW a \in Decoders, NEW d \in 0..15
  PROVE  /\ a \div 64 \in 0..7
         /\ Or(128, And(a, 63)) = 128 + (a % 64)
         /\ Or(112 - And(a \div 4, 112), And(d, 15)) = 16 * (7 - (a \div 64)) + d
<1> DEFINE q == a \div 4
           m == And(q, 112)
           k == a \div 64
<1>1. q \in Nat /\ q \in 0..127 /\ q \div 16 = k /\ k \in 0..7
  BY DEF Decoders
<1>2. m = 16 * k
  <2>1. m = 16 * Bit(q, 16) + 32 * Bit(q, 32) + 64 * Bit(q, 64)
    BY <1>1, Masks
  <2>2. k = Bit(q, 16) + 2 * Bit(q, 32) + 4 * Bit(q, 64)
    BY <1>1 DEF Bit, Decoders
  <2>3. Bit(q, 16) \in {0, 1} /\ Bit(q, 32) \in {0, 1} /\ Bit(q, 64) \in {0, 1}
    BY <1>1, BitType DEF Weights
  <2> HIDE DEF m, k, q
  <2> QED
    BY <2>1, <2>2, <2>3
<1>3. Or(128, And(a, 63)) = 128 + (a % 64)
  <2>1. And(a, 63) = a % 64
    <3>1. a \in Nat
      BY DEF Decoders
    <3> QED
      BY <3>1, Masks
  <2>2. a % 64 \in 0..63
    BY DEF Decoders
  <2> QED
    BY <2>1, <2>2, Joins
<1>4. And(d, 15) = d
  <2>1. d \in Nat /\ d % 16 = d
    OBVIOUS
  <2> QED
    BY <2>1, Masks
<1> HIDE DEF k, m, q
<1>5. Or(112 - m, And(d, 15)) = 16 * (7 - k) + d
  <2>1. 7 - k \in 0..7 /\ 112 - m = 16 * (7 - k)
    BY <1>1, <1>2
  <2>2. Or(16 * (7 - k), d) = 16 * (7 - k) + d
    BY <2>1, Joins
  <2> QED
    BY <1>4, <2>1, <2>2
<1> QED
  BY <1>1, <1>3, <1>5 DEF k, m, q

(* The two bytes, the second without its first bit, and the output meant.    *)
First(a) == 128 + (a % 64)
Second(a, d) == 16 * (7 - (a \div 64)) + d
Output(a, d) == a * 4 + ((d \div 2) % 4)

LEMMA AccessoryBytesType ==
  ASSUME NEW a \in Decoders, NEW d \in 0..15
  PROVE  /\ First(a) \in Bytes /\ First(a) \in Accessory /\ First(a) # 255
         /\ Second(a, d) \in 0..127 /\ Second(a, d) \in Bytes /\ 128 + Second(a, d) \in Bytes
<1>1. First(a) \in 128..191 /\ Second(a, d) \in 0..127
  BY DEF Decoders, First, Second
<1> QED
  BY <1>1 DEF Bytes, Accessory

(* What an accessory decoder understands of these bits: the output it is,   *)
(* and the four bits of data.                                               *)
LEMMA AccessorySays ==
  ASSUME NEW a \in Decoders, NEW d \in 0..15
  PROVE  /\ AccessoryOrder(<<First(a), 128 + Second(a, d)>>)
              = Said(<<"turnout", Output(a, d)>>, "position", <<d % 2, (d \div 8) % 2>>)
         /\ d % 2 = 1 /\ d < 8 =>
              \A z : AccessoryOrder(<<First(a), Second(a, d), z>>)
                       = Said(<<"signal", Output(a, d)>>, "aspect", <<z>>)
<1> DEFINE x == First(a)
           y == Second(a, d)
           u == 128 + y
<1>1. /\ x \in 128..191 /\ x % 64 = a % 64
      /\ y \in 0..127 /\ y \div 128 = 0 /\ (y \div 16) % 8 = 7 - (a \div 64)
      /\ (y \div 2) % 4 = (d \div 2) % 4 /\ y % 2 = d % 2 /\ (y \div 8) % 2 = (d \div 8) % 2
  BY DEF Decoders, First, Second
<1>2. /\ u \in 128..255 /\ u \div 128 = 1 /\ (u \div 16) % 8 = 7 - (a \div 64)
      /\ (u \div 2) % 4 = (d \div 2) % 4 /\ u % 2 = d % 2 /\ (u \div 8) % 2 = (d \div 8) % 2
  BY DEF Decoders, First, Second
<1>3. (a % 64) + 64 * (7 - (7 - (a \div 64))) = a
  BY DEF Decoders
<1> HIDE DEF x, y, u
<1>4. AccessoryOrder(<<x, u>>) = Said(<<"turnout", Output(a, d)>>, "position", <<d % 2, (d \div 8) % 2>>)
  BY <1>1, <1>2, <1>3 DEF AccessoryOrder, Output
<1>5. ASSUME d % 2 = 1, d < 8
      PROVE  \A z : AccessoryOrder(<<x, y, z>>) = Said(<<"signal", Output(a, d)>>, "aspect", <<z>>)
  BY <1>1, <1>3, <1>5 DEF AccessoryOrder, Output
<1> QED
  BY <1>4, <1>5 DEF x, y, u

LEMMA OutputBits ==
  ASSUME NEW n \in Outputs
  PROVE  /\ n \div 4 \in Decoders /\ n % 4 \in 0..3
         /\ \A pos \in 0..1, activ \in 0..1 :
              LET d == Or(Or((n % 4) * 2, pos), activ * 8)
              IN  /\ d \in 0..15 /\ d % 2 = pos /\ (d \div 8) % 2 = activ
                  /\ Output(n \div 4, d) = n
         /\ LET d == Or((n % 4) * 2, 1)
            IN  /\ d \in 0..7 /\ d % 2 = 1
                /\ Output(n \div 4, d) = n
<1> DEFINE q == n \div 4
           r == n % 4
<1>1. q \in Decoders /\ r \in 0..3 /\ q * 4 + r = n
  BY DEF Outputs, Decoders
<1> HIDE DEF q, r
<1>2. ASSUME NEW pos \in 0..1, NEW activ \in 0..1, NEW d, d = Or(Or(r * 2, pos), activ * 8)
      PROVE  /\ d \in 0..15 /\ d % 2 = pos /\ (d \div 8) % 2 = activ
             /\ Output(q, d) = n
  <2> DEFINE e == r * 2 + pos
  <2>1. Or(r * 2, pos) = e
    BY <1>1, Joins
  <2>2. e \in 0..7
    BY <1>1
  <2>3. Or(e, 8) = e + 8 /\ Or(e, 0) = e
    BY <2>2, Joins
  <2>4. d = e + activ * 8
    <3>1. CASE activ = 0
      BY <1>2, <2>1, <2>2, <2>3, <3>1
    <3>2. CASE activ = 1
      BY <1>2, <2>1, <2>2, <2>3, <3>2
    <3> QED
      BY <3>1, <3>2
  <2>5. d = r * 2 + pos + activ * 8
    BY <1>1, <2>4
  <2>6. (d \div 2) % 4 = r
    BY <1>1, <2>5
  <2> QED
    BY <1>1, <2>5, <2>6 DEF Output
<1>3. ASSUME NEW d, d = Or(r * 2, 1)
      PROVE  /\ d \in 0..7 /\ d % 2 = 1
             /\ Output(q, d) = n
  <2>1. d = r * 2 + 1
    BY <1>1, <1>3, Joins
  <2>2. (d \div 2) % 4 = r
    BY <1>1, <2>1
  <2> QED
    BY <1>1, <2>1, <2>2 DEF Output
<1> QED
  BY <1>1, <1>2, <1>3 DEF q, r

(* The bytes of an accessory packet before the check byte; junk is what the *)
(* second byte held before.                                                 *)
LEMMA AccessoryBitstream ==
  ASSUME NEW a \in Decoders, NEW d \in 0..15, NEW junk
  PROVE  /\ Bitstream(DCCPacket(a, "basic_accessory", <<d>>), junk)
              = Closed(<<First(a), 128 + Second(a, d)>>)
         /\ \A z \in Bytes :
              Bitstream(DCCPacket(a, "extended_accessory", <<d, z>>), 0)
                = Closed(<<First(a), Second(a, d), z>>)
<1> DEFINE x == First(a)
           y == Second(a, d)
<1>1. x \in Bytes /\ y \in Bytes /\ 128 + y \in Bytes /\ y \in 0..127
  BY AccessoryBytesType
<1>2. Or(128, And(a, 63)) = x /\ Or(112 - And(a \div 4, 112), And(d, 15)) = y
  BY AccessoryBits, ZenonT(60) DEF First, Second
<1> HIDE DEF x, y
<1>3. Or(128, y) = 128 + y /\ Or(0, y) = y
  BY <1>1, Joins
<1>4. Bitstream(DCCPacket(a, "basic_accessory", <<d>>), junk) = Closed(<<x, 128 + y>>)
  <2> DEFINE p == DCCPacket(a, "basic_accessory", <<d>>)
  <2>1. p.kind = "basic_accessory" /\ p.address = a /\ p.data = <<d>>
    BY DEF DCCPacket
  <2>2. p.data[1] = d /\ Tail(p.data) = << >>
    BY <2>1, Tails
  <2> HIDE DEF p
  <2>3. AccessoryBytes(p, junk) = <<x, 128 + y>>
    BY <1>2, <1>3, <2>1, <2>2 DEF AccessoryBytes
  <2>4. <<x, 128 + y>> \o << >> = <<x, 128 + y>>
    <3>1. <<x, 128 + y>> \in Seq(Bytes)
      BY <1>1, Data
    <3> QED
      BY <3>1, ConcatEmptySeq
  <2>5. Bitstream(p, junk) = Closed(<<x, 128 + y>>)
    BY <2>1, <2>2, <2>3, <2>4 DEF Bitstream, AccessoryKinds
  <2> QED
    BY <2>5 DEF p
<1>5. ASSUME NEW z \in Bytes
      PROVE  Bitstream(DCCPacket(a, "extended_accessory", <<d, z>>), 0) = Closed(<<x, y, z>>)
  <2> DEFINE p == DCCPacket(a, "extended_accessory", <<d, z>>)
  <2>1. p.kind = "extended_accessory" /\ p.address = a /\ p.data = <<d, z>>
    BY DEF DCCPacket
  <2>2. p.data[1] = d /\ Tail(p.data) = <<z>>
    BY <2>1, Tails, ZenonT(60)
  <2> HIDE DEF p
  <2>3. AccessoryBytes(p, 0) = <<x, y>>
    BY <1>2, <1>3, <2>1, <2>2 DEF AccessoryBytes
  <2>4. <<x, y>> \o <<z>> = <<x, y, z>>
    BY <1>1, <1>5, Concat3, ZenonT(60)
  <2>5. Bitstream(p, 0) = Closed(<<x, y, z>>)
    BY <2>1, <2>2, <2>3, <2>4 DEF Bitstream, AccessoryKinds
  <2> QED
    BY <2>5 DEF p
<1> QED
  BY <1>4, <1>5 DEF x, y

LEMMA TurnoutHears ==
  ASSUME NEW n \in Outputs, NEW pos \in 0..1, NEW activ \in 0..1, NEW junk
  PROVE  Heard(Bitstream(DCCPacket(n \div 4, "basic_accessory",
                                   <<Or(Or((n % 4) * 2, pos), activ * 8)>>), junk), FALSE)
           = Said(<<"turnout", n>>, "position", <<pos, activ>>)
<1> DEFINE a == n \div 4
           d == Or(Or((n % 4) * 2, pos), activ * 8)
           x == First(a)
           y == Second(a, d)
           b == <<x, 128 + y>>
<1>1. /\ a \in Decoders /\ d \in 0..15 /\ d % 2 = pos /\ (d \div 8) % 2 = activ
      /\ Output(a, d) = n
  BY OutputBits
<1> HIDE DEF a, d
<1>2. Bitstream(DCCPacket(a, "basic_accessory", <<d>>), junk) = Closed(b)
  BY <1>1, AccessoryBitstream
<1>3. /\ x \in Bytes /\ x \in Accessory /\ x # 255 /\ 128 + y \in Bytes
      /\ AccessoryOrder(b) = Said(<<"turnout", n>>, "position", <<pos, activ>>)
  <2>1. AccessoryOrder(b) = Said(<<"turnout", Output(a, d)>>, "position", <<d % 2, (d \div 8) % 2>>)
    BY <1>1, AccessorySays
  <2> QED
    BY <1>1, <2>1, AccessoryBytesType
<1>4. b \in Seq(Bytes) /\ Len(b) = 2 /\ b[1] = x
  BY <1>3, Data
<1>5. b # <<255, 0>>
  BY <1>3, <1>4
<1> HIDE DEF b
<1>6. Heard(Closed(b), FALSE) = Addressed(b, FALSE)
  <2>1. 1 <= Len(b) /\ Len(b) <= 5
    BY <1>4
  <2> QED
    BY <1>4, <2>1, HeardInFull, Zenon
<1>7. Addressed(b, FALSE) = AccessoryOrder(b)
  BY <1>3, <1>4, <1>5, FirstByteTells, Zenon
<1> QED
  BY <1>2, <1>3, <1>6, <1>7 DEF a, d

LEMMA SignalHears ==
  ASSUME NEW n \in Outputs, NEW z \in Bytes
  PROVE  Heard(Bitstream(DCCPacket(n \div 4, "extended_accessory",
                                   <<Or((n % 4) * 2, 1), z>>), 0), FALSE)
           = Said(<<"signal", n>>, "aspect", <<z>>)
<1> DEFINE a == n \div 4
           d == Or((n % 4) * 2, 1)
           x == First(a)
           y == Second(a, d)
           b == <<x, y, z>>
<1>1. /\ a \in Decoders /\ d \in 0..15 /\ d < 8 /\ d % 2 = 1
      /\ Output(a, d) = n
  BY OutputBits
<1> HIDE DEF a, d
<1>2. Bitstream(DCCPacket(a, "extended_accessory", <<d, z>>), 0) = Closed(b)
  BY <1>1, AccessoryBitstream
<1>3. /\ x \in Bytes /\ x \in Accessory /\ x # 255 /\ y \in Bytes
      /\ AccessoryOrder(b) = Said(<<"signal", n>>, "aspect", <<z>>)
  <2>1. AccessoryOrder(b) = Said(<<"signal", Output(a, d)>>, "aspect", <<z>>)
    BY <1>1, AccessorySays
  <2> QED
    BY <1>1, <2>1, AccessoryBytesType
<1>4. b \in Seq(Bytes) /\ Len(b) = 3 /\ b[1] = x
  BY <1>3, Data
<1>5. b # <<255, 0>>
  BY <1>3, <1>4
<1> HIDE DEF b
<1>6. Heard(Closed(b), FALSE) = Addressed(b, FALSE)
  <2>1. 1 <= Len(b) /\ Len(b) <= 5
    BY <1>4
  <2> QED
    BY <1>4, <2>1, HeardInFull, Zenon
<1>7. Addressed(b, FALSE) = AccessoryOrder(b)
  BY <1>3, <1>4, <1>5, FirstByteTells, Zenon
<1> QED
  BY <1>2, <1>3, <1>6, <1>7 DEF a, d


(* The idle packet, and the reset packet of the programming track: it is    *)
(* built like an instruction but says "reset" to every decoder.             *)
LEMMA IdleHears ==
  ASSUME NEW junk
  PROVE  Heard(Bitstream(IdlePacket, junk), FALSE) = Said(<<"loco", 255>>, "idle", << >>)
<1> DEFINE b == <<255, 0>>
<1>1. IdlePacket.kind = "idle" /\ IdlePacket.data = <<0>>
  BY DEF IdlePacket, DCCPacket
<1>2. <<255>> \o <<0>> = b
  <2>1. 255 \in Bytes /\ 0 \in Bytes
    BY DEF Bytes
  <2> QED
    BY <2>1, Concat2
<1>3. Bitstream(IdlePacket, junk) = Closed(b)
  BY <1>1, <1>2 DEF Bitstream, AddressBytes, AccessoryKinds
<1>4. b \in Seq(Bytes) /\ 1 <= Len(b) /\ Len(b) <= 5
  BY DEF Bytes
<1>5. Addressed(b, FALSE) = Said(<<"loco", 255>>, "idle", << >>)
  <2>1. b[1] = 255 /\ 255 \notin Short /\ 255 \notin Accessory /\ 255 \notin Long
    BY DEF Short, Accessory, Long
  <2> QED
    BY <2>1, Zenon DEF Addressed
<1> HIDE DEF b
<1> QED
  BY <1>3, <1>4, <1>5, HeardInFull

LEMMA ResetHears ==
  ASSUME NEW junk
  PROVE  Heard(Bitstream(DCCPacket(0, "ops_mode", <<0>>), junk), FALSE)
           = Said(<<"loco", 0>>, "reset", << >>)
<1> DEFINE p == DCCPacket(0, "ops_mode", <<0>>)
           b == <<0, 0>>
<1>1. p.kind = "ops_mode" /\ p.address = 0 /\ p.data = <<0>>
  BY DEF DCCPacket
<1>2. And(0, 127) = 0
  BY Masks
<1>3. <<0>> \o <<0>> = b
  <2>1. 0 \in Bytes
    BY DEF Bytes
  <2> QED
    BY <2>1, Concat2
<1>4. Bitstream(p, junk) = Closed(b)
  BY <1>1, <1>2, <1>3 DEF Bitstream, AddressBytes, AccessoryKinds
<1>5. b \in Seq(Bytes) /\ 1 <= Len(b) /\ Len(b) <= 5 /\ b[1] = 0 /\ Tail(b) = <<0>> /\ b # <<255, 0>>
  BY DEF Bytes
<1> HIDE DEF b
<1>6. 0 \in Short
  BY DEF Short
<1>7. Addressed(b, FALSE) = Instruction(<<"loco", 0>>, <<0>>)
  BY <1>5, <1>6, FirstByteTells
<1>8. Heard(Closed(b), FALSE) = Addressed(b, FALSE)
  BY <1>5, HeardInFull
<1> QED
  BY <1>4, <1>7, <1>8, OneByte

-----------------------------------------------------------------------------
(***************************************************************************)
(* The inductive invariant: the packet is one whose bytes say the order.   *)
(***************************************************************************)

Service(p, o) == p.kind = "ops_mode" /\ o.what # "reset"

Right(p, o) == \A junk \in Uninitialised : Heard(Bitstream(p, junk), Service(p, o)) = o

IInv ==
  /\ TrntFormat \in Formats
  /\ rawbytes # << >> => \E junk \in Uninitialised : rawbytes = Bitstream(packet, junk)
  /\ ordered.what \notin {"aspect", "write_bit"} => Right(packet, ordered)
  /\ ordered.what = "aspect" /\ Uninitialised = {0} => Right(packet, ordered)


LEMMA SaidFields ==
  \A to, what, value : Said(to, what, value).what = what
BY DEF Said

LEMMA PacketFields ==
  \A a, kind, data : DCCPacket(a, kind, data).kind = kind
BY DEF DCCPacket

LEMMA LocoRight ==
  ASSUME NEW a \in LocoAddresses, NEW kind, LocoKind(kind),
         NEW data \in Seq(Bytes), 1 <= Len(data), Len(data) <= 3,
         NEW o, Instruction(<<"loco", a>>, data) = o
  PROVE  Right(DCCPacket(a, kind, data), o)
<1> DEFINE p == DCCPacket(a, kind, data)
<1>1. kind # "ops_mode"
  BY DEF LocoKind
<1>2. Service(p, o) = FALSE
  BY <1>1, PacketFields, Zenon DEF Service
<1>3. \A junk : Heard(Bitstream(p, junk), FALSE) = o
  BY LocoHears, Zenon
<1> QED
  BY <1>2, <1>3, Zenon DEF Right

LEMMA LocoKinds ==
  LocoKind("speed") /\ LocoKind("function") /\ LocoKind("pom") /\ LocoKind("e_stop")
BY DEF LocoKind, AccessoryKinds

(* One lemma for each kind of call: the packet that it makes says what the  *)
(* application asked for.                                                   *)
LEMMA SpeedRight ==
  ASSUME NEW a \in Locos, NEW s \in Speeds,
         FiveBitSpeed(a, s) \/ setSpeed128(a, s)
  PROVE  Right(packet', ordered')
<1>1. a \in LocoAddresses /\ s \in Bytes /\ 63 \in Bytes
  <2>1. 63 \in Bytes
    BY DEF Bytes
  <2> QED
    BY <2>1, LegalArguments, Zenon
<1>2. CASE FiveBitSpeed(a, s)
  <2> DEFINE data == <<FiveBits(s)>>
             o == Said(<<"loco", a>>, "speed_5_bit", <<s \div 128, s % 32>>)
  <2>1. packet' = DCCPacket(a, "speed", data) /\ ordered' = o
    BY <1>2, Zenon DEF FiveBitSpeed, Order, Make
  <2>2. data \in Seq(Bytes) /\ 1 <= Len(data) /\ Len(data) <= 3 /\ Instruction(<<"loco", a>>, data) = o
    BY <1>1, FiveBitsHeard, Data
  <2> HIDE DEF data, o
  <2> QED
    BY <1>1, <2>1, <2>2, LocoKinds, LocoRight, Zenon
<1>3. CASE setSpeed128(a, s)
  <2> DEFINE data == <<63, s>>
             o == Said(<<"loco", a>>, "speed128", <<s \div 128, s % 128>>)
  <2>1. packet' = DCCPacket(a, "speed", data) /\ ordered' = o
    BY <1>3, Zenon DEF setSpeed128, Order, Make
  <2>2. data \in Seq(Bytes) /\ 1 <= Len(data) /\ Len(data) <= 3 /\ Instruction(<<"loco", a>>, data) = o
    BY <1>1, TwoBytes, Data
  <2> HIDE DEF data, o
  <2> QED
    BY <1>1, <2>1, <2>2, LocoKinds, LocoRight, Zenon
<1> QED
  BY <1>2, <1>3

LEMMA FunctionRight ==
  ASSUME NEW a \in Locos, NEW f \in Values, NEW f2 \in Values
  PROVE  /\ \A g \in DOMAIN Groups : setFunctions(a, g, f) => Right(packet', ordered')
         /\ setLocoFuncBinary(a, f, f2) => Right(packet', ordered')
<1>1. a \in LocoAddresses /\ f \in Bytes /\ f2 \in Bytes
  BY LegalArguments, Zenon
<1>2. ASSUME NEW g \in DOMAIN Groups, setFunctions(a, g, f)
      PROVE  Right(packet', ordered')
  <2> DEFINE data == FunctionData(g, f)
             o == Said(<<"loco", a>>, Groups[g], <<f % Width(g)>>)
  <2>1. packet' = DCCPacket(a, "function", data) /\ ordered' = o
    BY <1>2, Zenon DEF setFunctions, Order, Make
  <2>2. g \in 1..10
    BY DEF Groups
  <2>3. /\ data \in Seq(Bytes) /\ 1 <= Len(data) /\ Len(data) <= 3
        /\ Instruction(<<"loco", a>>, data) = o
    BY <1>1, <2>2, FunctionsHeard, Zenon
  <2> HIDE DEF data, o
  <2> QED
    BY <1>1, <2>1, <2>3, LocoKinds, LocoRight, Zenon
<1>3. ASSUME setLocoFuncBinary(a, f, f2)
      PROVE  Right(packet', ordered')
  <2> DEFINE data == BinaryData(f, f2)
             o == Said(<<"loco", a>>, "binary", <<f \div 128, f2 * 128 + (f % 128)>>)
  <2>1. packet' = DCCPacket(a, "function", data) /\ ordered' = o
    BY <1>3, Zenon DEF setLocoFuncBinary, Order, Make, BinaryData
  <2>2. /\ data \in Seq(Bytes) /\ 1 <= Len(data) /\ Len(data) <= 3
        /\ Instruction(<<"loco", a>>, data) = o
    BY <1>1, BinaryHeard
  <2> HIDE DEF data, o
  <2> QED
    BY <1>1, <2>1, <2>2, LocoKinds, LocoRight, Zenon
<1> QED
  BY <1>2, <1>3

LEMMA PomRight ==
  ASSUME NEW a \in Locos, NEW cv \in CVs
  PROVE  /\ \A v \in Values : opsProgramCV(a, cv, v) => Right(packet', ordered')
         /\ opsPOMreadCV(a, cv) => Right(packet', ordered')
<1>1. a \in LocoAddresses /\ cv \in CVNumbers
  BY LegalArguments, Zenon
<1>2. ASSUME NEW v \in Values, opsProgramCV(a, cv, v)
      PROVE  Right(packet', ordered')
  <2> DEFINE data == PomData(236, cv, v)
             o == Said(<<"loco", a>>, "write", <<cv, v>>)
  <2>1. packet' = DCCPacket(a, "pom", data) /\ ordered' = o
    BY <1>2, Zenon DEF opsProgramCV, Order, Make, PomData
  <2>2. v \in Bytes
    BY LegalArguments, Zenon
  <2>3. data \in Seq(Bytes) /\ Len(data) = 3 /\ Instruction(<<"loco", a>>, data) = o
    BY <1>1, <2>2, PomHeard
  <2> HIDE DEF data, o
  <2>4. 1 <= Len(data) /\ Len(data) <= 3
    BY <2>3
  <2> QED
    BY <1>1, <2>1, <2>3, <2>4, LocoKinds, LocoRight, Zenon
<1>3. ASSUME opsPOMreadCV(a, cv)
      PROVE  Right(packet', ordered')
  <2> DEFINE data == PomData(228, cv, 0)
             o == Said(<<"loco", a>>, "verify", <<cv, 0>>)
  <2>1. packet' = DCCPacket(a, "pom", data) /\ ordered' = o
    BY <1>3, Zenon DEF opsPOMreadCV, Order, Make, PomData
  <2>2. 0 \in Bytes
    BY DEF Bytes
  <2>3. data \in Seq(Bytes) /\ Len(data) = 3 /\ Instruction(<<"loco", a>>, data) = o
    BY <1>1, <2>2, PomHeard
  <2> HIDE DEF data, o
  <2>4. 1 <= Len(data) /\ Len(data) <= 3
    BY <2>3
  <2> QED
    BY <1>1, <2>1, <2>3, <2>4, LocoKinds, LocoRight, Zenon
<1> QED
  BY <1>2, <1>3

LEMMA AccessoryRight ==
  ASSUME TrntFormat \in Formats
  PROVE  /\ \A n \in Turnouts, pos \in 0..1, activ \in 0..1 :
              setBasicAccessoryPos(n, pos, activ) => Right(packet', ordered')
         /\ \A n \in Signals, aspect \in Aspects :
              setExtAccessoryPos(n, aspect) /\ Uninitialised = {0} => Right(packet', ordered')
<1>1. ASSUME NEW n \in Turnouts, NEW pos \in 0..1, NEW activ \in 0..1,
             setBasicAccessoryPos(n, pos, activ)
      PROVE  Right(packet', ordered')
  <2> DEFINE out == n + TrntFormat
             p == DCCPacket(out \div 4, "basic_accessory", <<Or(Or((out % 4) * 2, pos), activ * 8)>>)
             o == Said(<<"turnout", out>>, "position", <<pos, activ>>)
  <2>1. packet' = p /\ ordered' = o
    BY <1>1 DEF setBasicAccessoryPos, Make, Decoder, Port
  <2>2. out \in Outputs
    BY LegalArguments, Zenon
  <2> HIDE DEF out
  <2>3. \A junk : Heard(Bitstream(p, junk), FALSE) = o
    BY <1>1, <2>2, TurnoutHears, Zenon
  <2>4. Service(p, o) = FALSE
    BY DEF Service, DCCPacket
  <2> HIDE DEF p, o
  <2> QED
    BY <2>1, <2>3, <2>4, Zenon DEF Right
<1>2. ASSUME NEW n \in Signals, NEW aspect \in Aspects, setExtAccessoryPos(n, aspect),
             Uninitialised = {0}
      PROVE  Right(packet', ordered')
  <2> DEFINE out == n + TrntFormat
             p == DCCPacket(out \div 4, "extended_accessory", <<Or((out % 4) * 2, 1), aspect>>)
             o == Said(<<"signal", out>>, "aspect", <<aspect>>)
  <2>1. packet' = p /\ ordered' = o
    BY <1>2 DEF setExtAccessoryPos, Order, Make, Decoder, Port
  <2>2. out \in Outputs /\ aspect \in Bytes
    BY LegalArguments, Zenon
  <2> HIDE DEF out
  <2>3. Heard(Bitstream(p, 0), FALSE) = o
    BY <2>2, SignalHears, Zenon
  <2>4. Service(p, o) = FALSE
    BY DEF Service, DCCPacket
  <2> HIDE DEF p, o
  <2> QED
    BY <1>2, <2>1, <2>3, <2>4 DEF Right
<1> QED
  BY <1>1, <1>2

LEMMA ServiceRight ==
  ASSUME ServiceOrder
  PROVE  Right(packet', ordered')
<1>1. PICK cv \in CVs :
        \/ \E v \in Values : opsWriteCV(cv, v)
        \/ \E v \in Values : opsVerifyCV(cv, v)
        \/ \E bit \in 0..7, on \in 0..1 : opsReadCV(cv, bit, on)
  BY DEF ServiceOrder
<1>2. cv \in CVNumbers
  BY LegalArguments, Zenon
<1>3. ASSUME NEW p, NEW o, p.kind = "ops_mode", o.what # "reset",
             packet' = p, ordered' = o,
             \A junk : Heard(Bitstream(p, junk), TRUE) = o
      PROVE  Right(packet', ordered')
  <2>1. Service(p, o) = TRUE
    BY <1>3, Zenon DEF Service
  <2> QED
    BY <1>3, <2>1, Zenon DEF Right
<1>4. ASSUME NEW v \in Values, opsWriteCV(cv, v)
      PROVE  Right(packet', ordered')
  <2> DEFINE p == ServicePacket(124, cv, v)
             o == Said(Rails, "write", <<cv, v>>)
  <2>1. packet' = p /\ ordered' = o
    BY <1>4, Zenon DEF opsWriteCV, Order, Make, Rails, ServicePacket
  <2>2. v \in Bytes
    BY LegalArguments, Zenon
  <2>3. \A junk : Heard(Bitstream(p, junk), TRUE) = o
    BY <1>2, <2>2, ServiceCallsHeard, ZenonT(60)
  <2>4. p.kind = "ops_mode" /\ o.what # "reset"
    BY DEF ServicePacket, DCCPacket, Said
  <2> HIDE DEF p, o
  <2> QED
    BY <1>3, <2>1, <2>3, <2>4, Zenon
<1>5. ASSUME NEW v \in Values, opsVerifyCV(cv, v)
      PROVE  Right(packet', ordered')
  <2> DEFINE p == ServicePacket(116, cv, v)
             o == Said(Rails, "verify", <<cv, v>>)
  <2>1. packet' = p /\ ordered' = o
    BY <1>5, Zenon DEF opsVerifyCV, Order, Make, Rails, ServicePacket
  <2>2. v \in Bytes
    BY LegalArguments, Zenon
  <2>3. \A junk : Heard(Bitstream(p, junk), TRUE) = o
    BY <1>2, <2>2, ServiceCallsHeard, ZenonT(60)
  <2>4. p.kind = "ops_mode" /\ o.what # "reset"
    BY DEF ServicePacket, DCCPacket, Said
  <2> HIDE DEF p, o
  <2> QED
    BY <1>3, <2>1, <2>3, <2>4, Zenon
<1>6. ASSUME NEW bit \in 0..7, NEW on \in 0..1, opsReadCV(cv, bit, on)
      PROVE  Right(packet', ordered')
  <2> DEFINE v == Or(Or(224, bit), on * 8)
             p == ServicePacket(120, cv, v)
             o == Said(Rails, "verify_bit", <<cv, on * 8 + bit>>)
  <2>1. packet' = p /\ ordered' = o
    BY <1>6, Zenon DEF opsReadCV, Order, Make, Rails, ServicePacket
  <2>2. v \in Bytes /\ v \in 224..239 /\ v % 16 = on * 8 + bit
    <3>1. v = 224 + bit + on * 8
      BY Joins
    <3> QED
      BY <3>1 DEF Bytes
  <2> HIDE DEF v
  <2>3. \A junk : Heard(Bitstream(p, junk), TRUE) = Said(Rails, "verify_bit", <<cv, v % 16>>)
    BY <1>2, <2>2, ServiceCallsHeard, ZenonT(60)
  <2>4. \A junk : Heard(Bitstream(p, junk), TRUE) = o
    BY <2>2, <2>3, Zenon
  <2>5. p.kind = "ops_mode" /\ o.what # "reset"
    BY DEF ServicePacket, DCCPacket, Said
  <2> HIDE DEF p, o
  <2> QED
    BY <1>3, <2>1, <2>4, <2>5, Zenon
<1> QED
  BY <1>1, <1>4, <1>5, <1>6, Zenon

LEMMA BroadcastRight ==
  ASSUME opsDecoderReset \/ eStop
  PROVE  Right(packet', ordered')
<1>1. CASE opsDecoderReset
  <2> DEFINE p == DCCPacket(0, "ops_mode", <<0>>)
             o == Said(<<"loco", 0>>, "reset", << >>)
  <2>1. packet' = p /\ ordered' = o
    BY <1>1, Zenon DEF opsDecoderReset, Order, Make
  <2>2. \A junk : Heard(Bitstream(p, junk), FALSE) = o
    BY ResetHears, Zenon
  <2>3. Service(p, o) = FALSE
    BY DEF Service, Said
  <2> HIDE DEF p, o
  <2> QED
    BY <2>1, <2>2, <2>3, Zenon DEF Right
<1>2. CASE eStop
  <2> DEFINE o == Said(<<"loco", 0>>, "speed_5_bit", <<1, 1>>)
  <2>1. packet' = DCCPacket(0, "e_stop", <<97>>) /\ ordered' = o
    BY <1>2, Zenon DEF eStop, Order, Make
  <2>2. 0 \in LocoAddresses /\ <<97>> \in Seq(Bytes) /\ 1 <= Len(<<97>>) /\ Len(<<97>>) <= 3
    BY DEF LocoAddresses, Bytes
  <2>3. Instruction(<<"loco", 0>>, <<97>>) = Said(<<"loco", 0>>, "speed_5_bit", <<Direction(97), 97 % 32>>)
    <3>1. 97 \in 64..127
      OBVIOUS
    <3> QED
      BY <3>1, OneByte
  <2>4. Direction(97) = 1 /\ 97 % 32 = 1
    BY DEF Direction
  <2>5. Instruction(<<"loco", 0>>, <<97>>) = o
    BY <2>3, <2>4
  <2> HIDE DEF o
  <2> QED
    BY <2>1, <2>2, <2>5, LocoKinds, LocoRight, Zenon
<1> QED
  BY <1>1, <1>2


(* Every order makes a packet from the idle one, and getBitstream() its     *)
(* bytes; nothing else changes the packet.                                  *)
LEMMA MakeKeeps ==
  ASSUME IInv, NEW p, NEW o, Make(p, o),
         ordered'.what \notin {"aspect", "write_bit"} => Right(packet', ordered'),
         ordered'.what = "aspect" /\ Uninitialised = {0} => Right(packet', ordered')
  PROVE  IInv'
<1>1. TrntFormat' = TrntFormat /\ rawbytes' = << >>
  BY Zenon DEF Make
<1>2. TrntFormat' \in Formats
  BY <1>1, Zenon DEF IInv
<1> QED
  BY <1>1, <1>2, Zenon DEF IInv

LEMMA InvInit ==
  ASSUME Init
  PROVE  IInv
<1>1. /\ TrntFormat \in Formats /\ rawbytes = << >> /\ packet = IdlePacket
      /\ ordered = Said(<<"loco", 255>>, "idle", << >>)
  BY Zenon DEF Init
<1>2. Service(packet, ordered) = FALSE
  BY <1>1 DEF Service, IdlePacket, DCCPacket
<1>3. Right(packet, ordered)
  BY <1>1, <1>2, IdleHears, Zenon DEF Right
<1> QED
  BY <1>1, <1>3, Zenon DEF IInv

LEMMA InvStep ==
  ASSUME IInv, [Next]_vars
  PROVE  IInv'
<1>0. TrntFormat \in Formats
  BY Zenon DEF IInv
<1>1. ASSUME Right(packet', ordered'), NEW p, NEW o, Make(p, o)
      PROVE  IInv'
  BY <1>1, MakeKeeps, Zenon
<1>2. CASE LocoOrder
  <2>1. PICK a \in Locos :
          \/ \E s \in Speeds : FiveBitSpeed(a, s)
          \/ \E s \in Speeds : setSpeed128(a, s)
          \/ \E g \in DOMAIN Groups, f \in Values : setFunctions(a, g, f)
          \/ \E low \in Values, high \in Values : setLocoFuncBinary(a, low, high)
          \/ \E cv \in CVs, v \in Values : opsProgramCV(a, cv, v)
          \/ \E cv \in CVs : opsPOMreadCV(a, cv)
    BY <1>2, Zenon DEF LocoOrder, setSpeed14, setSpeed28
  <2>2. ASSUME NEW s \in Speeds, FiveBitSpeed(a, s)
        PROVE  IInv'
    <3>1. Right(packet', ordered')
      BY <2>2, SpeedRight, Zenon
    <3> QED
      BY <1>1, <2>2, <3>1, Zenon DEF FiveBitSpeed, Order
  <2>3. ASSUME NEW s \in Speeds, setSpeed128(a, s)
        PROVE  IInv'
    <3>1. Right(packet', ordered')
      BY <2>3, SpeedRight, Zenon
    <3> QED
      BY <1>1, <2>3, <3>1, Zenon DEF setSpeed128, Order
  <2>4. ASSUME NEW g \in DOMAIN Groups, NEW f \in Values, setFunctions(a, g, f)
        PROVE  IInv'
    <3>1. Right(packet', ordered')
      BY <2>4, FunctionRight, Zenon
    <3> QED
      BY <1>1, <2>4, <3>1, Zenon DEF setFunctions, Order
  <2>5. ASSUME NEW low \in Values, NEW high \in Values, setLocoFuncBinary(a, low, high)
        PROVE  IInv'
    <3>1. Right(packet', ordered')
      BY <2>5, FunctionRight, Zenon
    <3> QED
      BY <1>1, <2>5, <3>1, Zenon DEF setLocoFuncBinary, Order
  <2>6. ASSUME NEW cv \in CVs, NEW v \in Values, opsProgramCV(a, cv, v)
        PROVE  IInv'
    <3>1. Right(packet', ordered')
      BY <2>6, PomRight, Zenon
    <3> QED
      BY <1>1, <2>6, <3>1, Zenon DEF opsProgramCV, Order
  <2>7. ASSUME NEW cv \in CVs, opsPOMreadCV(a, cv)
        PROVE  IInv'
    <3>1. Right(packet', ordered')
      BY <2>7, PomRight, Zenon
    <3> QED
      BY <1>1, <2>7, <3>1, Zenon DEF opsPOMreadCV, Order
  <2> QED
    BY <2>1, <2>2, <2>3, <2>4, <2>5, <2>6, <2>7, Zenon
<1>3. CASE PomBitOrder
  <2>1. PICK a \in Locos, cv \in CVs, bit \in 0..7, on \in 0..1 :
          opsPOMwriteBit(a, cv, bit, on)
    BY <1>3, Zenon DEF PomBitOrder
  <2> DEFINE o == Said(<<"loco", a>>, "write_bit", <<cv, on * 8 + bit>>)
  <2>2. PICK p : Make(p, o)
    BY <2>1, Zenon DEF opsPOMwriteBit, Order
  <2>3. ordered' = o
    BY <2>2, Zenon DEF Make
  <2>4. ordered'.what = "write_bit"
    BY <2>3, SaidFields, Zenon
  <2>5. "write_bit" # "aspect"
    OBVIOUS
  <2> QED
    BY <2>2, <2>4, <2>5, MakeKeeps, Zenon
<1>4. CASE AccessoryOrders
  <2>1. ASSUME NEW n \in Turnouts, NEW pos \in 0..1, NEW activ \in 0..1,
               setBasicAccessoryPos(n, pos, activ)
        PROVE  IInv'
    <3>1. Right(packet', ordered')
      BY <1>0, <2>1, AccessoryRight, Zenon
    <3> QED
      BY <1>1, <2>1, <3>1 DEF setBasicAccessoryPos
  <2>2. ASSUME NEW n \in Signals, NEW aspect \in Aspects, setExtAccessoryPos(n, aspect)
        PROVE  IInv'
    <3> DEFINE o == Said(<<"signal", n + TrntFormat>>, "aspect", <<aspect>>)
    <3>1. PICK p : Make(p, o)
      BY <2>2 DEF setExtAccessoryPos, Order
    <3>2. ordered'.what = "aspect"
      BY <3>1, SaidFields, Zenon DEF Make
    <3>3. Uninitialised = {0} => Right(packet', ordered')
      BY <1>0, <2>2, AccessoryRight, Zenon
    <3> QED
      BY <3>1, <3>2, <3>3, MakeKeeps, Zenon
  <2> QED
    BY <1>4, <2>1, <2>2, Zenon DEF AccessoryOrders
<1>5. CASE ServiceOrder
  <2>1. PICK p, o : Make(p, o)
    BY <1>5, Zenon DEF ServiceOrder, opsWriteCV, opsVerifyCV, opsReadCV, Order
  <2> QED
    BY <1>1, <1>5, <2>1, ServiceRight, Zenon
<1>6. CASE opsDecoderReset \/ eStop
  <2>1. PICK p, o : Make(p, o)
    BY <1>6, Zenon DEF opsDecoderReset, eStop, Order
  <2> QED
    BY <1>1, <1>6, <2>1, BroadcastRight, Zenon
<1>7. CASE getBitstream
  BY <1>7, Zenon DEF IInv, getBitstream
<1>8. CASE UNCHANGED vars
  BY <1>8, Zenon DEF IInv, vars
<1> QED
  BY <1>2, <1>3, <1>4, <1>5, <1>6, <1>7, <1>8, Zenon DEF Next

(* Whatever the application orders within LegalArguments, the decoder meant *)
(* and no other understands the bytes of the packet, and understands what   *)
(* was ordered: for every address, speed, function, turnout, CV and value.  *)
THEOREM OrderIsUnderstood == Spec => []OrderUnderstood
<1>1. ASSUME IInv
      PROVE  OrderUnderstood
  BY <1>1, Zenon DEF IInv, OrderUnderstood, Converted, Understood, Right, Service
<1>2. IInv /\ [Next]_vars => IInv'
  BY InvStep
<1> QED
  BY <1>1, <1>2, InvInit, PTL DEF Spec

(* An aspect is understood too when the stack happens to hold 0 where       *)
(* dccPacket[1] will be: the byte that getBitstream() does not assign for   *)
(* the extended form is all that is wrong with it.                          *)
THEOREM SignalIsUnderstood ==
  ASSUME Uninitialised = {0}
  PROVE  Spec => []SignalUnderstood
<1>1. ASSUME IInv
      PROVE  SignalUnderstood
  BY <1>1, Zenon DEF IInv, SignalUnderstood, Converted, Understood, Right, Service
<1>2. IInv /\ [Next]_vars => IInv'
  BY InvStep
<1> QED
  BY <1>1, <1>2, InvInit, PTL DEF Spec

-----------------------------------------------------------------------------
(***************************************************************************)
(* The throttle.  What the decoder has heard is told by where the interrupt*)
(* stands; a byte of the message counts from when it begins to be sent.    *)
(***************************************************************************)

AByte == SUBSET (0..7)
FirstByte == <<Bits(255), Bits(locoAdr)>>
MessageLength == <<3, 4>>

(* Byte k of the message that is sent.                                      *)
FitsByte(b, k) ==
  /\ b \in AByte
  /\ k = 1 => b = FirstByte[msgIndex]
  /\ k = 3 /\ msgIndex = 2 => b \in Orders

HeardBytes(n) ==
  /\ ear.bytes \in Seq(AByte) /\ Len(ear.bytes) = n
  /\ \A k \in 1..n : FitsByte(ear.bytes[k], k)

HeardOnes(n) == ~ear.within /\ ear.ones = IF n < DecoderPreamble THEN n ELSE DecoderPreamble

(* Has heard byte n in full.                                                *)
HeardByte(n) == ear.within /\ ear.bits = 8 /\ HeardBytes(n - 1) /\ FitsByte(ear.byte, n)

(* Has heard the bits above bit c of byte n, which is being sent.           *)
HearsByte(n, c) ==
  /\ ear.within /\ ear.bits = 7 - c /\ HeardBytes(n - 1)
  /\ FitsByte(outbyte, n) /\ ear.byte = {i \in outbyte : i > c}

(* Has heard n ones of the preamble; the first also ends the packet before. *)
AfterOnes(n) == IF n = 0 THEN HeardOnes(0) \/ HeardByte(MessageLength[msgIndex]) ELSE HeardOnes(n)

(* Before byte n: has heard the preamble, or the byte before.               *)
Before(n) == IF n = 1 THEN HeardOnes(PREAMBLE_COUNT) ELSE HeardByte(n - 1)

BitOf(c) == IF c \in outbyte THEN 1 ELSE 0

InPacket == byteIndex \in 1..MessageLength[msgIndex]

Sent ==
  /\ state = "PREAMBLE" => preamble_count > 0 /\ AfterOnes(PREAMBLE_COUNT - preamble_count)
  /\ state = "SEPERATOR" => InPacket /\ Before(byteIndex)
  /\ state = "SENDBYTE" => InPacket /\ HearsByte(byteIndex, cbit)

PreambleOnItsWay ==
  /\ preamble_count > 0
  /\ IF preamble_count = PREAMBLE_COUNT
     THEN HearsByte(MessageLength[msgIndex], 0) /\ flag = BitOf(0)
     ELSE AfterOnes(PREAMBLE_COUNT - preamble_count - 1) /\ flag = 1

SeparatorOnItsWay ==
  /\ InPacket
  /\ IF byteIndex = 1
     THEN HeardOnes(PREAMBLE_COUNT - 1) /\ flag = 1
     ELSE HearsByte(byteIndex - 1, 0) /\ flag = BitOf(0)

ByteOnItsWay ==
  /\ InPacket
  /\ IF cbit = 7
     THEN Before(byteIndex) /\ FitsByte(outbyte, byteIndex) /\ flag = 0
     ELSE HearsByte(byteIndex, cbit + 1) /\ flag = BitOf(cbit + 1)

OnItsWay ==
  /\ state = "PREAMBLE" => PreambleOnItsWay
  /\ state = "SEPERATOR" => SeparatorOnItsWay
  /\ state = "SENDBYTE" => ByteOnItsWay

MessageOK == \E d \in Orders : msg = <<IdleMessage, LocoMessage(d)>>
EarType == [ones : Nat, bits : 0..8, byte : AByte, bytes : Seq(AByte), within : BOOLEAN]

ThrottleInv ==
  /\ ThrottleTypeOK /\ MessageOK /\ ear \in EarType /\ NeverMisled
  /\ IF every_second_isr THEN OnItsWay ELSE Sent

LEMMA MessageBytes ==
  /\ Bits(locoAdr) \in AByte /\ Bits(63) \in AByte /\ Bits(255) \in AByte
  /\ Bits(locoAdr) # Bits(255)
  /\ \A a, b \in AByte : Xor(a, b) \in AByte
<1>1. \A n : Bits(n) \in AByte
  BY DEF Bits, AByte
<1>2. 0 \in Bits(255) /\ 0 \notin Bits(locoAdr)
  BY DEF Bits, Weight, locoAdr
<1>3. \A a, b \in AByte : Xor(a, b) \in AByte
  BY DEF Xor, AByte
<1> QED
  BY <1>1, <1>2, <1>3

(* The throttle makes orders only.                                          *)
LEMMA OrderType ==
  /\ Orders \subseteq AByte
  /\ \A speed \in KnobPosition \union {0}, forward \in BOOLEAN : DataByte(speed, forward) \in Orders
<1>1. Orders \subseteq AByte
  BY DEF Orders, Bits, AByte
<1>2. Bits(0) = {}
  BY DEF Bits, Weight
<1>3. ASSUME NEW speed \in KnobPosition \union {0}, NEW forward \in BOOLEAN
      PROVE  DataByte(speed, forward) \in Orders
  <2> DEFINE k == IF speed = 1 THEN 0 ELSE speed
             bit == IF forward THEN {7} ELSE {}
  <2>1. DataByte(speed, forward) = Bits(k) \union bit
    BY <1>2 DEF DataByte
  <2>2. k \in (KnobPosition \ {1}) \union {0} /\ bit \in {{}, {7}}
    OBVIOUS
  <2> HIDE DEF k, bit
  <2> QED
    BY <2>1, <2>2 DEF Orders
<1> QED
  BY <1>1, <1>3

LEMMA MessageType ==
  ASSUME MessageOK, msgIndex \in 1..2, NEW k \in 1..MessageLength[msgIndex]
  PROVE  /\ Len(msg) = 2 /\ Len(msg[2]) = 4
         /\ Len(msg[msgIndex]) = MessageLength[msgIndex]
         /\ FitsByte(msg[msgIndex][k], k)
<1>1. PICK d \in Orders : msg = <<IdleMessage, LocoMessage(d)>>
  BY DEF MessageOK
<1>2. Len(msg) = 2 /\ msg[1] = IdleMessage /\ msg[2] = LocoMessage(d)
  BY <1>1
<1>3. d \in AByte
  BY OrderType
<1>4. /\ Len(IdleMessage) = 3 /\ Len(LocoMessage(d)) = 4
      /\ IdleMessage[1] = Bits(255) /\ IdleMessage[2] = {} /\ IdleMessage[3] = Bits(255)
      /\ LocoMessage(d)[1] = Bits(locoAdr) /\ LocoMessage(d)[2] = Bits(63)
      /\ LocoMessage(d)[3] = d
      /\ LocoMessage(d)[4] = Xor(Xor(Bits(locoAdr), Bits(63)), d)
  BY DEF IdleMessage, LocoMessage
<1>5. {} \in AByte
  BY DEF AByte
<1>6. CASE msgIndex = 1
  <2>1. k \in {1, 2, 3} /\ MessageLength[msgIndex] = 3 /\ FirstByte[msgIndex] = Bits(255)
    BY <1>6 DEF MessageLength, FirstByte
  <2> QED
    BY <1>2, <1>4, <1>5, <1>6, <2>1, MessageBytes DEF FitsByte
<1>7. CASE msgIndex = 2
  <2>1. k \in {1, 2, 3, 4} /\ MessageLength[msgIndex] = 4 /\ FirstByte[msgIndex] = Bits(locoAdr)
    BY <1>7 DEF MessageLength, FirstByte
  <2> QED
    BY <1>2, <1>3, <1>4, <1>7, <2>1, MessageBytes DEF FitsByte
<1> QED
  BY <1>6, <1>7

-----------------------------------------------------------------------------
(* The decoder hears the bit that flag says.                                *)
LEMMA HearOne ==
  ASSUME ear \in EarType, NEW n \in Nat, HeardOnes(n), Hear(1)
  PROVE  ear' \in EarType /\ HeardOnes(n + 1)' /\ heard' = heard
<1>1. ear' = [ear EXCEPT !.ones = IF @ < DecoderPreamble THEN @ + 1 ELSE @] /\ heard' = heard
  BY DEF Hear, HeardOnes
<1>2. ear' = [ear EXCEPT !.ones = IF ear.ones < DecoderPreamble THEN ear.ones + 1 ELSE ear.ones]
  BY <1>1
<1>3. ear' \in EarType /\ ear'.within = FALSE
      /\ ear'.ones = IF ear.ones < DecoderPreamble THEN ear.ones + 1 ELSE ear.ones
  BY <1>2 DEF EarType, HeardOnes
<1> QED
  BY <1>1, <1>3, PreambleAssumption DEF HeardOnes

LEMMA SilenceType == Silence \in EarType /\ Silence.ones = 0 /\ Silence.within = FALSE
                     /\ Silence.bits = 0 /\ Silence.bytes = << >> /\ Silence.byte = {}
  BY DEF Silence, EarType, AByte

LEMMA HearEnd ==
  ASSUME ear \in EarType, msgIndex \in 1..2, NeverMisled, HeardByte(MessageLength[msgIndex]), Hear(1)
  PROVE  ear' \in EarType /\ HeardOnes(1)' /\ NeverMisled'
<1> DEFINE sent == Append(ear.bytes, ear.byte)
<1>1. /\ ear' = [Silence EXCEPT !.ones = 1]
      /\ heard' = IF sent[1] = Bits(locoAdr) /\ Checked(sent) THEN <<sent[3]>> ELSE heard
  <2>1. ear.within /\ ear.bits = 8 /\ ~(ear.bits < 8) /\ 1 # 0
    BY DEF HeardByte
  <2> QED
    BY <2>1, Zenon DEF Hear
<1>2. ear' \in EarType /\ HeardOnes(1)'
  BY <1>1, SilenceType, PreambleAssumption DEF EarType, HeardOnes
<1>3. CASE msgIndex = 1
  <2>1. sent[1] = Bits(255)
    BY <1>3 DEF HeardByte, HeardBytes, FitsByte, MessageLength, FirstByte, EarType
  <2> QED
    BY <1>1, <1>2, <2>1, MessageBytes DEF NeverMisled
<1>4. CASE msgIndex = 2
  <2>1. sent[3] \in Orders
    BY <1>4 DEF HeardByte, HeardBytes, FitsByte, MessageLength, FirstByte, EarType
  <2> HIDE DEF sent
  <2> QED
    BY <1>1, <1>2, <2>1 DEF NeverMisled
<1> QED
  BY <1>3, <1>4

LEMMA NoBitAbove ==
  ASSUME NEW b \in AByte
  PROVE  {i \in b : i > 7} = {} /\ {i \in b : i > -1} = b
<1>1. \A i \in b : i \in 0..7
  BY DEF AByte
<1>2. \A i \in b : ~(i > 7) /\ i > -1
  BY <1>1
<1> QED
  BY <1>2, Zenon

LEMMA HearFirst ==
  ASSUME ear \in EarType, UNCHANGED bitState, HeardOnes(PREAMBLE_COUNT), FitsByte(outbyte, 1), Hear(0)
  PROVE  ear' \in EarType /\ HearsByte(1, 7)' /\ heard' = heard
<1>1. ear' = [Silence EXCEPT !.within = TRUE] /\ heard' = heard
  <2>1. ear.ones = DecoderPreamble /\ ~ear.within /\ 0 # 1
    BY PreambleAssumption DEF HeardOnes
  <2>2. (ear.ones = DecoderPreamble) = TRUE
    BY <2>1
  <2>3. ear' = [Silence EXCEPT !.within = (ear.ones = DecoderPreamble)] /\ heard' = heard
    BY <2>1, Zenon DEF Hear
  <2> QED
    BY <2>2, <2>3, Zenon
<1>2. /\ ear' \in EarType /\ ear'.within /\ ear'.bits = 0 /\ ear'.bytes = << >> /\ ear'.byte = {}
  BY <1>1, SilenceType DEF EarType
<1>3. outbyte' = outbyte /\ msgIndex' = msgIndex
  BY DEF bitState
<1>4. FitsByte(outbyte, 1)' /\ {i \in outbyte : i > 7} = {}
  BY <1>3, NoBitAbove DEF FitsByte
<1>5. HeardBytes(0)'
  BY <1>2 DEF HeardBytes
<1> QED
  BY <1>1, <1>2, <1>3, <1>4, <1>5 DEF HearsByte

LEMMA HearNext ==
  ASSUME ear \in EarType, UNCHANGED bitState, NEW n \in 2..4, HeardByte(n - 1), FitsByte(outbyte, n), Hear(0)
  PROVE  ear' \in EarType /\ HearsByte(n, 7)' /\ heard' = heard
<1>1. /\ ear' = [ear EXCEPT !.bits = 0, !.byte = {}, !.bytes = Append(@, ear.byte)]
      /\ heard' = heard
  BY DEF Hear, HeardByte
<1>2. /\ ear' \in EarType /\ ear'.within /\ ear'.bits = 0 /\ ear'.byte = {}
      /\ ear'.bytes = Append(ear.bytes, ear.byte)
  <2>1. ear' = [ear EXCEPT !.bits = 0, !.byte = {}, !.bytes = Append(ear.bytes, ear.byte)]
    BY <1>1
  <2>2. {} \in AByte /\ 0 \in 0..8 /\ Append(ear.bytes, ear.byte) \in Seq(AByte)
    BY DEF EarType, AByte
  <2>3. ear.within
    BY DEF HeardByte
  <2> HIDE DEF AByte
  <2> QED
    BY <2>1, <2>2, <2>3 DEF EarType
<1>3. outbyte' = outbyte /\ msgIndex' = msgIndex
  BY DEF bitState
<1>4. FitsByte(outbyte, n)' /\ {i \in outbyte : i > 7} = {}
  BY <1>3, NoBitAbove DEF FitsByte
<1>5. HeardBytes(n - 1)'
  BY <1>2, <1>3 DEF HeardBytes, FitsByte, HeardByte, EarType
<1> QED
  BY <1>1, <1>2, <1>3, <1>4, <1>5 DEF HearsByte

LEMMA HearBit ==
  ASSUME ear \in EarType, UNCHANGED bitState, NEW n \in 1..4, NEW c \in 0..7, HearsByte(n, c), Hear(BitOf(c))
  PROVE  /\ ear' \in EarType /\ heard' = heard
         /\ \A d \in Nat : c = d + 1 => HearsByte(n, d)'
         /\ c = 0 => HeardByte(n)'
<1>1. /\ ear' = [ear EXCEPT !.bits = @ + 1,
                            !.byte = IF BitOf(c) = 1 THEN @ \union {7 - ear.bits} ELSE @]
      /\ heard' = heard
  BY DEF Hear, HearsByte, EarType
<1>2. outbyte' = outbyte /\ msgIndex' = msgIndex
  BY DEF bitState
<1>3. ear.bits = 7 - c /\ 7 - ear.bits = c /\ ear.byte = {i \in outbyte : i > c} /\ outbyte \in AByte
  BY DEF HearsByte, FitsByte
<1>4. (IF BitOf(c) = 1 THEN ear.byte \union {c} ELSE ear.byte) = {i \in outbyte : i > c - 1}
  <2>1. \A i \in outbyte : i \in 0..7 /\ (i > c - 1 <=> i > c \/ i = c)
    BY <1>3 DEF AByte
  <2>2. CASE c \in outbyte
    <3>1. {i \in outbyte : i > c - 1} = {i \in outbyte : i > c} \union {c}
      BY <2>1, <2>2, Zenon
    <3> QED
      BY <1>3, <2>2, <3>1 DEF BitOf
  <2>3. CASE c \notin outbyte
    <3>1. {i \in outbyte : i > c - 1} = {i \in outbyte : i > c}
      BY <2>1, <2>3, Zenon
    <3> QED
      BY <1>3, <2>3, <3>1 DEF BitOf
  <2> QED
    BY <2>2, <2>3
<1>5. /\ ear' \in EarType /\ ear'.within /\ ear'.bits = 8 - c /\ ear'.bytes = ear.bytes
      /\ ear'.byte = {i \in outbyte : i > c - 1}
  <2>1. ear' = [ear EXCEPT !.bits = ear.bits + 1,
                           !.byte = IF BitOf(c) = 1 THEN ear.byte \union {c} ELSE ear.byte]
    BY <1>1, <1>3
  <2>2. ear.bits + 1 = 8 - c /\ 8 - c \in 0..8
    BY <1>3
  <2>3. ear' = [ear EXCEPT !.bits = 8 - c, !.byte = {i \in outbyte : i > c - 1}]
    BY <1>4, <2>1, <2>2, Zenon
  <2>5. {i \in outbyte : i > c - 1} \in AByte
    BY <1>3, Zenon DEF AByte
  <2>4. ear.within
    BY DEF HearsByte
  <2> QED
    BY <2>2, <2>3, <2>4, <2>5 DEF EarType
<1>6. HeardBytes(n - 1)' /\ FitsByte(outbyte, n)'
  BY <1>2, <1>5 DEF HeardBytes, FitsByte, HearsByte
<1>7. ASSUME NEW d \in Nat, c = d + 1 PROVE HearsByte(n, d)'
  <2>1. c - 1 = d /\ 8 - c = 7 - d
    BY <1>7
  <2> QED
    BY <1>2, <1>5, <1>6, <2>1 DEF HearsByte
<1>8. ASSUME c = 0 PROVE HeardByte(n)'
  <2>1. {i \in outbyte : i > c - 1} = outbyte
    BY <1>3, <1>8, NoBitAbove
  <2> QED
    BY <1>2, <1>5, <1>6, <1>8, <2>1 DEF HeardByte, FitsByte
<1> QED
  BY <1>1, <1>5, <1>7, <1>8

-----------------------------------------------------------------------------
LEMMA MessageSize ==
  ASSUME NEW d, NEW m, m = <<IdleMessage, LocoMessage(d)>>
  PROVE  Len(m) = 2 /\ Len(m[2]) = 4
BY DEF LocoMessage

(* Where the decoder stands in the message that the interrupt sends.        *)
LEMMA SamePlace ==
  ASSUME ear' = ear, msgIndex' = msgIndex
  PROVE  /\ \A n : HeardOnes(n)' <=> HeardOnes(n)
         /\ \A n : HeardByte(n)' <=> HeardByte(n)
         /\ \A n : AfterOnes(n)' <=> AfterOnes(n)
         /\ \A n : Before(n)' <=> Before(n)
<1>1. \A n : HeardOnes(n)' <=> HeardOnes(n)
  BY DEF HeardOnes
<1>2. \A n : HeardByte(n)' <=> HeardByte(n)
  BY DEF HeardByte, HeardBytes, FitsByte
<1> QED
  BY <1>1, <1>2 DEF AfterOnes, Before

LEMMA SameByte ==
  ASSUME ear' = ear, msgIndex' = msgIndex, outbyte' = outbyte
  PROVE  /\ \A n, c : HearsByte(n, c)' <=> HearsByte(n, c)
         /\ \A n : FitsByte(outbyte, n)' <=> FitsByte(outbyte, n)
         /\ \A c : BitOf(c)' = BitOf(c)
BY DEF HearsByte, HeardBytes, FitsByte, BitOf

LEMMA NothingHeard ==
  ASSUME UNCHANGED <<bitState, ear>>
  PROVE  (Sent => Sent') /\ (OnItsWay => OnItsWay')
<1>1. /\ flag' = flag /\ state' = state /\ preamble_count' = preamble_count /\ outbyte' = outbyte
      /\ cbit' = cbit /\ msgIndex' = msgIndex /\ byteIndex' = byteIndex /\ ear' = ear
  BY DEF bitState
<1>2. Sent => Sent'
  BY <1>1, SamePlace, SameByte DEF Sent, InPacket
<1>3. OnItsWay => OnItsWay'
  BY <1>1, SamePlace, SameByte
  DEF OnItsWay, PreambleOnItsWay, SeparatorOnItsWay, ByteOnItsWay, InPacket
<1> QED
  BY <1>2, <1>3

LEMMA ThrottleInvInit == ThrottleInit => ThrottleInv
<1> SUFFICES ASSUME ThrottleInit PROVE ThrottleInv
  OBVIOUS
<1>1. MessageOK /\ Len(msg[2]) = 4
  <2>1. DataByte(knob, switch) \in Orders
    BY OrderType DEF ThrottleInit
  <2>2. msg = <<IdleMessage, LocoMessage(DataByte(knob, switch))>>
    BY DEF ThrottleInit
  <2>3. Len(msg[2]) = 4
    BY <2>2, MessageSize
  <2> QED
    BY <2>1, <2>2, <2>3 DEF MessageOK
<1>2. ThrottleTypeOK
  <2>1. /\ knob \in KnobPosition /\ switch \in BOOLEAN /\ locoSpeed \in {knob, 0} /\ dir = switch
        /\ last_locoSpeed = knob /\ last_dir = switch /\ changed = FALSE /\ loop = "readSpeed"
        /\ every_second_isr = FALSE /\ flag = 0 /\ state = "PREAMBLE" /\ preamble_count = PREAMBLE_COUNT
        /\ outbyte = {} /\ cbit = 7 /\ msgIndex = 1 /\ byteIndex = 1
    BY DEF ThrottleInit
  <2>2. {switch, dir, last_dir, changed, every_second_isr} \subseteq BOOLEAN
    BY <2>1, Zenon
  <2>3. /\ locoSpeed \in KnobPosition \union {0} /\ outbyte \subseteq 0..7
        /\ loop \in {"readSpeed", "readDirection", "assemble"}
        /\ state \in {"PREAMBLE", "SEPERATOR", "SENDBYTE"}
    BY <2>1, Zenon
  <2>4. /\ preamble_count \in 0..PREAMBLE_COUNT /\ cbit \in 0..7 /\ flag \in 0..1
        /\ msgIndex \in 1..2 /\ byteIndex \in 1..Len(msg[2]) + 1
    BY <1>1, <2>1, PreambleAssumption
  <2> QED
    BY <2>1, <2>2, <2>3, <2>4, Zenon DEF ThrottleTypeOK
<1>3. ear \in EarType /\ NeverMisled
  BY SilenceType DEF ThrottleInit, NeverMisled
<1>4. Sent
  BY SilenceType, PreambleAssumption DEF ThrottleInit, Sent, AfterOnes, HeardOnes
<1> QED
  BY <1>1, <1>2, <1>3, <1>4 DEF ThrottleInv, ThrottleInit

(* loop() and the hardware do not touch what the interrupt sends now.       *)
LEMMA LoopStep ==
  ASSUME ThrottleInv, Loop \/ Turn \/ UNCHANGED throttleVars
  PROVE  ThrottleInv'
<1> USE DEF ThrottleInv
<1>1. UNCHANGED <<bitState, ear, heard, every_second_isr>>
  BY DEF Loop, ReadSpeed, ReadDirection, assemble_dcc_msg, Turn, throttleVars, isr, decoder
<1>2. MessageOK' /\ Len(msg[2]) = 4 /\ Len(msg[2])' = 4
  <2>1. PICK d \in Orders : msg = <<IdleMessage, LocoMessage(d)>>
    BY DEF MessageOK
  <2>2. CASE msg' = msg
    BY <2>1, <2>2, MessageSize DEF MessageOK
  <2>3. CASE assemble_dcc_msg
    <3>1. DataByte(locoSpeed, dir) \in Orders
      BY OrderType DEF ThrottleTypeOK
    <3>2. msg' = <<IdleMessage, LocoMessage(DataByte(locoSpeed, dir))>>
      BY <2>1, <2>3 DEF assemble_dcc_msg
    <3> QED
      BY <2>1, <3>1, <3>2, MessageSize DEF MessageOK
  <2> QED
    BY <2>2, <2>3 DEF Loop, ReadSpeed, ReadDirection, Turn, throttleVars
<1>3. ThrottleTypeOK'
  <2> USE DEF ThrottleTypeOK, isr, bitState
  <2>1. CASE ReadSpeed
    BY <1>2, <2>1 DEF ReadSpeed, hardware
  <2>2. CASE ReadDirection
    BY <1>2, <2>2 DEF ReadDirection, hardware
  <2>3. CASE assemble_dcc_msg
    BY <1>2, <2>3 DEF assemble_dcc_msg, hardware
  <2>4. CASE Turn
    BY <1>2, <2>4 DEF Turn, throttle
  <2>5. CASE UNCHANGED throttleVars
    BY <1>2, <2>5 DEF throttleVars, hardware, throttle
  <2> QED
    BY <2>1, <2>2, <2>3, <2>4, <2>5 DEF Loop
<1> QED
  BY <1>1, <1>2, <1>3, NothingHeard DEF NeverMisled

(* The first half of a bit decides it; the decoder hears it in the second.  *)
LEMMA FirstHalfStep ==
  ASSUME ThrottleInv, FirstHalf
  PROVE  ThrottleInv'
<1> USE DEF ThrottleInv
<1>1. /\ Sent /\ every_second_isr' = TRUE /\ msg' = msg /\ ear' = ear /\ heard' = heard
      /\ UNCHANGED <<hardware, throttle>>
  BY DEF FirstHalf, decoder
<1>2. msgIndex \in 1..2 /\ Len(msg) = 2 /\ Len(msg[2]) = 4 /\ Len(msg[msgIndex]) = MessageLength[msgIndex]
  BY MessageType DEF ThrottleTypeOK, MessageLength
<1>3. /\ preamble_count \in 0..PREAMBLE_COUNT /\ byteIndex \in 1..5 /\ cbit \in 0..7 /\ outbyte \subseteq 0..7
      /\ MessageLength[1] = 3 /\ MessageLength[2] = 4
  BY <1>2 DEF ThrottleTypeOK, MessageLength
<1>4. OnItsWay' /\ flag' \in 0..1
  <2>1. CASE SendPreamble
    <3>1. /\ preamble_count > 0 /\ AfterOnes(PREAMBLE_COUNT - preamble_count)
          /\ flag' = 1 /\ preamble_count' = preamble_count - 1
      BY <1>1, <2>1 DEF SendPreamble, Sent
    <3>2. CASE preamble_count = 1
      <4>1. state' = "SEPERATOR" /\ byteIndex' = 1 /\ msgIndex' \in 1..2
        BY <1>2, <2>1, <3>1, <3>2 DEF SendPreamble
      <4>2. HeardOnes(PREAMBLE_COUNT - 1)'
        BY <1>1, <3>1, <3>2, PreambleAssumption DEF AfterOnes, HeardOnes
      <4> QED
        BY <1>3, <3>1, <4>1, <4>2 DEF OnItsWay, SeparatorOnItsWay, InPacket
    <3>3. CASE preamble_count # 1
      <4>1. state' = "PREAMBLE" /\ msgIndex' = msgIndex
        BY <1>3, <2>1, <3>1, <3>3 DEF SendPreamble
      <4>2. AfterOnes(PREAMBLE_COUNT - preamble_count - 1)'
        <5>1. PREAMBLE_COUNT - preamble_count' - 1 = PREAMBLE_COUNT - preamble_count
          BY <1>3, <3>1, PreambleAssumption
        <5> QED
          BY <1>1, <3>1, <4>1, <5>1, SamePlace
      <4> QED
        BY <1>3, <3>1, <3>3, <4>1, <4>2, PreambleAssumption DEF OnItsWay, PreambleOnItsWay
    <3> QED
      BY <3>1, <3>2, <3>3
  <2>2. CASE SendSeparator
    <3>1. /\ flag' = 0 /\ state' = "SENDBYTE" /\ cbit' = 7 /\ outbyte' = msg[msgIndex][byteIndex]
          /\ msgIndex' = msgIndex /\ byteIndex' = byteIndex
          /\ InPacket /\ Before(byteIndex)
      BY <1>1, <2>2 DEF SendSeparator, Sent
    <3>2. FitsByte(outbyte, byteIndex)'
      BY <1>2, <3>1, MessageType DEF InPacket, FitsByte
    <3>3. Before(byteIndex)' /\ InPacket'
      BY <1>1, <3>1 DEF Before, InPacket, HeardOnes, HeardByte, HeardBytes, FitsByte
    <3> QED
      BY <3>1, <3>2, <3>3 DEF OnItsWay, ByteOnItsWay
  <2>3. CASE SendBit
    <3>1. /\ flag' = BitOf(cbit) /\ outbyte' = outbyte /\ msgIndex' = msgIndex
          /\ InPacket /\ HearsByte(byteIndex, cbit)
      BY <1>1, <2>3 DEF SendBit, Sent, BitOf
    <3>2. flag' \in 0..1
      BY <3>1 DEF BitOf
    <3>3. CASE cbit > 0
      <4>1. state' = "SENDBYTE" /\ cbit' = cbit - 1 /\ byteIndex' = byteIndex
        BY <2>3, <3>3 DEF SendBit
      <4>2. cbit' # 7 /\ cbit' + 1 = cbit
        BY <1>3, <4>1
      <4>3. HearsByte(byteIndex, cbit + 1)' /\ flag' = BitOf(cbit + 1)'
        BY <1>1, <3>1, <4>1, <4>2, SameByte
      <4> QED
        BY <3>1, <3>2, <4>1, <4>2, <4>3 DEF OnItsWay, ByteOnItsWay, InPacket
    <3>4. CASE cbit = 0 /\ byteIndex = MessageLength[msgIndex]
      <4>1. state' = "PREAMBLE" /\ preamble_count' = PREAMBLE_COUNT
        BY <1>2, <2>3, <3>1, <3>4 DEF SendBit, InPacket
      <4> QED
        BY <1>1, <3>1, <3>2, <3>4, <4>1, SameByte, PreambleAssumption DEF OnItsWay, PreambleOnItsWay
    <3>5. CASE cbit = 0 /\ byteIndex < MessageLength[msgIndex]
      <4>1. state' = "SEPERATOR" /\ byteIndex' = byteIndex + 1
        BY <1>2, <1>3, <2>3, <3>1, <3>5 DEF SendBit
      <4>2. byteIndex' # 1 /\ byteIndex' - 1 = byteIndex /\ InPacket'
        BY <1>2, <1>3, <3>1, <3>5, <4>1 DEF InPacket
      <4>3. HearsByte(byteIndex - 1, 0)' /\ flag' = BitOf(0)'
        BY <1>1, <3>1, <3>5, <4>2, SameByte
      <4> QED
        BY <3>2, <4>1, <4>2, <4>3 DEF OnItsWay, SeparatorOnItsWay
    <3>6. cbit > 0 \/ cbit = 0
      BY <1>3
    <3>7. byteIndex = MessageLength[msgIndex] \/ byteIndex < MessageLength[msgIndex]
      BY <1>2, <1>3, <3>1 DEF InPacket
    <3> QED
      BY <3>2, <3>3, <3>4, <3>5, <3>6, <3>7
  <2> QED
    BY <2>1, <2>2, <2>3 DEF FirstHalf
<1>5. ThrottleTypeOK'
  <2>1. knob' = knob /\ switch' = switch /\ dir' = dir /\ last_dir' = last_dir /\ changed' = changed
        /\ locoSpeed' = locoSpeed /\ last_locoSpeed' = last_locoSpeed /\ loop' = loop
    BY <1>1 DEF hardware, throttle
  <2>2. CASE SendPreamble
    <3>1. preamble_count' \in 0..PREAMBLE_COUNT
      BY <1>1, <1>3, <2>2, PreambleAssumption DEF SendPreamble, Sent
    <3>2. msgIndex' \in 1..2 /\ byteIndex' \in 1..5 /\ state' \in {"PREAMBLE", "SEPERATOR"}
      BY <1>2, <1>3, <2>2 DEF SendPreamble
    <3> QED
      BY <1>1, <1>2, <1>3, <1>4, <2>1, <2>2, <3>1, <3>2 DEF ThrottleTypeOK, SendPreamble
  <2>3. CASE SendSeparator
    <3>1. byteIndex \in 1..MessageLength[msgIndex]
      BY <1>1, <2>3 DEF SendSeparator, Sent, InPacket
    <3>2. outbyte' \subseteq 0..7
      BY <1>2, <2>3, <3>1, MessageType DEF SendSeparator, FitsByte, AByte
    <3> QED
      BY <1>1, <1>2, <1>3, <1>4, <2>1, <2>3, <3>2 DEF ThrottleTypeOK, SendSeparator
  <2>4. CASE SendBit
    <3>1. byteIndex \in 1..4
      BY <1>1, <1>2, <1>3, <2>4 DEF SendBit, Sent, InPacket
    <3>2. /\ preamble_count' \in 0..PREAMBLE_COUNT /\ cbit' \in 0..7 /\ byteIndex' \in 1..5
          /\ state' \in {"PREAMBLE", "SEPERATOR", "SENDBYTE"}
      BY <1>3, <2>4, <3>1, PreambleAssumption DEF SendBit
    <3> QED
      BY <1>1, <1>2, <1>3, <1>4, <2>1, <2>4, <3>2 DEF ThrottleTypeOK, SendBit
  <2> QED
    BY <2>2, <2>3, <2>4 DEF FirstHalf
<1>6. MessageOK' /\ NeverMisled' /\ ear' \in EarType
  BY <1>1 DEF MessageOK, NeverMisled
<1> QED
  BY <1>1, <1>4, <1>5, <1>6

LEMMA SecondHalfStep ==
  ASSUME ThrottleInv, SecondHalf
  PROVE  ThrottleInv'
<1> USE DEF ThrottleInv
<1>1. /\ OnItsWay /\ every_second_isr' = FALSE /\ msg' = msg /\ UNCHANGED bitState /\ Hear(flag)
      /\ UNCHANGED <<hardware, throttle>> /\ ear \in EarType /\ NeverMisled
  BY DEF SecondHalf
<1>2. /\ state' = state /\ preamble_count' = preamble_count /\ outbyte' = outbyte /\ flag' = flag
      /\ cbit' = cbit /\ msgIndex' = msgIndex /\ byteIndex' = byteIndex
  BY <1>1 DEF bitState
<1>3. /\ msgIndex \in 1..2 /\ preamble_count \in 0..PREAMBLE_COUNT /\ cbit \in 0..7
      /\ state \in {"PREAMBLE", "SEPERATOR", "SENDBYTE"}
  BY DEF ThrottleTypeOK
<1>4. MessageLength[msgIndex] \in 3..4
  BY <1>3 DEF MessageLength
<1>5. ThrottleTypeOK' /\ MessageOK'
  BY <1>1, <1>2 DEF ThrottleTypeOK, MessageOK, hardware, throttle
<1>6. heard' = heard => NeverMisled'
  BY <1>1 DEF NeverMisled
<1>7. CASE state = "PREAMBLE"
  <2>1. PreambleOnItsWay
    BY <1>1, <1>7 DEF OnItsWay
  <2>2. CASE preamble_count = PREAMBLE_COUNT
    <3>1. HearsByte(MessageLength[msgIndex], 0) /\ Hear(BitOf(0))
      BY <1>1, <2>1, <2>2 DEF PreambleOnItsWay
    <3>2. ear' \in EarType /\ heard' = heard /\ HeardByte(MessageLength[msgIndex])'
      BY <1>1, <1>2, <1>4, <3>1, HearBit
    <3>3. Sent'
      BY <1>2, <1>7, <2>1, <2>2, <3>2, PreambleAssumption DEF Sent, AfterOnes, PreambleOnItsWay
    <3> QED
      BY <1>1, <1>5, <1>6, <3>2, <3>3
  <2>3. CASE preamble_count # PREAMBLE_COUNT
    <3> DEFINE n == PREAMBLE_COUNT - preamble_count - 1
    <3>1. n \in Nat /\ AfterOnes(n) /\ Hear(1) /\ preamble_count > 0
      BY <1>1, <1>3, <2>1, <2>3, PreambleAssumption DEF PreambleOnItsWay
    <3>2. ear' \in EarType /\ NeverMisled' /\ HeardOnes(n + 1)'
      <4>1. CASE HeardOnes(n)
        BY <1>1, <1>2, <1>6, <3>1, <4>1, HearOne
      <4>2. CASE n = 0 /\ HeardByte(MessageLength[msgIndex])
        BY <1>1, <1>2, <1>3, <3>1, <4>2, HearEnd
      <4> QED
        BY <3>1, <4>1, <4>2 DEF AfterOnes
    <3>3. Sent'
      BY <1>2, <1>3, <1>7, <3>1, <3>2, PreambleAssumption DEF Sent, AfterOnes
    <3> QED
      BY <1>1, <1>5, <3>2, <3>3
  <2> QED
    BY <2>2, <2>3
<1>8. CASE state = "SEPERATOR"
  <2>1. SeparatorOnItsWay
    BY <1>1, <1>8 DEF OnItsWay
  <2>2. CASE byteIndex = 1
    <3>1. HeardOnes(PREAMBLE_COUNT - 1) /\ Hear(1)
      BY <1>1, <2>1, <2>2 DEF SeparatorOnItsWay
    <3>2. ear' \in EarType /\ heard' = heard /\ HeardOnes(PREAMBLE_COUNT)'
      BY <1>1, <3>1, HearOne, PreambleAssumption
    <3>3. Sent'
      BY <1>2, <1>8, <2>1, <2>2, <3>2 DEF Sent, Before, SeparatorOnItsWay, InPacket
    <3> QED
      BY <1>1, <1>5, <1>6, <3>2, <3>3
  <2>3. CASE byteIndex # 1
    <3>1. /\ HearsByte(byteIndex - 1, 0) /\ Hear(BitOf(0)) /\ byteIndex - 1 \in 1..4
          /\ byteIndex \in 1..MessageLength[msgIndex]
      BY <1>1, <1>4, <2>1, <2>3 DEF SeparatorOnItsWay, InPacket
    <3>2. ear' \in EarType /\ heard' = heard /\ HeardByte(byteIndex - 1)'
      BY <1>1, <1>2, <3>1, HearBit
    <3>3. Sent'
      BY <1>2, <1>8, <2>3, <3>1, <3>2 DEF Sent, Before, InPacket
    <3> QED
      BY <1>1, <1>5, <1>6, <3>2, <3>3
  <2> QED
    BY <2>2, <2>3
<1>9. CASE state = "SENDBYTE"
  <2>1. ByteOnItsWay /\ byteIndex \in 1..4 /\ InPacket'
    BY <1>1, <1>2, <1>4, <1>9 DEF OnItsWay, ByteOnItsWay, InPacket
  <2>2. ear' \in EarType /\ heard' = heard /\ HearsByte(byteIndex, cbit)'
    <3>1. CASE cbit = 7 /\ byteIndex = 1
      BY <1>1, <1>2, <2>1, <3>1, HearFirst DEF ByteOnItsWay, Before
    <3>2. CASE cbit = 7 /\ byteIndex # 1
      <4>1. byteIndex \in 2..4 /\ HeardByte(byteIndex - 1) /\ FitsByte(outbyte, byteIndex) /\ Hear(0)
        BY <1>1, <2>1, <3>2 DEF ByteOnItsWay, Before
      <4> QED
        BY <1>1, <1>2, <3>2, <4>1, HearNext
    <3>3. CASE cbit # 7
      <4>1. /\ HearsByte(byteIndex, cbit + 1) /\ Hear(BitOf(cbit + 1))
            /\ cbit + 1 \in 0..7 /\ cbit \in Nat
        BY <1>1, <1>3, <2>1, <3>3 DEF ByteOnItsWay
      <4> QED
        BY <1>1, <1>2, <2>1, <4>1, HearBit
    <3> QED
      BY <3>1, <3>2, <3>3
  <2>3. Sent'
    BY <1>2, <1>9, <2>1, <2>2 DEF Sent
  <2> QED
    BY <1>1, <1>5, <1>6, <2>2, <2>3
<1> QED
  BY <1>3, <1>7, <1>8, <1>9

LEMMA ThrottleInvHolds == ThrottleSpec => []ThrottleInv
<1>1. ThrottleInv /\ [ThrottleNext]_throttleVars => ThrottleInv'
  BY LoopStep, FirstHalfStep, SecondHalfStep DEF ThrottleNext, Interrupt
<1> QED
  BY <1>1, ThrottleInvInit, PTL DEF ThrottleSpec

(* loop() and the interrupt keep the types of the throttle.                 *)
THEOREM ThrottleTypes == ThrottleSpec => []ThrottleTypeOK
<1>1. ThrottleInv => ThrottleTypeOK
  BY DEF ThrottleInv
<1> QED
  BY <1>1, ThrottleInvHolds, PTL

(* However loop() writes into the message that is being sent, the loco only *)
(* obeys orders of the throttle: every byte is read once, when it begins to *)
(* be sent, and the decoder stands in the packet where the interrupt does.  *)
THEOREM LocoIsNeverMisled == ThrottleSpec => []NeverMisled
<1>1. ThrottleInv => NeverMisled
  BY DEF ThrottleInv
<1> QED
  BY <1>1, ThrottleInvHolds, PTL
=============================================================================
