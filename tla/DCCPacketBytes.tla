---------------------------- MODULE DCCPacketBytes ----------------------------
(***************************************************************************)
(* The bytes of a packet: what the calls of the application put into a     *)
(* DCCPacket (address, kind and up to three data bytes) and what           *)
(* getBitstream() makes of it for the waveform generator.                  *)
(*                                                                         *)
(* The queues between the two are the business of DCCPacketScheduler: a    *)
(* behaviour of this module follows one packet from the order to its bytes.*)
(* The conversion keeps no state from one packet to the next, but for the  *)
(* stack that holds the buffer (Uninitialised).  The reference is Heard,   *)
(* what a decoder that follows the NMRA packet formats (S-9.2, S-9.2.1,   *)
(* S-9.2.3) understands of the bytes; nothing of it is taken from the code.*)
(***************************************************************************)
EXTENDS Integers, Sequences

CONSTANTS
  Formats,        (* addressing formats given to setup(): ROCO = 0, IB = 4 *)
  Locos, Speeds,  (* arguments of the calls                                *)
  Turnouts, Signals, Aspects, CVs, Values,
  PomBits,        (* whether opsPOMwriteBit is called                      *)
  Uninitialised   (* what the stack may hold where dccPacket[1] will be    *)

Bytes == 0..255
LocoAddresses == 0..10239   (* those that exist in DCC                      *)
CVNumbers == 0..1023
Outputs == 0..2047

(* What a sketch may hand to the library: addresses that exist, bytes for   *)
(* speeds, function groups, CV values and aspects, CV numbers of ten bits,  *)
(* and turnouts that stay below 2048 once the format is added.  Of these the    *)
(* library itself checks the CV number on the programming track and that    *)
(* the turnout, before the format is added, is at most 2047.                *)
ASSUME LegalArguments ==
  /\ Formats \subseteq Nat
  /\ Locos \subseteq LocoAddresses
  /\ Speeds \subseteq Bytes /\ Values \subseteq Bytes /\ Aspects \subseteq Bytes
  /\ CVs \subseteq CVNumbers
  /\ \A t \in Turnouts \union Signals, f \in Formats : t + f \in Outputs

VARIABLES
  TrntFormat,
  BasicAccessory, (* the addresses whose stored position is 1              *)
  packet,         (* the DCCPacket                                         *)
  rawbytes,       (* dccPacket[0 .. size-1]; empty before getBitstream()   *)
  ordered         (* ghost: what the application asked for                 *)

vars == <<TrntFormat, BasicAccessory, packet, rawbytes, ordered>>

IB == 4
MAX_DCC_SHORT_ADDRESS == 127
AccessoryKinds == {"basic_accessory", "extended_accessory"}

Hi(a) == a \div 256
Lo(a) == a % 256

(* The operators of C on bytes, bit by bit: w is the weight of a bit.       *)
Bit(a, w) == (a \div w) % 2

Byte(d(_)) ==
  d(1) + 2 * d(2) + 4 * d(4) + 8 * d(8) + 16 * d(16) + 32 * d(32) + 64 * d(64) + 128 * d(128)

And(a, b) == Byte(LAMBDA w : IF Bit(a, w) = 1 /\ Bit(b, w) = 1 THEN 1 ELSE 0)
Or(a, b) == Byte(LAMBDA w : IF Bit(a, w) = 1 \/ Bit(b, w) = 1 THEN 1 ELSE 0)

(* The exclusive or of the bytes of a packet: there are at most six.        *)
At(bytes, k) == IF k <= Len(bytes) THEN bytes[k] ELSE 0
Ones(bytes, w) ==
  Bit(At(bytes, 1), w) + Bit(At(bytes, 2), w) + Bit(At(bytes, 3), w)
    + Bit(At(bytes, 4), w) + Bit(At(bytes, 5), w) + Bit(At(bytes, 6), w)
XOR(bytes) == Byte(LAMBDA w : Ones(bytes, w) % 2)

Closed(bytes) == Append(bytes, XOR(bytes))

-----------------------------------------------------------------------------
(* external: what a decoder understands.                                    *)
Said(to, what, value) == [to |-> to, what |-> what, value |-> value]
Nothing == Said(<<"nobody">>, "nothing", << >>)

(* A group of functions: its name, and how many functions it has.           *)
Groups == <<"F0-F4", "F5-F8", "F9-F12", "F13-F20", "F21-F28",
            "F29-F36", "F37-F44", "F45-F52", "F53-F60", "F61-F68">>
Width(g) == <<32, 16, 16, 256, 256, 256, 256, 256, 256, 256>>[g]

Direction(b) == (b \div 32) % 2

Instruction(to, i) ==
  LET n == Len(i)  b == i[1]
  IN  CASE n = 1 /\ b = 0            -> Said(to, "reset", << >>)
        [] n = 1 /\ b \in 64..127    -> Said(to, "speed_5_bit", <<Direction(b), b % 32>>)
        [] n = 2 /\ b = 63           -> Said(to, "speed128", <<i[2] \div 128, i[2] % 128>>)
        [] n = 1 /\ b \in 128..159   -> Said(to, "F0-F4", <<b % 32>>)
        [] n = 1 /\ b \in 176..191   -> Said(to, "F5-F8", <<b % 16>>)
        [] n = 1 /\ b \in 160..175   -> Said(to, "F9-F12", <<b % 16>>)
        [] n = 2 /\ b = 222          -> Said(to, "F13-F20", <<i[2]>>)
        [] n = 2 /\ b = 223          -> Said(to, "F21-F28", <<i[2]>>)
        [] n = 2 /\ b \in 216..220   -> Said(to, Groups[b - 210], <<i[2]>>)
        [] n = 2 /\ b = 221          -> Said(to, "binary", <<i[2] \div 128, i[2] % 128>>)
        [] n = 3 /\ b = 192          ->
             Said(to, "binary", <<i[2] \div 128, i[3] * 128 + (i[2] % 128)>>)
        [] n = 3 /\ b \in 236..239   -> Said(to, "write", <<((b % 4) * 256) + i[2], i[3]>>)
        [] n = 3 /\ b \in 228..231   -> Said(to, "verify", <<((b % 4) * 256) + i[2], i[3]>>)
        [] n = 3 /\ b \in 232..235 /\ i[3] \in 240..255 ->
             Said(to, "write_bit", <<((b % 4) * 256) + i[2], i[3] % 16>>)
        [] OTHER                     -> Nothing

Programming(b) ==
  LET cv == (b[1] % 4) * 256 + b[2]  to == <<"programming_track">>
  IN  IF Len(b) # 3 THEN Nothing
      ELSE CASE b[1] \in 124..127 -> Said(to, "write", <<cv, b[3]>>)
             [] b[1] \in 116..119 -> Said(to, "verify", <<cv, b[3]>>)
             [] b[1] \in 120..123 /\ b[3] \in 224..239 ->
                  Said(to, "verify_bit", <<cv, b[3] % 16>>)
             [] OTHER             -> Nothing

AccessoryOrder(b) ==
  LET decoder == (b[1] % 64) + 64 * (7 - ((b[2] \div 16) % 8))
      output == decoder * 4 + ((b[2] \div 2) % 4)
  IN  CASE Len(b) = 2 /\ b[2] \div 128 = 1 ->
             Said(<<"turnout", output>>, "position", <<b[2] % 2, (b[2] \div 8) % 2>>)
        [] Len(b) = 3 /\ b[2] \div 128 = 0 /\ (b[2] \div 8) % 2 = 0 /\ b[2] % 2 = 1 ->
             Said(<<"signal", output>>, "aspect", <<b[3]>>)
        [] OTHER -> Nothing

(* The first byte tells who is meant; a decoder in service mode takes 112   *)
(* to 127 for a programming instruction.                                    *)
Short == 0..127
Accessory == 128..191
Long == 192..231
Instructions == 112..127

Addressed(b, service) ==
  LET programs == service /\ b[1] \in Instructions
  IN  CASE b = <<255, 0>>               -> Said(<<"loco", 255>>, "idle", << >>)
        [] programs                     -> Programming(b)
        [] b[1] \in Short /\ ~programs  -> Instruction(<<"loco", b[1]>>, Tail(b))
        [] b[1] \in Accessory           -> AccessoryOrder(b)
        [] b[1] \in Long                ->
             Instruction(<<"loco", (b[1] - 192) * 256 + b[2]>>, SubSeq(b, 3, Len(b)))
        [] OTHER                        -> Nothing

WithoutCheck(bytes) == SubSeq(bytes, 1, Len(bytes) - 1)

Heard(bytes, service) ==
  IF XOR(bytes) = 0 THEN Addressed(WithoutCheck(bytes), service) ELSE Nothing

-----------------------------------------------------------------------------
DCCPacket(address, kind, data) == [address |-> address, kind |-> kind, data |-> data]
IdlePacket == DCCPacket(255, "idle", <<0>>)

Init ==
  /\ TrntFormat \in Formats
  /\ BasicAccessory = {}
  /\ packet = IdlePacket
  /\ rawbytes = << >>
  /\ ordered = Said(<<"loco", 255>>, "idle", << >>)

(* The application asks for said, and the library makes the packet p of it. *)
Make(p, said) ==
  /\ packet = IdlePacket /\ rawbytes = << >>
  /\ packet' = p
  /\ ordered' = said
  /\ UNCHANGED <<TrntFormat, rawbytes>>

Order(p, said) == Make(p, said) /\ UNCHANGED BasicAccessory

(* Loco orders; address 0 is refused.  14 and 28 steps make the same byte:  *)
(* the low five bits of the argument, of which a decoder set to 14 steps    *)
(* takes the highest for F0.                                                *)
FiveBits(speed) == Or(Or(64, And(speed, 31)), And(speed, 128) \div 4)

FiveBitSpeed(a, speed) ==
  /\ a # 0
  /\ Order(DCCPacket(a, "speed", <<FiveBits(speed)>>),
           Said(<<"loco", a>>, "speed_5_bit", <<speed \div 128, speed % 32>>))

setSpeed14(a, speed) == FiveBitSpeed(a, speed)
setSpeed28(a, speed) == FiveBitSpeed(a, speed)

setSpeed128(a, speed) ==
  /\ a # 0
  /\ Order(DCCPacket(a, "speed", <<63, speed>>),
           Said(<<"loco", a>>, "speed128", <<speed \div 128, speed % 128>>))

FunctionData(g, functions) ==
  CASE g = 1 -> <<Or(128, And(functions, 31))>>
    [] g = 2 -> <<Or(176, And(functions, 15))>>
    [] g = 3 -> <<Or(160, And(functions, 15))>>
    [] g = 4 -> <<222, functions>>
    [] g = 5 -> <<223, functions>>
    [] OTHER -> <<<<216, 217, 218, 219, 220>>[g - 5], functions>>

setFunctions(a, g, functions) ==
  /\ a # 0
  /\ Order(DCCPacket(a, "function", FunctionData(g, functions)),
           Said(<<"loco", a>>, Groups[g], <<functions % Width(g)>>))

(* Binary state addresses below 29 are refused in the short form only.      *)
setLocoFuncBinary(a, low, high) ==
  /\ high = 0 => low % 128 >= 29
  /\ Order(DCCPacket(a, "function",
                     IF high = 0 THEN <<221, low>> ELSE <<192, low, high>>),
           Said(<<"loco", a>>, "binary", <<low \div 128, high * 128 + (low % 128)>>))

(* Accessories: the address is shifted by the format.                       *)
Decoder(t) == (t + TrntFormat) \div 4
Port(t) == (t + TrntFormat) % 4

setBasicAccessoryPos(t, state, activ) ==
  /\ t <= 2047
  /\ Make(DCCPacket(Decoder(t), "basic_accessory", <<Or(Or(Port(t) * 2, state), activ * 8)>>),
          Said(<<"turnout", t + TrntFormat>>, "position", <<state, activ>>))
  /\ BasicAccessory' = IF state = 1 THEN BasicAccessory \union {t} ELSE BasicAccessory \ {t}

setExtAccessoryPos(t, state) ==
  /\ t <= 2047
  /\ Order(DCCPacket(Decoder(t), "extended_accessory", <<Or(Port(t) * 2, 1), state>>),
           Said(<<"signal", t + TrntFormat>>, "aspect", <<state>>))

getBasicAccessoryInfo(t) ==
  IF (IF TrntFormat = IB THEN t + IB ELSE t) \in BasicAccessory THEN 1 ELSE 0

(* Service Mode: the instruction takes the place of a short address.        *)
opsWriteCV(cv, value) ==
  Order(DCCPacket(Or(And(Hi(cv), 3), 124), "ops_mode", <<Lo(cv), value>>),
        Said(<<"programming_track">>, "write", <<cv, value>>))

opsVerifyCV(cv, value) ==
  Order(DCCPacket(Or(And(Hi(cv), 3), 116), "ops_mode", <<Lo(cv), value>>),
        Said(<<"programming_track">>, "verify", <<cv, value>>))

opsReadCV(cv, bit, state) ==
  Order(DCCPacket(Or(And(Hi(cv), 3), 120), "ops_mode", <<Lo(cv), Or(Or(224, bit), state * 8)>>),
        Said(<<"programming_track">>, "verify_bit", <<cv, state * 8 + bit>>))

(* Programming on the main.                                                 *)
opsProgramCV(a, cv, value) ==
  /\ a # 0
  /\ Order(DCCPacket(a, "pom", <<Or(And(Hi(cv), 3), 236), Lo(cv), value>>),
           Said(<<"loco", a>>, "write", <<cv, value>>))

opsPOMwriteBit(a, cv, bit, state) ==
  /\ a # 0
  /\ Order(DCCPacket(a, "pom", <<Or(And(Hi(cv), 3), 232), Lo(cv), And(state * 8 + bit, 15)>>),
           Said(<<"loco", a>>, "write_bit", <<cv, state * 8 + bit>>))

opsPOMreadCV(a, cv) ==
  /\ a # 0
  /\ Order(DCCPacket(a, "pom", <<Or(And(Hi(cv), 3), 228), Lo(cv), 0>>),
           Said(<<"loco", a>>, "verify", <<cv, 0>>))

opsDecoderReset ==
  Order(DCCPacket(0, "ops_mode", <<0>>), Said(<<"loco", 0>>, "reset", << >>))

(* The broadcast stop: emergency stop (step 1), direction bit set.          *)
eStop ==
  Order(DCCPacket(0, "e_stop", <<97>>), Said(<<"loco", 0>>, "speed_5_bit", <<1, 1>>))

-----------------------------------------------------------------------------
(* Deliberate error: the address bits of the second byte as they are.       *)
AccessoryBytesUncomplemented(p, junk) ==
  <<Or(128, And(p.address, 63)),
    Or(IF p.kind = "basic_accessory" THEN 128 ELSE junk,
       Or(And(p.address \div 4, 112), And(p.data[1], 15)))>>

(* getBitstream(): the first byte of a long address is cut off at 231; a    *)
(* Service Mode packet has a short address whatever its value.              *)
AtMost(limit, b) == IF b > limit THEN limit ELSE b

AddressBytes(p) ==
  CASE p.kind = "idle" -> <<255>>
    [] p.kind \notin {"idle", "ops_mode"} /\ p.address > MAX_DCC_SHORT_ADDRESS ->
         <<AtMost(231, Or(Hi(p.address), 192)), Lo(p.address)>>
    [] OTHER -> <<And(p.address, 127)>>

(* Bits 6 to 8 of the decoder number are complemented. Only the basic form  *)
(* assigns rawbytes[1]; both then OR the address and the port to it, and    *)
(* for the extended form junk is what was on the stack.                     *)
AccessoryBytes(p, junk) ==
  <<Or(128, And(p.address, 63)),
    Or(IF p.kind = "basic_accessory" THEN 128 ELSE junk,
       Or(112 - And(p.address \div 4, 112), And(p.data[1], 15)))>>

Bitstream(p, junk) ==
  IF p.kind \in AccessoryKinds
  THEN Closed(AccessoryBytes(p, junk) \o Tail(p.data))
  ELSE Closed(AddressBytes(p) \o p.data)

getBitstream ==
  /\ \E junk \in Uninitialised : rawbytes' = Bitstream(packet, junk)
  /\ UNCHANGED <<TrntFormat, BasicAccessory, packet, ordered>>

-----------------------------------------------------------------------------
LocoOrder ==
  \E a \in Locos :
    \/ \E s \in Speeds : setSpeed14(a, s)
    \/ \E s \in Speeds : setSpeed28(a, s)
    \/ \E s \in Speeds : setSpeed128(a, s)
    \/ \E g \in DOMAIN Groups, f \in Values : setFunctions(a, g, f)
    \/ \E low \in Values, high \in Values : setLocoFuncBinary(a, low, high)
    \/ \E cv \in CVs, v \in Values : opsProgramCV(a, cv, v)
    \/ \E cv \in CVs : opsPOMreadCV(a, cv)

PomBitOrder ==
  /\ PomBits
  /\ \E a \in Locos, cv \in CVs, bit \in 0..7, state \in 0..1 :
       opsPOMwriteBit(a, cv, bit, state)

AccessoryOrders ==
  \/ \E t \in Turnouts, state \in 0..1, activ \in 0..1 : setBasicAccessoryPos(t, state, activ)
  \/ \E t \in Signals, state \in Aspects : setExtAccessoryPos(t, state)

ServiceOrder ==
  \E cv \in CVs :
    \/ \E v \in Values : opsWriteCV(cv, v)
    \/ \E v \in Values : opsVerifyCV(cv, v)
    \/ \E bit \in 0..7, state \in 0..1 : opsReadCV(cv, bit, state)

Next ==
  \/ LocoOrder
  \/ PomBitOrder
  \/ AccessoryOrders
  \/ ServiceOrder
  \/ opsDecoderReset
  \/ eStop
  \/ getBitstream

Spec == Init /\ [][Next]_vars

-----------------------------------------------------------------------------
(* A packet fits its class (three data bytes) and its bytes the six of      *)
(* dccPacket; every byte is a byte.                                         *)
TypeOK ==
  /\ TrntFormat \in Formats
  /\ BasicAccessory \subseteq Turnouts
  /\ Len(packet.data) \in 1..3
  /\ Len(rawbytes) \in {0} \union 3..6
  /\ \A i \in DOMAIN rawbytes : rawbytes[i] \in Bytes

Converted == rawbytes # << >>
Understood == Heard(rawbytes, packet.kind = "ops_mode" /\ ordered.what # "reset") = ordered

(* What the decoders on the track understand of the bytes is what the       *)
(* application ordered: the decoder with the address ordered, and no other, *)
(* takes the speed, function group, binary state, turnout position or CV    *)
(* operation.  (Extended accessories and bits written on the main: see      *)
(* SignalUnderstood and PomBitUnderstood.)                                  *)
OrderUnderstood ==
  Converted /\ ordered.what \notin {"aspect", "write_bit"} => Understood

(* So for extended accessories ("0AAA0AA1" in getBitstream()).              *)
SignalUnderstood == Converted /\ ordered.what = "aspect" => Understood

(* So for opsPOMwriteBit.                                                   *)
PomBitUnderstood == Converted /\ ordered.what = "write_bit" => Understood

(* getBasicAccessoryInfo() returns the position last ordered for the        *)
(* address: here, of the turnout whose packet is being converted.           *)
InfoIsOrdered ==
  ordered.what = "position" =>
    getBasicAccessoryInfo(ordered.to[2] - TrntFormat) = ordered.value[1]

=============================================================================
