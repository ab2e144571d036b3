------------------------------ MODULE SimpleDCC ------------------------------
(***************************************************************************)
(* SimpleDCC_without_Lib.ino: a throttle for one loco without the library. *)
(* loop() reads a knob and a switch and writes two bytes of the loco's     *)
(* message; the timer interrupt, once per half bit, sends that message and *)
(* an idle message in turn, byte by byte.  It reads a byte when it begins  *)
(* to send it, so loop() may write between the order and its checksum.     *)
(*                                                                         *)
(* A byte is the set of its bits that are 1.                               *)
(***************************************************************************)
EXTENDS Naturals, Sequences

CONSTANTS
  KnobPosition,        (* what the knob reads, scaled to 0..127             *)
  PREAMBLE_COUNT,      (* 16                                                *)
  DecoderPreamble      (* external: the ones a decoder waits for            *)

ASSUME KnobAssumption == KnobPosition \subseteq 0..127

(* S-9.2: no decoder waits for more ones than are sent, nor takes the one   *)
(* that ends a packet for a preamble.                                       *)
ASSUME PreambleAssumption ==
  PREAMBLE_COUNT \in Nat /\ DecoderPreamble \in 2..PREAMBLE_COUNT

Weight == <<1, 2, 4, 8, 16, 32, 64, 128>>
Bits(n) == {i \in 0..7 : (n \div Weight[i + 1]) % 2 = 1}
Xor(a, b) == (a \ b) \union (b \ a)

locoAdr == 40

VARIABLES
  knob, switch,                                (* external: the hardware    *)
  locoSpeed, dir, last_locoSpeed, last_dir, changed,
  loop,                                        (* what loop() does next     *)
  msg,
  every_second_isr, flag, state, preamble_count, outbyte, cbit, msgIndex, byteIndex,
  ear, heard                                   (* external: the decoder     *)

hardware == <<knob, switch>>
throttle == <<locoSpeed, dir, last_locoSpeed, last_dir, changed, loop>>
bitState == <<flag, state, preamble_count, outbyte, cbit, msgIndex, byteIndex>>
isr == <<every_second_isr, bitState>>
decoder == <<ear, heard>>
throttleVars == <<hardware, throttle, msg, isr, decoder>>

(* Deliberate error: speed 1 is sent as it is.                              *)
DataByteOne(speed, forward) == Bits(speed) \union (IF forward THEN {7} ELSE {})

(* assemble_dcc_msg(): speed 1 would be an emergency stop.                  *)
DataByte(speed, forward) ==
  (IF speed = 1 THEN {} ELSE Bits(speed)) \union (IF forward THEN {7} ELSE {})

LocoMessage(data) ==
  <<Bits(locoAdr), Bits(63), data, Xor(Xor(Bits(locoAdr), Bits(63)), data)>>

IdleMessage == <<Bits(255), {}, Bits(255)>>

Silence == [ones |-> 0, bits |-> 0, byte |-> {}, bytes |-> << >>, within |-> FALSE]

(* After setup(), which reads and assembles before it starts the timer.     *)
ThrottleInit ==
  /\ knob \in KnobPosition /\ switch \in BOOLEAN
  /\ locoSpeed = (IF knob = 1 THEN 0 ELSE knob) /\ dir = switch
  /\ last_locoSpeed = knob /\ last_dir = switch
  /\ changed = FALSE /\ loop = "readSpeed"
  /\ msg = <<IdleMessage, LocoMessage(DataByte(knob, switch))>>
  /\ every_second_isr = FALSE /\ flag = 0
  /\ state = "PREAMBLE" /\ preamble_count = PREAMBLE_COUNT
  /\ outbyte = {} /\ cbit = 7 /\ msgIndex = 1 /\ byteIndex = 1
  /\ ear = Silence /\ heard = << >>

-----------------------------------------------------------------------------
(* loop().                                                                  *)
ReadSpeed ==
  /\ loop = "readSpeed"
  /\ locoSpeed' = knob
  /\ changed' = (knob # last_locoSpeed)
  /\ last_locoSpeed' = knob
  /\ loop' = "readDirection"
  /\ UNCHANGED <<hardware, dir, last_dir, msg, isr, decoder>>

ReadDirection ==
  /\ loop = "readDirection"
  /\ dir' = switch
  /\ loop' = IF changed \/ switch # last_dir THEN "assemble" ELSE "readSpeed"
  /\ last_dir' = switch
  /\ changed' = FALSE
  /\ UNCHANGED <<hardware, locoSpeed, last_locoSpeed, msg, isr, decoder>>

(* Deliberate error: the checksum stays that of the order before.           *)
AssembleDataOnly ==
  /\ loop = "assemble"
  /\ locoSpeed' = IF locoSpeed = 1 THEN 0 ELSE locoSpeed
  /\ msg' = [msg EXCEPT ![2][3] = DataByte(locoSpeed, dir)]
  /\ loop' = "readSpeed"
  /\ UNCHANGED <<hardware, dir, last_locoSpeed, last_dir, changed, isr, decoder>>

(* Both bytes are written with interrupts disabled.                         *)
assemble_dcc_msg ==
  /\ loop = "assemble"
  /\ locoSpeed' = IF locoSpeed = 1 THEN 0 ELSE locoSpeed
  /\ msg' = [msg EXCEPT ![2] = LocoMessage(DataByte(locoSpeed, dir))]
  /\ loop' = "readSpeed"
  /\ UNCHANGED <<hardware, dir, last_locoSpeed, last_dir, changed, isr, decoder>>

Loop == ReadSpeed \/ ReadDirection \/ assemble_dcc_msg

Turn ==
  /\ knob' \in KnobPosition /\ switch' \in BOOLEAN
  /\ <<knob', switch'>> # <<knob, switch>>
  /\ UNCHANGED <<throttle, msg, isr, decoder>>

-----------------------------------------------------------------------------
(* ISR(TIMER2_OVF_vect), the first half of a bit.                           *)
SendPreamble ==
  /\ state = "PREAMBLE"
  /\ flag' = 1
  /\ preamble_count' = preamble_count - 1
  /\ IF preamble_count' = 0
     THEN /\ state' = "SEPERATOR"
          /\ msgIndex' = (msgIndex % Len(msg)) + 1
          /\ byteIndex' = 1
     ELSE UNCHANGED <<state, msgIndex, byteIndex>>
  /\ UNCHANGED <<outbyte, cbit>>

SendSeparator ==
  /\ state = "SEPERATOR"
  /\ flag' = 0
  /\ state' = "SENDBYTE"
  /\ cbit' = 7
  /\ outbyte' = msg[msgIndex][byteIndex]
  /\ UNCHANGED <<preamble_count, msgIndex, byteIndex>>

(* The last bit of a byte: the next byte, or after the checksum the         *)
(* preamble, whose first bit is also the end bit of the packet.             *)
SendBit ==
  /\ state = "SENDBYTE"
  /\ flag' = IF cbit \in outbyte THEN 1 ELSE 0
  /\ IF cbit > 0
     THEN /\ cbit' = cbit - 1
          /\ UNCHANGED <<state, preamble_count, byteIndex>>
     ELSE /\ byteIndex' = byteIndex + 1
          /\ cbit' = 7
          /\ IF byteIndex' > Len(msg[msgIndex])
             THEN state' = "PREAMBLE" /\ preamble_count' = PREAMBLE_COUNT
             ELSE state' = "SEPERATOR" /\ UNCHANGED preamble_count
  /\ UNCHANGED <<outbyte, msgIndex>>

FirstHalf ==
  /\ ~every_second_isr
  /\ every_second_isr' = TRUE
  /\ SendPreamble \/ SendSeparator \/ SendBit
  /\ UNCHANGED <<hardware, throttle, msg, decoder>>

(* external: a decoder counts the ones of the preamble, then takes bytes    *)
(* until a one in place of the separator, and obeys if the bytes cancel.    *)
Checked(bytes) ==
  {i \in 0..7 : Len(SelectSeq(bytes, LAMBDA b : i \in b)) % 2 = 1} = {}

Hear(bit) ==
  CASE ~ear.within /\ bit = 1 ->
         ear' = [ear EXCEPT !.ones = IF @ < DecoderPreamble THEN @ + 1 ELSE @]
         /\ UNCHANGED heard
    [] ~ear.within /\ bit = 0 ->
         ear' = [Silence EXCEPT !.within = (ear.ones = DecoderPreamble)]
         /\ UNCHANGED heard
    [] ear.within /\ ear.bits < 8 ->
         ear' = [ear EXCEPT !.bits = @ + 1,
                            !.byte = IF bit = 1 THEN @ \union {7 - ear.bits} ELSE @]
         /\ UNCHANGED heard
    [] ear.within /\ ear.bits = 8 /\ bit = 0 ->
         ear' = [ear EXCEPT !.bits = 0, !.byte = {}, !.bytes = Append(@, ear.byte)]
         /\ UNCHANGED heard
    [] OTHER ->
         LET packet == Append(ear.bytes, ear.byte)
         IN  /\ ear' = [Silence EXCEPT !.ones = 1]
             /\ heard' = IF packet[1] = Bits(locoAdr) /\ Checked(packet)
                         THEN <<packet[3]>> ELSE heard

SecondHalf ==
  /\ every_second_isr
  /\ every_second_isr' = FALSE
  /\ Hear(flag)
  /\ UNCHANGED <<hardware, throttle, msg, bitState>>

Interrupt == FirstHalf \/ SecondHalf

ThrottleNext == Loop \/ Turn \/ Interrupt

(* The timer never stops and loop() is called again and again.              *)
ThrottleSpec == ThrottleInit /\ [][ThrottleNext]_throttleVars /\ WF_throttleVars(Loop) /\ WF_throttleVars(Interrupt)

-----------------------------------------------------------------------------
ThrottleTypeOK ==
  /\ knob \in KnobPosition /\ {switch, dir, last_dir, changed, every_second_isr} \subseteq BOOLEAN
  /\ locoSpeed \in KnobPosition \union {0} /\ last_locoSpeed \in KnobPosition
  /\ loop \in {"readSpeed", "readDirection", "assemble"}
  /\ state \in {"PREAMBLE", "SEPERATOR", "SENDBYTE"}
  /\ preamble_count \in 0..PREAMBLE_COUNT /\ cbit \in 0..7 /\ flag \in 0..1
  /\ outbyte \subseteq 0..7
  /\ msgIndex \in 1..2 /\ byteIndex \in 1..Len(msg[2]) + 1

(* The loco only obeys orders of the throttle, however loop() writes into   *)
(* the message that is being sent; none is the emergency stop, speed 1.     *)
Orders ==
  {Bits(k) \union forward : k \in (KnobPosition \ {1}) \union {0}, forward \in {{}, {7}}}

NeverMisled == heard = << >> \/ heard[1] \in Orders

(* Once nobody turns the knob the loco ends up with its position: a message *)
(* torn by loop() is replaced by a whole one.                               *)
LocoFollows == <>[][~Turn]_throttleVars => <>[](heard = <<DataByte(knob, switch)>>)

(* noInterrupts() makes "sure that only matching parts of the message are   *)
(* used in ISR".                                                            *)
EveryPacketMatches ==
  ear.within /\ ear.bits = 8 /\ Len(ear.bytes) = 3 => Checked(Append(ear.bytes, ear.byte))
=============================================================================
