----------------------- MODULE DCCHardwareCommonProofs -----------------------
(***************************************************************************)
(* The waveform generator of the Z21PG mode, for every preamble, size of a  *)
(* byte and set of packets: what the pins do without power, that it is the  *)
(* engine the scheduler counts on, and that a decoder gets every packet bit *)
(* for bit.                                                                 *)
(***************************************************************************)
EXTENDS DCCHardwareCommon, SequenceTheorems, TLAPS

Pin == [level : BOOLEAN, enable : BOOLEAN]
Sent == Packet \union {Idle, Reset}
Ear == [phase : {"preamble", "byte", "after"}, ones : Nat, byte : Seq(Bit), bytes : Seq(Seq(Bit))]

LEMMA PinTypes ==
  ASSUME NEW pin \in Pin
  PROVE  /\ Toggle(pin) \in Pin /\ Enable(pin) \in Pin /\ Disable(pin) \in Pin
         /\ EnableIfPowered(pin) \in Pin
<1>1. Enable(pin) \in Pin /\ Disable(pin) \in Pin
  BY DEF Pin, Enable, Disable
<1>2. Toggle(pin) \in Pin
  BY DEF Pin, Toggle
<1> QED
  BY <1>1, <1>2 DEF EnableIfPowered

(* The types of the flags, the counters, the packets, the pins, the decoder. *)
Flags ==
  /\ firstHalfBit \in BOOLEAN /\ firstHalfBitRC \in BOOLEAN
  /\ canAcceptPacket \in BOOLEAN
  /\ smActive \in BOOLEAN /\ isServiceModePacket \in BOOLEAN
  /\ railCom \in BOOLEAN /\ railPower \in BOOLEAN
  /\ railComCutoutInProgress \in BOOLEAN
  /\ dccSignalInverted \in BOOLEAN

Counters ==
  /\ state \in States
  /\ bitsRemaining \in 0..ByteMod - 1
  /\ bytesRemainingInPacket \in 0..ByteMod - 1
  /\ timer \in {"one", "zero", "railcom"}

Packets ==
  /\ nextPacket \in Packet \union {<< >>}
  /\ currentPacket \in Sent \union {<< >>}
  /\ defaultPacket \in {Idle, Reset}
  /\ smRepeatsRemaining \in 0..SM_REPEATS

Pins == dccRail \in Pin /\ dccRailInv \in Pin

EarOK == decoder \in Ear /\ heard \in Seq(Seq(Bit))

(* How far a method may have got.                                            *)
StepsToDo == {<< >>, <<"copy">>, <<"default">>, <<"cancel", "default">>}

InMethod == doing \in StepsToDo /\ sending \in Packet \union {<< >>}

LEMMA TypeParts ==
  TypeOK <=> /\ app \in Programs
             /\ Flags /\ Counters /\ Packets /\ Pins /\ InMethod /\ EarOK
  BY DEF TypeOK, Flags, Counters, Packets, Pins, InMethod, StepsToDo, EarOK, Pin, Sent, Ear

LEMMA NoEarType == NoEar \in Ear
  BY DEF NoEar, Ear

LEMMA InitTypeOK == Init => TypeOK
<1> SUFFICES ASSUME Init PROVE TypeOK
  OBVIOUS
<1>1. app \in Programs
  BY DEF Init
<1>2. railCom \in BOOLEAN
  BY <1>1, ProgramsAssumption DEF Init
<1>3. Flags
  BY Zenon, <1>2 DEF Init, Flags
<1>4. Counters
  BY PreambleAssumption, CounterAssumption DEF Init, Counters, States
<1>5. Packets
  BY CounterAssumption DEF Init, Packets, Sent
<1>6. Pins
  BY DEF Init, Pins, Pin
<1>7. EarOK
  BY NoEarType DEF Init, EarOK
<1>8. InMethod
  BY DEF Init, InMethod, StepsToDo
<1> QED
  BY <1>1, <1>3, <1>4, <1>5, <1>6, <1>7, <1>8, TypeParts

(* Which step a method can be at, and what it has yet to do after that.      *)
LEMMA StepsInTurn ==
  ASSUME doing \in StepsToDo
  PROVE  /\ Step("copy") => doing = <<"copy">> /\ doing' = << >>
         /\ Step("default") => doing = <<"default">> /\ doing' = << >>
         /\ Step("cancel") => doing = <<"cancel", "default">> /\ doing' = <<"default">>
<1>1. Head(<<"copy">>) = "copy" /\ Tail(<<"copy">>) = << >>
  OBVIOUS
<1>2. Head(<<"default">>) = "default" /\ Tail(<<"default">>) = << >>
  OBVIOUS
<1>3. Head(<<"cancel", "default">>) = "cancel" /\ Tail(<<"cancel", "default">>) = <<"default">>
  OBVIOUS
<1> QED
  BY <1>1, <1>2, <1>3 DEF Step, StepsToDo

LEMMA StepInMethod ==
  ASSUME InMethod, [Next]_vars
  PROVE  InMethod'
<1> USE DEF InMethod
<1>1. CASE UNCHANGED method
  BY <1>1 DEF method
<1>2. CASE Continue
  BY <1>2, StepsInTurn DEF Continue, SendCopy, LeaveCancel, WriteDefaultPacket, StepsToDo
<1>3. CASE Method
  BY <1>3 DEF Method, SendBegin, EnterServiceMode, LeaveServiceMode, Call, StepsToDo
<1> QED
  BY <1>1, <1>2, <1>3 DEF Next, vars

-----------------------------------------------------------------------------
LEMMA StepFlags ==
  ASSUME Flags, app \in Programs, [Next]_vars
  PROVE  Flags'
<1> USE DEF Flags
<1>1. CASE RailComStartBit29 \/ RailComStartBit58
  BY Zenon, <1>1 DEF RailComStartBit29, RailComStartBit58, FirstHalf, packets, sm, settings
<1>2. CASE NothingToDo \/ PreambleStartBitFirst
  BY Zenon, <1>2 DEF NothingToDo, PreambleStartBitFirst, FirstHalf, ToSecondHalf, packets, sm,
       settings
<1>3. CASE StartBitPacketFirst
  <2>1. canAcceptPacket' \in BOOLEAN
    BY Zenon, <1>3 DEF StartBitPacketFirst, NewPacket, FillPacket, RepeatPacket
  <2> QED
    BY Zenon, <1>3, <2>1 DEF StartBitPacketFirst, FirstHalf, ToSecondHalf, settings
<1>4. CASE DataFirst \/ StartBitDataFirst \/ EndBitFirst
  BY Zenon, <1>4 DEF DataFirst, StartBitDataFirst, EndBitFirst, FirstHalf, ToSecondHalf, packets,
       sm, settings
<1>5. CASE SecondHalf
  BY Zenon, <1>5 DEF SecondHalf, packets, sm, settings
<1>6. CASE Method
  <2>1. ASSUME NEW p \in Packet, SendBegin(p) PROVE Flags'
    BY Zenon, <2>1 DEF SendBegin, bitCounters, packets, settings
  <2>2. CASE EnterServiceMode \/ LeaveServiceMode
    BY Zenon, <2>2 DEF EnterServiceMode, LeaveServiceMode, bitCounters, packets, settings
  <2>3. CASE StopServiceModeRepeats
    BY Zenon, <2>3 DEF StopServiceModeRepeats, bitCounters, packets, settings
  <2>4. CASE StopOutputSignal \/ RunOutputSignal
    BY Zenon, <2>4 DEF StopOutputSignal, RunOutputSignal, bitCounters, packets, sm
  <2>5. ASSUME NEW active \in app.railCom, SetRailCom(active) PROVE Flags'
    <3>1. active \in BOOLEAN
      BY ProgramsAssumption
    <3> QED
      BY Zenon, <2>5, <3>1 DEF SetRailCom, bitCounters, packets, sm
  <2>6. ASSUME NEW inverted \in app.inverted, SetDccSignalInverted(inverted) PROVE Flags'
    <3>1. inverted \in BOOLEAN
      BY ProgramsAssumption
    <3> QED
      BY Zenon, <2>6, <3>1 DEF SetDccSignalInverted, setupWaveformGenerator
  <2>7. CASE ChangeMonitor
    BY Zenon, <2>7 DEF ChangeMonitor, setupWaveformGenerator
  <2> QED
    BY <1>6, <2>1, <2>2, <2>3, <2>4, <2>5, <2>6, <2>7 DEF Method, MethodOfOneStep
<1>7. CASE UNCHANGED vars
  BY Zenon, <1>7 DEF vars, device, bitCounters, packets, sm, settings
<1>8. CASE Continue
  BY Zenon, <1>8 DEF Continue, SendCopy, LeaveCancel, WriteDefaultPacket, bitCounters, packets,
       sm, settings
<1> QED
  BY <1>1, <1>2, <1>3, <1>4, <1>5, <1>6, <1>7, <1>8
  DEF Next, Interrupt, RailComStartBitSecond, RailComGapSecond, PreambleStartBitSecond,
      PreambleSecond, StartBitSecond, DataSecond, EndBitSecond

LEMMA BitAtType == \A byte, place : BitAt(byte, place) \in Bit
  BY DEF BitAt, Bit

LEMMA PacketLength == Packets => Len(currentPacket) \in 0..ByteMod - 1
<1> SUFFICES ASSUME Packets PROVE Len(currentPacket) \in 0..ByteMod - 1
  OBVIOUS
<1>1. CASE currentPacket \in Sent
  BY <1>1, PacketAssumption, CounterAssumption DEF Sent
<1>2. CASE currentPacket = << >>
  BY <1>2, CounterAssumption
<1> QED
  BY <1>1, <1>2 DEF Packets

(* The counters are counted down modulo the size of a byte.                  *)
LEMMA CountersStayBytes ==
  ASSUME NEW x \in 0..ByteMod - 1
  PROVE  (x - 1) % ByteMod \in 0..ByteMod - 1
<1>1. ByteMod \in Nat \ {0} /\ x - 1 \in Int
  BY CounterAssumption
<1> QED
  BY <1>1

LEMMA OneLess ==
  ASSUME NEW x \in 1..ByteMod - 1
  PROVE  (x - 1) % ByteMod = x - 1
  BY CounterAssumption

LEMMA StepCounters ==
  ASSUME Counters, Packets, [Next]_vars
  PROVE  Counters'
<1> USE DEF Counters
<1>1. ASSUME FirstHalf, timer' \in {timer, "one", "zero", "railcom"} PROVE Counters'
  BY <1>1 DEF FirstHalf
<1>2. CASE RailComStartBit29 \/ RailComStartBit58 \/ NothingToDo \/ PreambleStartBitFirst
  BY <1>1, <1>2 DEF RailComStartBit29, RailComStartBit58, NothingToDo, PreambleStartBitFirst
<1>3. CASE StartBitPacketFirst \/ StartBitDataFirst \/ EndBitFirst
  BY <1>1, <1>3 DEF StartBitPacketFirst, StartBitDataFirst, EndBitFirst
<1>4. CASE DataFirst
  BY <1>1, <1>4, BitAtType DEF DataFirst, BitToSend, Bit
<1>5. ASSUME SecondHalf, state' \in States, bitsRemaining' \in 0..ByteMod - 1,
             bytesRemainingInPacket' \in 0..ByteMod - 1
      PROVE  Counters'
  BY <1>5 DEF SecondHalf
<1>6. OneBitLess => bitsRemaining' \in 0..ByteMod - 1
  BY CountersStayBytes DEF OneBitLess
<1>7. CASE RailComStartBitSecond \/ PreambleStartBitSecond \/ PreambleSecond
  BY <1>5, <1>6, <1>7 DEF RailComStartBitSecond, PreambleStartBitSecond, PreambleSecond, States
<1>8. CASE RailComGapSecond
  BY <1>5, <1>6, <1>8, PreambleAssumption, CounterAssumption DEF RailComGapSecond, States
<1>9. CASE StartBitSecond
  <2>1. Len(currentPacket) \in 0..ByteMod - 1
    BY PacketLength
  <2> QED
    BY <1>5, <1>9, <2>1, CounterAssumption DEF StartBitSecond, States
<1>10. CASE DataSecond
  <2>1. bytesRemainingInPacket' \in 0..ByteMod - 1
    BY <1>10, CountersStayBytes DEF DataSecond
  <2> QED
    BY <1>5, <1>6, <1>10, <2>1 DEF DataSecond, States
<1>11. CASE EndBitSecond
  BY <1>5, <1>11, PreambleAssumption, CounterAssumption DEF EndBitSecond, States
<1>12. CASE Method
  <2>1. CASE UNCHANGED <<bitCounters, timer>>
    BY <2>1 DEF bitCounters
  <2>2. ASSUME NEW inverted, setupWaveformGenerator(inverted) PROVE Counters'
    BY <2>2, PreambleAssumption, CounterAssumption DEF setupWaveformGenerator, States
  <2> QED
    BY <1>12, <2>1, <2>2 DEF Method, MethodOfOneStep, SendBegin, EnterServiceMode,
       LeaveServiceMode, StopServiceModeRepeats, StopOutputSignal, RunOutputSignal, SetRailCom,
       SetDccSignalInverted, ChangeMonitor
<1>13. CASE UNCHANGED vars \/ Continue
  BY <1>13 DEF vars, device, bitCounters, Continue, SendCopy, LeaveCancel, WriteDefaultPacket
<1> QED
  BY <1>2, <1>3, <1>4, <1>7, <1>8, <1>9, <1>10, <1>11, <1>12, <1>13 DEF Next, Interrupt

LEMMA StepPackets ==
  ASSUME Packets, InMethod, [Next]_vars
  PROVE  Packets'
<1> USE DEF Packets
<1>1. CASE UNCHANGED <<packets, sm>>
  BY <1>1 DEF packets, sm
<1>2. CASE StartBitPacketFirst
  BY <1>2, CounterAssumption DEF StartBitPacketFirst, NewPacket, FillPacket, RepeatPacket,
       isServiceModeRepeating, Sent
<1>3. CASE Interrupt /\ ~StartBitPacketFirst
  <2>1. UNCHANGED <<packets, sm>>
    BY <1>3 DEF Interrupt, RailComStartBit29, RailComStartBit58, NothingToDo,
         PreambleStartBitFirst, DataFirst, StartBitDataFirst, EndBitFirst, SecondHalf,
         RailComStartBitSecond, RailComGapSecond, PreambleStartBitSecond, PreambleSecond,
         StartBitSecond, DataSecond, EndBitSecond
  <2> QED
    BY <1>1, <2>1
<1>4. CASE Continue
  BY <1>4, CounterAssumption DEF Continue, SendCopy, LeaveCancel, WriteDefaultPacket, InMethod,
     packets, sm
<1>5. CASE (\E p \in Packet : SendBegin(p)) \/ EnterServiceMode \/ LeaveServiceMode
             \/ StopServiceModeRepeats
  BY <1>5, CounterAssumption DEF SendBegin, EnterServiceMode, LeaveServiceMode,
     StopServiceModeRepeats, packets
<1>6. ASSUME NEW inverted, setupWaveformGenerator(inverted) PROVE Packets'
  BY <1>6, CounterAssumption DEF setupWaveformGenerator
<1>7. CASE Method
  BY <1>1, <1>5, <1>6, <1>7 DEF Method, MethodOfOneStep, StopOutputSignal, RunOutputSignal,
     SetRailCom, SetDccSignalInverted, ChangeMonitor
<1>8. CASE UNCHANGED vars
  BY <1>1, <1>8 DEF vars, device
<1> QED
  BY <1>2, <1>3, <1>4, <1>7, <1>8 DEF Next

LEMMA StepPins ==
  ASSUME Pins, Flags, app \in Programs, [Next]_vars
  PROVE  Pins'
<1> USE DEF Pins
<1>1. CASE UNCHANGED pins
  BY <1>1 DEF pins
<1>2. CASE RailComStartBit29 \/ RailComStartBit58 \/ PreambleStartBitFirst
  BY <1>2, PinTypes DEF RailComStartBit29, RailComStartBit58, PreambleStartBitFirst
<1>3. CASE TogglePins
  BY <1>3, PinTypes DEF TogglePins
<1>4. ASSUME SecondHalf, dccRail' \in {Toggle(dccRail), EnableIfPowered(Toggle(dccRail))}
      PROVE  Pins'
  BY <1>4, PinTypes DEF SecondHalf
<1>5. CASE Interrupt
  BY <1>2, <1>3, <1>4, <1>5 DEF Interrupt, NothingToDo, StartBitPacketFirst, DataFirst,
     StartBitDataFirst, EndBitFirst, RailComStartBitSecond, RailComGapSecond,
     PreambleStartBitSecond, PreambleSecond, StartBitSecond, DataSecond, EndBitSecond
<1>6. CASE StopOutputSignal
  BY <1>6 DEF StopOutputSignal, Pin
<1>7. ASSUME NEW inverted \in BOOLEAN, setupWaveformGenerator(inverted) PROVE Pins'
  BY <1>7 DEF setupWaveformGenerator, Pin
<1>8. CASE Method
  <2>1. app.inverted \subseteq BOOLEAN /\ dccSignalInverted \in BOOLEAN
    BY ProgramsAssumption DEF Flags
  <2> QED
    BY <1>1, <1>6, <1>7, <1>8, <2>1 DEF Method, MethodOfOneStep, SendBegin, EnterServiceMode,
       LeaveServiceMode, StopServiceModeRepeats, RunOutputSignal, SetRailCom,
       SetDccSignalInverted, ChangeMonitor
<1>9. CASE UNCHANGED vars \/ Continue
  BY <1>1, <1>9 DEF vars, device, Continue, SendCopy, LeaveCancel, WriteDefaultPacket
<1> QED
  BY <1>5, <1>8, <1>9 DEF Next

LEMMA HearTypes ==
  ASSUME decoder \in Ear
  PROVE  HearOne \in Ear /\ HearZero \in Ear
<1>1. ASSUME NEW b \in Bit PROVE HearBit(b) \in Ear
  <2>1. Append(decoder.byte, b) \in Seq(Bit)
    BY DEF Ear
  <2>2. (IF Len(decoder.byte) + 1 = BITS THEN "after" ELSE decoder.phase)
          \in {"preamble", "byte", "after"}
    BY DEF Ear
  <2> QED
    BY <2>1, <2>2 DEF HearBit, Ear
<1>2. \A n \in Nat : [decoder EXCEPT !.ones = n] \in Ear /\ [NoEar EXCEPT !.ones = n] \in Ear
  BY NoEarType DEF Ear
<1>3. decoder.ones \in Nat /\ decoder.phase \in {"preamble", "byte", "after"}
  BY DEF Ear
<1>4. HearOne \in Ear
  <2>1. (IF decoder.ones < MinPreamble THEN decoder.ones + 1 ELSE decoder.ones) \in Nat
    BY <1>3
  <2>2. CASE decoder.phase = "preamble"
    BY <1>2, <2>1, <2>2 DEF HearOne
  <2>3. CASE decoder.phase = "byte"
    BY <1>1, <2>3 DEF HearOne, Bit
  <2>4. CASE decoder.phase = "after"
    BY <1>2, <2>4 DEF HearOne
  <2> QED
    BY <1>3, <2>2, <2>3, <2>4
<1>5. HearZero \in Ear
  <2>1. [NoEar EXCEPT !.phase = "byte"] \in Ear
    BY NoEarType DEF Ear
  <2>2. [decoder EXCEPT !.bytes = Append(@, decoder.byte), !.byte = << >>, !.phase = "byte"] \in Ear
    <3>1. Append(decoder.bytes, decoder.byte) \in Seq(Seq(Bit)) /\ << >> \in Seq(Bit)
      BY DEF Ear
    <3> QED
      BY <3>1 DEF Ear
  <2>3. CASE decoder.phase = "preamble"
    BY <2>1, <2>3, NoEarType DEF HearZero
  <2>4. CASE decoder.phase = "byte"
    BY <1>1, <2>4 DEF HearZero, Bit
  <2>5. CASE decoder.phase = "after"
    BY <2>2, <2>5, NoEarType DEF HearZero
  <2> QED
    BY <1>3, <2>3, <2>4, <2>5
<1> QED
  BY <1>4, <1>5

LEMMA StepEar ==
  ASSUME EarOK, [Next]_vars
  PROVE  EarOK'
<1> USE DEF EarOK
<1>1. CASE UNCHANGED ear
  BY <1>1 DEF ear
<1>2. CASE Hear
  <2>1. decoder' \in Ear
    BY <1>2, HearTypes, NoEarType DEF Hear
  <2>2. Append(decoder.bytes, decoder.byte) \in Seq(Seq(Bit))
    BY DEF Ear
  <2> QED
    BY <1>2, <2>1, <2>2 DEF Hear
<1>3. CASE decoder' = decoder /\ heard' = << >>
  BY <1>3
<1>4. CASE Interrupt
  BY <1>1, <1>2, <1>3, <1>4 DEF Interrupt, FirstHalf, SecondHalf, RailComStartBit29,
     RailComStartBit58, NothingToDo, PreambleStartBitFirst, StartBitPacketFirst, DataFirst,
     StartBitDataFirst, EndBitFirst, RailComStartBitSecond, RailComGapSecond,
     PreambleStartBitSecond, PreambleSecond, StartBitSecond, DataSecond, EndBitSecond, ear
<1>5. ASSUME NEW inverted, setupWaveformGenerator(inverted) PROVE EarOK'
  BY <1>5, NoEarType DEF setupWaveformGenerator
<1>6. CASE Method
  BY <1>1, <1>5, <1>6 DEF Method, MethodOfOneStep, SendBegin, EnterServiceMode,
     LeaveServiceMode, StopServiceModeRepeats, StopOutputSignal, RunOutputSignal, SetRailCom,
     SetDccSignalInverted, ChangeMonitor
<1>7. CASE UNCHANGED vars \/ Continue
  BY <1>1, <1>7 DEF vars, device, Continue, SendCopy, LeaveCancel, WriteDefaultPacket
<1> QED
  BY <1>4, <1>6, <1>7 DEF Next

LEMMA StepTypeOK == TypeOK /\ [Next]_vars => TypeOK'
<1> SUFFICES ASSUME TypeOK, [Next]_vars PROVE TypeOK'
  OBVIOUS
<1>1. app \in Programs /\ Flags /\ Counters /\ Packets /\ Pins /\ InMethod /\ EarOK
  BY TypeParts
<1>2. app' = app
  BY DEF Next, vars
<1>3. Flags' /\ Counters' /\ Packets' /\ Pins' /\ InMethod' /\ EarOK'
  BY <1>1, StepFlags, StepCounters, StepPackets, StepPins, StepInMethod, StepEar
<1> QED
  BY <1>1, <1>2, <1>3 DEF TypeOK, Flags, Counters, Packets, Pins, InMethod, StepsToDo, EarOK, Pin,
     Sent, Ear

-----------------------------------------------------------------------------
(* What holds as long as nobody sets the generator up again.                 *)
Dead(pin) == ~pin.level /\ ~pin.enable

OffOK == ~railPower => Dead(dccRail) /\ Dead(dccRailInv)

(* The packet that is being sent has begun.                                  *)
InPacket ==
  \/ state \in {"dccStartBitData", "dccData", "dccEndBit"}
  \/ state = "dccStartBitPacket" /\ ~firstHalfBit

(* What a method has already changed, and what it has yet to change.         *)
MethodOK ==
  /\ doing \in {<< >>, <<"copy">>} => (smActive <=> defaultPacket = Reset)
  /\ doing # << >> => canAcceptPacket
  /\ doing = <<"copy">> =>
       sending \in Packet /\ (isServiceModePacket <=> smActive /\ sending \in ServicePacket)
  /\ doing = <<"cancel", "default">> => ~smActive

(* leaveServiceMode() has yet to cancel the repeats that are left.           *)
ServiceOK ==
  /\ ~canAcceptPacket => nextPacket \in Packet /\ (isServiceModePacket => smActive)
  /\ ~smActive /\ smRepeatsRemaining > 0 => doing = <<"cancel", "default">>
  /\ smRepeatsRemaining > 0 => currentPacket \in Sent
  /\ InPacket => currentPacket \in Sent

(* The methods that such a program calls.                                    *)
CalmOneStep ==
  \/ StopServiceModeRepeats \/ StopOutputSignal \/ RunOutputSignal
  \/ \E active \in app.railCom : SetRailCom(active)

CalmMethod ==
  \/ \E p \in Packet : SendBegin(p)
  \/ EnterServiceMode \/ LeaveServiceMode
  \/ CalmOneStep /\ Call(<< >>) /\ UNCHANGED sending
  \/ Continue

CalmNext == (Interrupt /\ UNCHANGED method) \/ CalmMethod \/ UNCHANGED vars

LEMMA CalmSteps ==
  ASSUME Undisturbed', [Next]_vars
  PROVE  Undisturbed /\ CalmNext
<1>1. Undisturbed /\ app' = app
  BY DEF Next, vars, Undisturbed
<1> QED
  BY <1>1 DEF Next, Method, MethodOfOneStep, CalmNext, CalmMethod, CalmOneStep, Undisturbed,
     ChangeMonitor

(* A pin that is disabled and low is left alone until there is power again.  *)
LEMMA StepOffOK ==
  ASSUME Pins, OffOK, CalmNext
  PROVE  OffOK'
<1>1. ASSUME NEW pin \in Pin, Dead(pin)
      PROVE  /\ Toggle(pin) = pin /\ Dead(Disable(pin))
             /\ ~railPower => EnableIfPowered(pin) = pin
  BY <1>1 DEF Dead, Pin, Toggle, Disable, EnableIfPowered
<1>2. CASE Interrupt
  <2>1. railPower' = railPower
    BY <1>2 DEF Interrupt, FirstHalf, SecondHalf, RailComStartBit29,
       RailComStartBit58, NothingToDo, PreambleStartBitFirst, StartBitPacketFirst, DataFirst,
       StartBitDataFirst, EndBitFirst, RailComStartBitSecond, RailComGapSecond,
       PreambleStartBitSecond, PreambleSecond, StartBitSecond, DataSecond, EndBitSecond, settings
  <2>2. /\ dccRail' \in {Toggle(dccRail), Disable(Toggle(dccRail)), EnableIfPowered(Toggle(dccRail))}
        /\ dccRailInv' \in {Toggle(dccRailInv), Disable(Toggle(dccRailInv)),
                            EnableIfPowered(Toggle(dccRailInv))}
    BY <1>2 DEF Interrupt, SecondHalf, TogglePins, RailComStartBit29,
       RailComStartBit58, NothingToDo, PreambleStartBitFirst, StartBitPacketFirst, DataFirst,
       StartBitDataFirst, EndBitFirst, RailComStartBitSecond, RailComGapSecond,
       PreambleStartBitSecond, PreambleSecond, StartBitSecond, DataSecond, EndBitSecond
  <2> QED
    BY <1>1, <2>1, <2>2 DEF OffOK, Pins
<1>3. CASE StopOutputSignal
  BY <1>3 DEF StopOutputSignal, OffOK, Dead
<1>4. CASE RunOutputSignal
  <2>1. railPower'
    BY Zenon, <1>4 DEF RunOutputSignal
  <2> QED
    BY <2>1 DEF OffOK
<1>5. CASE UNCHANGED <<railPower, dccRail, dccRailInv>>
  BY <1>5 DEF OffOK
<1>6. CASE CalmMethod
  BY <1>3, <1>4, <1>5, <1>6 DEF CalmMethod, CalmOneStep, SendBegin, EnterServiceMode,
     LeaveServiceMode, StopServiceModeRepeats, SetRailCom, Continue, SendCopy, LeaveCancel,
     WriteDefaultPacket, settings, pins
<1> QED
  BY <1>2, <1>5, <1>6 DEF CalmNext, vars, device, settings, pins

(* A method that has begun goes on step by step, whatever interrupts it.     *)
LEMMA StepMethodOK ==
  ASSUME TypeOK, MethodOK, CalmNext
  PROVE  MethodOK'
<1> USE DEF MethodOK
<1>0. doing \in StepsToDo
  BY TypeParts DEF InMethod
<1>1. CASE StartBitPacketFirst /\ UNCHANGED method
  BY <1>0, <1>1 DEF StartBitPacketFirst, NewPacket, FillPacket, RepeatPacket, method, StepsToDo
<1>2. CASE UNCHANGED <<packets, sm, method>>
  BY <1>2 DEF packets, sm, method
<1>3. CASE Interrupt /\ ~StartBitPacketFirst /\ UNCHANGED method
  <2>1. UNCHANGED <<packets, sm>>
    BY <1>3 DEF Interrupt, RailComStartBit29, RailComStartBit58, NothingToDo,
         PreambleStartBitFirst, DataFirst, StartBitDataFirst, EndBitFirst, SecondHalf,
         RailComStartBitSecond, RailComGapSecond, PreambleStartBitSecond, PreambleSecond,
         StartBitSecond, DataSecond, EndBitSecond
  <2> QED
    BY <1>2, <1>3, <2>1
<1>4. ASSUME NEW p \in Packet, SendBegin(p) PROVE MethodOK'
  <2>1. isServiceModePacket' <=> smActive /\ p \in ServicePacket
    BY Zenon, <1>4 DEF SendBegin
  <2> QED
    BY <1>4, <2>1 DEF SendBegin, Call, packets
<1>5. CASE EnterServiceMode \/ LeaveServiceMode
  BY <1>5 DEF EnterServiceMode, LeaveServiceMode, Call, packets
<1>6. CASE CalmOneStep /\ Call(<< >>) /\ UNCHANGED sending
  BY <1>6 DEF CalmOneStep, StopServiceModeRepeats, StopOutputSignal, RunOutputSignal, SetRailCom,
     Call, packets, sm
<1>7. CASE SendCopy
  BY <1>0, <1>7, StepsInTurn DEF SendCopy, sm
<1>8. CASE LeaveCancel
  BY <1>0, <1>8, StepsInTurn DEF LeaveCancel, packets
<1>9. CASE WriteDefaultPacket
  BY <1>0, <1>9, StepsInTurn, DefaultsAssumption DEF WriteDefaultPacket, sm
<1> QED
  BY <1>1, <1>2, <1>3, <1>4, <1>5, <1>6, <1>7, <1>8, <1>9
  DEF CalmNext, CalmMethod, Continue, vars, device

LEMMA StepServiceOK ==
  ASSUME TypeOK, MethodOK, ServiceOK, CalmNext
  PROVE  ServiceOK'
<1> USE DEF ServiceOK
<1>0. doing \in StepsToDo
  BY TypeParts DEF InMethod
<1>1. CASE StartBitPacketFirst /\ UNCHANGED method
  <2>1. currentPacket' \in Sent
    BY <1>1 DEF StartBitPacketFirst, NewPacket, FillPacket, RepeatPacket, Sent,
       isServiceModeRepeating, TypeOK
  <2>2. UNCHANGED <<defaultPacket, nextPacket, smActive, isServiceModePacket>>
    BY <1>1 DEF StartBitPacketFirst
  <2>3. ~canAcceptPacket' => ~canAcceptPacket
    BY <1>1 DEF StartBitPacketFirst, NewPacket, FillPacket, RepeatPacket
  <2>4. ~smActive /\ smRepeatsRemaining' > 0 => doing = <<"cancel", "default">>
    BY <1>1 DEF StartBitPacketFirst, NewPacket, FillPacket, RepeatPacket,
       isServiceModeRepeating, TypeOK
  <2> QED
    BY <1>1, <2>1, <2>2, <2>3, <2>4 DEF method
<1>2. ASSUME UNCHANGED <<packets, sm, method>>, InPacket' => InPacket PROVE ServiceOK'
  BY <1>2 DEF packets, sm, method
<1>3. CASE Interrupt /\ ~StartBitPacketFirst /\ UNCHANGED method
  <2>1. UNCHANGED <<packets, sm>>
    BY <1>3 DEF Interrupt, RailComStartBit29, RailComStartBit58, NothingToDo,
         PreambleStartBitFirst, DataFirst, StartBitDataFirst, EndBitFirst, SecondHalf,
         RailComStartBitSecond, RailComGapSecond, PreambleStartBitSecond, PreambleSecond,
         StartBitSecond, DataSecond, EndBitSecond
  <2>2. InPacket' => InPacket
    BY <1>3 DEF Interrupt, RailComStartBit29, RailComStartBit58, NothingToDo, ToSecondHalf,
         PreambleStartBitFirst, DataFirst, StartBitDataFirst, EndBitFirst, FirstHalf, SecondHalf,
         RailComStartBitSecond, RailComGapSecond, PreambleStartBitSecond, PreambleSecond,
         StartBitSecond, DataSecond, EndBitSecond, InPacket
  <2> QED
    BY <1>2, <1>3, <2>1, <2>2
<1>4. ASSUME NEW p \in Packet, SendBegin(p) PROVE ServiceOK'
  BY <1>4 DEF SendBegin, Call, bitCounters, packets, InPacket
<1>5. CASE EnterServiceMode
  BY <1>5 DEF EnterServiceMode, Call, bitCounters, packets, InPacket
<1>6. CASE LeaveServiceMode
  BY <1>6 DEF LeaveServiceMode, Call, bitCounters, packets, InPacket
<1>7. CASE StopServiceModeRepeats
  BY <1>7 DEF StopServiceModeRepeats, bitCounters, packets, InPacket
<1>8. ASSUME UNCHANGED <<packets, sm, bitCounters>>, doing' = doing PROVE ServiceOK'
  BY <1>8 DEF packets, sm, bitCounters, InPacket
<1>9. CASE CalmOneStep /\ Call(<< >>) /\ UNCHANGED sending
  BY <1>7, <1>8, <1>9 DEF CalmOneStep, StopOutputSignal, RunOutputSignal, SetRailCom, Call
<1>10. CASE SendCopy
  BY <1>0, <1>10, StepsInTurn DEF SendCopy, MethodOK, sm, bitCounters, InPacket
<1>11. CASE LeaveCancel
  BY <1>0, <1>11, StepsInTurn DEF LeaveCancel, MethodOK, packets, bitCounters, InPacket
<1>12. CASE WriteDefaultPacket
  BY <1>0, <1>12, StepsInTurn DEF WriteDefaultPacket, MethodOK, sm, bitCounters, InPacket
<1> QED
  BY <1>1, <1>3, <1>4, <1>5, <1>6, <1>8, <1>9, <1>10, <1>11, <1>12
  DEF CalmNext, CalmMethod, Continue, vars, device, method

-----------------------------------------------------------------------------
(* What the decoder has got by now.  Nothing of a packet:                    *)
Preambled == decoder.phase = "preamble" /\ decoder.byte = << >> /\ decoder.bytes = << >>

(* the first n bytes of the packet on the rails, and n bits of byte i:       *)
BytesHeard(n) ==
  /\ Len(decoder.bytes) = n
  /\ \A j \in 1..n : decoder.bytes[j] = Coded(currentPacket)[j]

BitsHeard(i, n) ==
  /\ Len(decoder.byte) = n
  /\ \A k \in 1..n : decoder.byte[k] = BitAt(currentPacket[i], BITS - k)

(* The byte that is being sent.                                              *)
Current == Len(currentPacket) - bytesRemainingInPacket + 1

Gap == {"dccRailComStartBit", "dccRailComGap"}
Ones == {"dccPreambleStartBit", "dccPreamble"}

TimerOK ==
  /\ state \in Ones \union {"dccRailComGap"} => timer = "one"
  /\ ~firstHalfBit =>
       /\ state \in {"dccStartBitPacket", "dccStartBitData"} => timer = "zero"
       /\ state = "dccEndBit" => timer = "one"
       /\ state = "dccData" => timer = BitAt(currentPacket[Current], bitsRemaining - 1)

CountersOK ==
  /\ state = "dccRailComStartBit" => bitsRemaining = RAILCOM_CUTOUT_LENGTH
  /\ state = "dccRailComGap" => bitsRemaining \in 1..RAILCOM_CUTOUT_LENGTH
  /\ state = "dccPreambleStartBit" => bitsRemaining >= 2
  /\ state = "dccPreamble" => bitsRemaining >= 1
  /\ state = "dccData" =>
       bitsRemaining \in 1..BITS /\ bytesRemainingInPacket \in 1..Len(currentPacket)
  /\ state = "dccStartBitData" => bytesRemainingInPacket \in 1..Len(currentPacket) - 1

DecoderOK ==
  /\ state \in Gap \union Ones \union {"dccStartBitPacket"} => Preambled
  /\ state \in Ones => decoder.ones + bitsRemaining >= MinPreamble
  /\ state = "dccStartBitPacket" => decoder.ones >= MinPreamble
  /\ state = "dccData" =>
       /\ decoder.phase = "byte"
       /\ BytesHeard(Current - 1) /\ BitsHeard(Current, BITS - bitsRemaining)
  /\ state = "dccStartBitData" =>
       /\ decoder.phase = "after"
       /\ BytesHeard(Current - 2) /\ BitsHeard(Current - 1, BITS)
  /\ state = "dccEndBit" =>
       /\ decoder.phase = "after"
       /\ BytesHeard(Len(currentPacket) - 1) /\ BitsHeard(Len(currentPacket), BITS)
  /\ state \in Gap \union Ones \/ (state = "dccStartBitPacket" /\ firstHalfBit) =>
       heard = Coded(currentPacket)

StreamOK == TimerOK /\ CountersOK /\ DecoderOK

(* The packet as the decoder would put it together.                          *)
LEMMA CodedBytes ==
  ASSUME NEW p, Len(p) \in Nat
  PROVE  /\ Coded(p) \in Seq(Seq(Bit)) /\ Len(Coded(p)) = Len(p)
         /\ \A i \in 1..Len(p) : /\ Coded(p)[i] \in Seq(Bit) /\ Len(Coded(p)[i]) = BITS
                                 /\ \A k \in 1..BITS : Coded(p)[i][k] = BitAt(p[i], BITS - k)
<1>1. ASSUME NEW i \in 1..Len(p)
      PROVE  /\ Coded(p)[i] \in Seq(Bit) /\ Len(Coded(p)[i]) = BITS
             /\ \A k \in 1..BITS : Coded(p)[i][k] = BitAt(p[i], BITS - k)
  <2>1. Coded(p)[i] = [k \in 1..BITS |-> BitAt(p[i], BITS - k)]
    BY DEF Coded
  <2>2. [k \in 1..BITS |-> BitAt(p[i], BITS - k)] \in [1..BITS -> Bit]
    BY BitAtType
  <2> QED
    BY <2>1, <2>2, CounterAssumption
<1>2. Coded(p) \in [1..Len(p) -> Seq(Bit)]
  BY <1>1 DEF Coded
<1> QED
  BY <1>1, <1>2

LEMMA ByteHeard ==
  ASSUME decoder \in Ear, Len(currentPacket) \in Nat,
         NEW i \in 1..Len(currentPacket), BitsHeard(i, BITS)
  PROVE  decoder.byte = Coded(currentPacket)[i]
<1>1. decoder.byte \in Seq(Bit)
  BY DEF Ear
<1>2. Coded(currentPacket)[i] \in Seq(Bit) /\ Len(Coded(currentPacket)[i]) = BITS
  BY CodedBytes
<1>3. \A k \in 1..BITS : decoder.byte[k] = Coded(currentPacket)[i][k]
  BY CodedBytes DEF BitsHeard
<1> QED
  BY <1>1, <1>2, <1>3, SeqEqual DEF BitsHeard

LEMMA BytesGrow ==
  ASSUME decoder \in Ear, Len(currentPacket) \in Nat, NEW n \in 0..Len(currentPacket) - 1,
         BytesHeard(n), BitsHeard(n + 1, BITS), NEW bs, bs = Append(decoder.bytes, decoder.byte)
  PROVE  /\ bs \in Seq(Seq(Bit)) /\ Len(bs) = n + 1
         /\ \A j \in 1..n + 1 : bs[j] = Coded(currentPacket)[j]
<1>1. decoder.bytes \in Seq(Seq(Bit)) /\ decoder.byte \in Seq(Bit)
  BY DEF Ear
<1>2. decoder.byte = Coded(currentPacket)[n + 1]
  BY ByteHeard
<1>3. /\ bs \in Seq(Seq(Bit)) /\ Len(bs) = n + 1
      /\ \A j \in 1..n : bs[j] = decoder.bytes[j]
      /\ bs[n + 1] = decoder.byte
  BY <1>1, AppendProperties DEF BytesHeard
<1> QED
  BY <1>2, <1>3 DEF BytesHeard

(* The first half of a bit sets its length, and nothing that was heard.      *)
LEMMA FirstHalvesOK ==
  ASSUME TypeOK, StreamOK,
         RailComStartBit29 \/ RailComStartBit58 \/ NothingToDo \/ PreambleStartBitFirst
           \/ StartBitPacketFirst \/ DataFirst \/ StartBitDataFirst \/ EndBitFirst
  PROVE  StreamOK'
<1>1. FirstHalf
  BY DEF RailComStartBit29, RailComStartBit58, NothingToDo, PreambleStartBitFirst,
     StartBitPacketFirst, DataFirst, StartBitDataFirst, EndBitFirst
<1>2. UNCHANGED <<decoder, bitsRemaining, bytesRemainingInPacket, state>> /\ firstHalfBit
  BY <1>1 DEF FirstHalf
<1>3. CASE StartBitPacketFirst
  <2>1. ~firstHalfBit' /\ timer' = "zero" /\ state = "dccStartBitPacket"
    BY <1>3 DEF StartBitPacketFirst, ToSecondHalf
  <2>2. TimerOK' /\ CountersOK'
    BY <1>2, <2>1 DEF TimerOK, CountersOK, Ones
  <2>3. DecoderOK'
    BY <1>2, <2>1 DEF StreamOK, DecoderOK, Preambled, Gap, Ones
  <2> QED
    BY <2>2, <2>3 DEF StreamOK
<1>4. CASE ~StartBitPacketFirst
  <2>1. UNCHANGED <<currentPacket, heard>> /\ state # "dccStartBitPacket"
    BY <1>4 DEF RailComStartBit29, RailComStartBit58, NothingToDo, PreambleStartBitFirst,
       DataFirst, StartBitDataFirst, EndBitFirst, packets
  <2>2. CountersOK'
    BY <1>2, <2>1 DEF StreamOK, CountersOK
  <2>3. DecoderOK'
    BY <1>2, <2>1 DEF StreamOK, DecoderOK, Preambled, BytesHeard, BitsHeard, Current
  <2>4. TimerOK'
    <3>1. CASE RailComStartBit29 \/ RailComStartBit58
      BY <1>2, <3>1 DEF RailComStartBit29, RailComStartBit58, TimerOK, Ones
    <3>2. CASE NothingToDo \/ PreambleStartBitFirst
      BY <1>2, <3>2 DEF NothingToDo, PreambleStartBitFirst, StreamOK, TimerOK, Ones
    <3>3. CASE DataFirst
      <4>1. Current \in DOMAIN currentPacket
        <5>1. CASE currentPacket = << >>
          BY <3>3, <5>1 DEF DataFirst, StreamOK, CountersOK
        <5>2. CASE currentPacket \in Sent
          <6>1. currentPacket \in Seq(Nat)
            BY <5>2, PacketAssumption DEF Sent
          <6> QED
            BY <3>3, <6>1 DEF DataFirst, StreamOK, CountersOK, Current
        <5> QED
          BY <5>1, <5>2 DEF TypeOK, Sent
      <4>2. timer' = BitAt(currentPacket[Current], bitsRemaining - 1)
        BY <3>3, <4>1 DEF DataFirst, BitToSend, Current
      <4> QED
        BY <1>2, <2>1, <3>3, <4>2 DEF DataFirst, TimerOK, Ones, Current
    <3>4. CASE StartBitDataFirst \/ EndBitFirst
      BY <1>2, <3>4 DEF StartBitDataFirst, EndBitFirst, TimerOK, Ones
    <3> QED
      BY <1>4, <3>1, <3>2, <3>3, <3>4
  <2> QED
    BY <2>2, <2>3, <2>4 DEF StreamOK
<1> QED
  BY <1>3, <1>4

(* What the decoder makes of a whole bit.                                    *)
LEMMA WholeBit ==
  ASSUME TypeOK, SecondHalf, state \notin Gap
  PROVE  /\ timer' = timer
         /\ timer = "one" => decoder' = HearOne
         /\ timer = "zero" => decoder' = HearZero
         /\ firstHalfBit' /\ currentPacket' = currentPacket
         /\ decoder.phase # "after" => heard' = heard
<1>1. timer' = timer /\ currentPacket' = currentPacket
  BY DEF SecondHalf, packets, Gap
<1>2. firstHalfBit'
  BY Zenon DEF SecondHalf
<1> QED
  BY <1>1, <1>2 DEF SecondHalf, Hear, Gap

(* In the gap the decoder hears nothing.                                     *)
LEMMA GapsOK ==
  ASSUME TypeOK, StreamOK, RailComStartBitSecond \/ RailComGapSecond
  PROVE  StreamOK'
<1>1. SecondHalf /\ state \in Gap
  BY DEF RailComStartBitSecond, RailComGapSecond, Gap
<1>2. /\ decoder' = NoEar /\ currentPacket' = currentPacket
      /\ heard' = heard /\ heard = Coded(currentPacket)
  BY <1>1 DEF SecondHalf, Hear, Gap, StreamOK, DecoderOK, Preambled, packets
<1>3. firstHalfBit'
  BY Zenon, <1>1 DEF SecondHalf
<1>4. timer' = "one"
  BY <1>1 DEF SecondHalf, StreamOK, TimerOK, Gap
<1>5. Preambled' /\ decoder'.ones = 0
  BY <1>2 DEF Preambled, NoEar
<1>6. CASE RailComStartBitSecond
  <2>1. state' = "dccRailComGap" /\ bitsRemaining' = RAILCOM_CUTOUT_LENGTH - 1
    <3>1. bitsRemaining = RAILCOM_CUTOUT_LENGTH
      BY <1>6 DEF RailComStartBitSecond, StreamOK, CountersOK
    <3> QED
      BY <1>6, <3>1, OneLess, PreambleAssumption, CounterAssumption
      DEF RailComStartBitSecond, OneBitLess
  <2>2. TimerOK' /\ CountersOK'
    BY <1>3, <1>4, <2>1, PreambleAssumption DEF TimerOK, CountersOK
  <2>3. DecoderOK'
    BY <1>2, <1>5, <2>1 DEF DecoderOK, Ones
  <2> QED
    BY <2>2, <2>3 DEF StreamOK
<1>7. CASE RailComGapSecond
  <2>1. bitsRemaining \in 1..RAILCOM_CUTOUT_LENGTH
    BY <1>7 DEF RailComGapSecond, StreamOK, CountersOK
  <2>2. CASE bitsRemaining = 1
    <3>1. state' = "dccPreambleStartBit" /\ bitsRemaining' = PREAMBLE - RAILCOM_CUTOUT_LENGTH
      BY <1>7, <2>2 DEF RailComGapSecond
    <3>2. TimerOK' /\ CountersOK'
      BY <1>3, <1>4, <3>1, PreambleAssumption DEF TimerOK, CountersOK
    <3>3. DecoderOK'
      BY <1>2, <1>5, <3>1, PreambleAssumption, DecoderAssumption DEF DecoderOK, Ones, Gap
    <3> QED
      BY <3>2, <3>3 DEF StreamOK
  <2>3. CASE bitsRemaining # 1
    <3>1. state' = "dccRailComGap" /\ bitsRemaining' = bitsRemaining - 1
      BY <1>7, <2>1, <2>3, OneLess, PreambleAssumption, CounterAssumption
      DEF RailComGapSecond, OneBitLess
    <3>2. TimerOK' /\ CountersOK'
      BY <1>3, <1>4, <2>1, <2>3, <3>1, PreambleAssumption DEF TimerOK, CountersOK
    <3>3. DecoderOK'
      BY <1>2, <1>5, <3>1 DEF DecoderOK, Ones
    <3> QED
      BY <3>2, <3>3 DEF StreamOK
  <2> QED
    BY <2>2, <2>3
<1> QED
  BY <1>6, <1>7

LEMMA PreamblesOK ==
  ASSUME TypeOK, StreamOK, PreambleStartBitSecond \/ PreambleSecond
  PROVE  StreamOK'
<1>1. SecondHalf /\ state \in Ones /\ state \notin Gap
  BY DEF PreambleStartBitSecond, PreambleSecond, Ones, Gap
<1>2. timer = "one" /\ Preambled /\ heard = Coded(currentPacket)
  BY <1>1 DEF StreamOK, TimerOK, DecoderOK
<1>3. /\ timer' = "one" /\ decoder' = HearOne /\ firstHalfBit'
      /\ currentPacket' = currentPacket /\ heard' = heard
  BY <1>1, <1>2, WholeBit DEF Preambled
<1>4. decoder \in Ear /\ decoder.ones \in Nat
  BY DEF TypeOK, Ear
<1>5. /\ decoder'.phase = "preamble" /\ decoder'.byte = << >> /\ decoder'.bytes = << >>
      /\ decoder'.ones = IF decoder.ones < MinPreamble THEN decoder.ones + 1 ELSE decoder.ones
  <2>1. decoder' = [decoder EXCEPT !.ones = IF @ < MinPreamble THEN @ + 1 ELSE @]
    BY <1>2, <1>3 DEF HearOne, Preambled
  <2> QED
    BY <1>2, <1>4, <2>1 DEF Ear, Preambled
<1>6. Preambled'
  BY <1>5 DEF Preambled
<1>7. decoder.ones + bitsRemaining >= MinPreamble /\ bitsRemaining \in 1..ByteMod - 1
  BY <1>1, CounterAssumption DEF StreamOK, DecoderOK, CountersOK, Ones, TypeOK
<1>8. bitsRemaining' = bitsRemaining - 1
  BY <1>7, OneLess DEF PreambleStartBitSecond, PreambleSecond, OneBitLess
<1>9. decoder'.ones + bitsRemaining' >= MinPreamble
  BY <1>4, <1>5, <1>7, <1>8, DecoderAssumption
<1>10. CASE PreambleStartBitSecond
  <2>1. state' = "dccPreamble" /\ bitsRemaining >= 2
    BY <1>10 DEF PreambleStartBitSecond, StreamOK, CountersOK
  <2>2. TimerOK' /\ CountersOK'
    BY <1>3, <1>7, <1>8, <2>1 DEF TimerOK, CountersOK
  <2>3. DecoderOK'
    BY <1>2, <1>3, <1>6, <1>9, <2>1 DEF DecoderOK
  <2> QED
    BY <2>2, <2>3 DEF StreamOK
<1>11. CASE PreambleSecond /\ bitsRemaining = 1
  <2>1. state' = "dccStartBitPacket"
    BY <1>11 DEF PreambleSecond
  <2>2. TimerOK' /\ CountersOK'
    BY <1>3, <2>1 DEF TimerOK, CountersOK, Ones
  <2>3. decoder'.ones >= MinPreamble
    BY <1>8, <1>9, <1>11, <1>4, <1>5, DecoderAssumption
  <2>4. DecoderOK'
    BY <1>2, <1>3, <1>6, <2>1, <2>3 DEF DecoderOK, Ones, Gap
  <2> QED
    BY <2>2, <2>4 DEF StreamOK
<1>12. CASE PreambleSecond /\ bitsRemaining # 1
  <2>1. state' = "dccPreamble"
    BY <1>12 DEF PreambleSecond
  <2>2. TimerOK' /\ CountersOK'
    BY <1>3, <1>7, <1>8, <1>12, <2>1 DEF TimerOK, CountersOK
  <2>3. DecoderOK'
    BY <1>2, <1>3, <1>6, <1>9, <2>1 DEF DecoderOK
  <2> QED
    BY <2>2, <2>3 DEF StreamOK
<1> QED
  BY <1>10, <1>11, <1>12

(* A start bit ends the preamble, or the byte before it.                     *)
LEMMA StartBitsOK ==
  ASSUME TypeOK, ServiceOK, StreamOK, StartBitSecond
  PROVE  StreamOK'
<1>1. SecondHalf /\ state \in {"dccStartBitPacket", "dccStartBitData"} /\ state \notin Gap
  BY DEF StartBitSecond, Gap
<1>2. timer = "zero" /\ ~firstHalfBit
  BY <1>1 DEF StreamOK, TimerOK, SecondHalf
<1>3. timer' = "zero" /\ decoder' = HearZero /\ firstHalfBit' /\ currentPacket' = currentPacket
  BY <1>1, <1>2, WholeBit
<1>4. state' = "dccData" /\ bitsRemaining' = BITS
  BY DEF StartBitSecond
<1>5. currentPacket \in Seq(Nat) /\ Len(currentPacket) \in 1..MaxBytes /\ MaxBytes \in Nat
  <2>1. currentPacket \in Sent
    BY <1>1, <1>2 DEF ServiceOK, InPacket
  <2> QED
    BY <2>1, PacketAssumption, DecoderAssumption DEF Sent
<1>6. decoder \in Ear
  BY DEF TypeOK, Ear
<1>7. BITS \in Nat \ {0}
  BY CounterAssumption
<1>8. TimerOK'
  BY <1>3, <1>4 DEF TimerOK, Ones
<1>9. CASE state = "dccStartBitPacket"
  <2>1. bytesRemainingInPacket' = Len(currentPacket)
    BY <1>9 DEF StartBitSecond
  <2>2. CountersOK'
    BY <1>3, <1>4, <1>5, <1>7, <2>1 DEF CountersOK
  <2>3. decoder.phase = "preamble" /\ decoder.ones >= MinPreamble
    BY <1>9 DEF StreamOK, DecoderOK, Preambled
  <2>4. decoder' = [NoEar EXCEPT !.phase = "byte"]
    <3>1. decoder.ones \in Nat /\ MinPreamble \in Nat
      BY <1>6, DecoderAssumption DEF Ear
    <3> QED
      BY <1>3, <2>3, <3>1 DEF HearZero
  <2>5. decoder'.phase = "byte" /\ decoder'.byte = << >> /\ decoder'.bytes = << >>
    BY <2>4 DEF NoEar
  <2>6. Current' = 1
    BY <1>3, <1>5, <2>1 DEF Current
  <2>7. BytesHeard(0)' /\ BitsHeard(1, 0)'
    BY <2>5 DEF BytesHeard, BitsHeard
  <2>8. DecoderOK'
    <3>1. Current' - 1 = 0 /\ BITS - bitsRemaining' = 0
      BY <1>4, <1>7, <2>6
    <3> QED
      BY <1>4, <2>5, <2>6, <2>7, <3>1 DEF DecoderOK, Gap, Ones, BytesHeard, BitsHeard
  <2> QED
    BY <1>8, <2>2, <2>8 DEF StreamOK
<1>10. CASE state = "dccStartBitData"
  <2>1. bytesRemainingInPacket' = bytesRemainingInPacket
    BY <1>10 DEF StartBitSecond
  <2>2. bytesRemainingInPacket \in 1..Len(currentPacket) - 1
    BY <1>10 DEF StreamOK, CountersOK
  <2>3. CountersOK'
    BY <1>3, <1>4, <1>5, <1>7, <2>1, <2>2 DEF CountersOK
  <2>4. decoder.phase = "after" /\ BytesHeard(Current - 2) /\ BitsHeard(Current - 1, BITS)
    BY <1>10 DEF StreamOK, DecoderOK
  <2>5. Current \in 2..Len(currentPacket) /\ Current' = Current
    BY <1>3, <1>5, <2>1, <2>2 DEF Current
  <2>6. PICK n \in 0..Len(currentPacket) - 1 : n = Current - 2 /\ n + 1 = Current - 1 /\ n < MaxBytes - 1
    BY <1>5, <2>5
  <2>7. Len(decoder.bytes) # MaxBytes - 1
    BY <1>5, <2>4, <2>6 DEF BytesHeard
  <2>8. decoder' = [decoder EXCEPT !.bytes = Append(@, decoder.byte), !.byte = << >>,
                                   !.phase = "byte"]
    BY <1>3, <2>4, <2>7 DEF HearZero
  <2>9. /\ decoder'.phase = "byte" /\ decoder'.byte = << >>
        /\ decoder'.bytes = Append(decoder.bytes, decoder.byte)
    BY <1>6, <2>8 DEF Ear
  <2>10. BytesHeard(n) /\ BitsHeard(n + 1, BITS)
    BY <2>4, <2>6
  <2>11. /\ Len(decoder'.bytes) = n + 1
         /\ \A j \in 1..n + 1 : decoder'.bytes[j] = Coded(currentPacket)[j]
    <3>1. ASSUME NEW bs, bs = Append(decoder.bytes, decoder.byte)
          PROVE  Len(bs) = n + 1 /\ \A j \in 1..n + 1 : bs[j] = Coded(currentPacket)[j]
      <4>1. Len(currentPacket) \in Nat
        BY <1>5
      <4> QED
        BY <1>6, <2>10, <3>1, <4>1, BytesGrow
    <3> QED
      BY <2>9, <3>1
  <2>12. /\ Len(decoder'.bytes) = Current' - 1
         /\ \A j \in 1..Current' - 1 : decoder'.bytes[j] = Coded(currentPacket')[j]
    BY <1>3, <2>5, <2>6, <2>11
  <2>13. BytesHeard(Current - 1)'
    BY <2>12 DEF BytesHeard
  <2>14. BitsHeard(Current, BITS - bitsRemaining)'
    <3>1. BITS - bitsRemaining' = 0
      BY <1>4, <1>7
    <3> QED
      BY <2>9, <3>1 DEF BitsHeard
  <2>15. DecoderOK'
    BY <1>4, <2>9, <2>13, <2>14 DEF DecoderOK, Gap, Ones
  <2> QED
    BY <1>8, <2>3, <2>15 DEF StreamOK
<1> QED
  BY <1>1, <1>9, <1>10

(* A bit of the packet is one more bit of the byte that is put together.     *)
LEMMA DataOK ==
  ASSUME TypeOK, ServiceOK, StreamOK, DataSecond
  PROVE  StreamOK'
<1>1. SecondHalf /\ state = "dccData" /\ state \notin Gap
  BY DEF DataSecond, Gap
<1> DEFINE b == BitAt(currentPacket[Current], bitsRemaining - 1)
           n == BITS - bitsRemaining
<1>2. timer = b /\ b \in Bit
  BY <1>1, BitAtType DEF StreamOK, TimerOK, SecondHalf
<1>3. /\ bitsRemaining \in 1..BITS /\ bytesRemainingInPacket \in 1..Len(currentPacket)
      /\ decoder.phase = "byte" /\ BytesHeard(Current - 1) /\ BitsHeard(Current, n)
  BY <1>1 DEF StreamOK, CountersOK, DecoderOK
<1>4. timer' = timer /\ decoder' = HearBit(b) /\ firstHalfBit' /\ currentPacket' = currentPacket
  BY <1>1, <1>2, <1>3, WholeBit DEF HearOne, HearZero, Bit
<1>5. currentPacket \in Seq(Nat) /\ Len(currentPacket) \in 1..ByteMod - 1
  <2>1. currentPacket \in Sent
    BY <1>1 DEF ServiceOK, InPacket
  <2> QED
    BY <2>1, PacketAssumption DEF Sent
<1>6. decoder \in Ear /\ decoder.byte \in Seq(Bit)
  BY DEF TypeOK, Ear
<1>7. BITS \in 1..ByteMod - 1 /\ ByteMod \in Nat /\ n \in 0..BITS - 1 /\ Current \in 1..Len(currentPacket)
  BY <1>3, <1>5, CounterAssumption DEF Current
<1>8. bitsRemaining' = bitsRemaining - 1
  BY <1>3, <1>7, OneLess DEF DataSecond, OneBitLess
<1>9. Len(decoder.byte) = n /\ \A k \in 1..n : decoder.byte[k] = BitAt(currentPacket[Current], BITS - k)
  BY <1>3 DEF BitsHeard
<1>10. /\ decoder'.byte = Append(decoder.byte, b) /\ decoder'.bytes = decoder.bytes
       /\ decoder'.phase = IF n + 1 = BITS THEN "after" ELSE "byte"
  BY <1>3, <1>4, <1>6, <1>9 DEF HearBit, Ear
<1>11. /\ Len(decoder'.byte) = n + 1
       /\ \A k \in 1..n + 1 : decoder'.byte[k] = BitAt(currentPacket[Current], BITS - k)
  <2>1. /\ Len(Append(decoder.byte, b)) = n + 1
        /\ \A k \in 1..n : Append(decoder.byte, b)[k] = decoder.byte[k]
        /\ Append(decoder.byte, b)[n + 1] = b
    BY <1>2, <1>6, <1>9, AppendProperties
  <2>2. BITS - (n + 1) = bitsRemaining - 1
    BY <1>3, <1>7
  <2>3. \A k \in 1..n + 1 : k \in 1..n \/ k = n + 1
    BY <1>7
  <2> QED
    BY <1>9, <1>10, <2>1, <2>2, <2>3
<1>12. /\ Len(decoder'.bytes) = Current - 1
       /\ \A j \in 1..Current - 1 : decoder'.bytes[j] = Coded(currentPacket)[j]
  BY <1>3, <1>10 DEF BytesHeard
<1>13. CASE bitsRemaining # 1
  <2>1. state' = "dccData" /\ bytesRemainingInPacket' = bytesRemainingInPacket /\ Current' = Current
    BY <1>4, <1>1, <1>13 DEF DataSecond, Current
  <2>2. bitsRemaining' \in 1..BITS /\ BITS - bitsRemaining' = n + 1 /\ n + 1 # BITS
    BY <1>3, <1>7, <1>8, <1>13
  <2>3. TimerOK' /\ CountersOK'
    BY <1>3, <1>4, <2>1, <2>2 DEF TimerOK, CountersOK, Ones
  <2>4. BytesHeard(Current - 1)' /\ BitsHeard(Current, n)'
    BY <1>4, <1>11, <1>12, <2>1, <2>2 DEF BytesHeard, BitsHeard
  <2>5. DecoderOK'
    BY <1>10, <2>1, <2>2, <2>4 DEF DecoderOK, Gap, Ones
  <2> QED
    BY <2>3, <2>5 DEF StreamOK
<1>14. CASE bitsRemaining = 1
  <2>1. n + 1 = BITS /\ decoder'.phase = "after"
    BY <1>7, <1>10, <1>14
  <2>2. bytesRemainingInPacket' = bytesRemainingInPacket - 1
    <3>1. bytesRemainingInPacket \in 1..ByteMod - 1
      BY <1>3, <1>5, <1>7
    <3> QED
      BY <1>14, <3>1, OneLess DEF DataSecond
  <2>3. CASE bytesRemainingInPacket = 1
    <3>1. state' = "dccEndBit" /\ Current = Len(currentPacket)
      BY <1>14, <2>3, <1>5 DEF DataSecond, Current
    <3>2. TimerOK' /\ CountersOK'
      BY <1>4, <3>1 DEF TimerOK, CountersOK, Ones
    <3>3. BytesHeard(Len(currentPacket) - 1)' /\ BitsHeard(Len(currentPacket), BITS)'
      BY <1>4, <1>11, <1>12, <2>1, <3>1 DEF BytesHeard, BitsHeard
    <3>4. DecoderOK'
      BY <2>1, <3>1, <3>3 DEF DecoderOK, Gap, Ones
    <3> QED
      BY <3>2, <3>4 DEF StreamOK
  <2>4. CASE bytesRemainingInPacket # 1
    <3>1. state' = "dccStartBitData" /\ Current' = Current + 1
      BY <1>3, <1>4, <1>5, <1>14, <2>2, <2>4 DEF DataSecond, Current
    <3>2. bytesRemainingInPacket' \in 1..Len(currentPacket) - 1
      BY <1>3, <1>5, <2>2, <2>4
    <3>3. TimerOK' /\ CountersOK'
      BY <1>4, <3>1, <3>2 DEF TimerOK, CountersOK, Ones
    <3>4. Current' - 2 = Current - 1 /\ Current' - 1 = Current
      BY <1>7, <3>1
    <3>5. BytesHeard(Current - 2)' /\ BitsHeard(Current - 1, BITS)'
      BY <1>4, <1>11, <1>12, <2>1, <3>4 DEF BytesHeard, BitsHeard
    <3>6. DecoderOK'
      BY <2>1, <3>1, <3>5 DEF DecoderOK, Gap, Ones
    <3> QED
      BY <3>3, <3>6 DEF StreamOK
  <2> QED
    BY <2>3, <2>4
<1> QED
  BY <1>13, <1>14

(* The end bit completes the packet, and is the first one of the preamble.   *)
LEMMA EndBitOK ==
  ASSUME TypeOK, ServiceOK, StreamOK, EndBitSecond
  PROVE  StreamOK'
<1>1. SecondHalf /\ state = "dccEndBit" /\ state \notin Gap
  BY DEF EndBitSecond, Gap
<1>2. timer = "one" /\ decoder.phase = "after"
  BY <1>1 DEF StreamOK, TimerOK, DecoderOK, SecondHalf
<1>3. /\ timer' = "one" /\ decoder' = [NoEar EXCEPT !.ones = 1] /\ firstHalfBit'
      /\ currentPacket' = currentPacket
  BY <1>1, <1>2, WholeBit DEF HearOne
<1>4. Preambled' /\ decoder'.ones = 1
  BY <1>3 DEF Preambled, NoEar
<1>5. currentPacket \in Seq(Nat) /\ Len(currentPacket) \in Nat \ {0}
  <2>1. currentPacket \in Sent
    BY <1>1 DEF ServiceOK, InPacket
  <2> QED
    BY <2>1, PacketAssumption DEF Sent
<1>6. heard' = Coded(currentPacket)
  <2>1. heard' = Append(decoder.bytes, decoder.byte)
    BY <1>1, <1>2 DEF SecondHalf, Hear
  <2>2. PICK n \in 0..Len(currentPacket) - 1 : n = Len(currentPacket) - 1 /\ n + 1 = Len(currentPacket)
    BY <1>5
  <2>3. BytesHeard(n) /\ BitsHeard(n + 1, BITS)
    BY <1>1, <2>2 DEF StreamOK, DecoderOK
  <2>4. decoder \in Ear /\ Len(currentPacket) \in Nat
    BY <1>5 DEF TypeOK, Ear
  <2>5. /\ heard' \in Seq(Seq(Bit)) /\ Len(heard') = Len(currentPacket)
        /\ \A j \in 1..Len(currentPacket) : heard'[j] = Coded(currentPacket)[j]
    <3>1. ASSUME NEW bs, bs = Append(decoder.bytes, decoder.byte)
          PROVE  /\ bs \in Seq(Seq(Bit)) /\ Len(bs) = n + 1
                 /\ \A j \in 1..n + 1 : bs[j] = Coded(currentPacket)[j]
      BY <2>3, <2>4, <3>1, BytesGrow
    <3> QED
      BY <2>1, <2>2, <3>1
  <2>6. Coded(currentPacket) \in Seq(Seq(Bit)) /\ Len(Coded(currentPacket)) = Len(currentPacket)
    BY <2>4, CodedBytes
  <2> QED
    BY <2>5, <2>6, SeqEqual
<1>7. CASE ~smActive /\ railCom
  <2>1. state' = "dccRailComStartBit" /\ bitsRemaining' = RAILCOM_CUTOUT_LENGTH
    BY <1>7 DEF EndBitSecond
  <2>2. TimerOK' /\ CountersOK'
    BY <1>3, <2>1 DEF TimerOK, CountersOK, Ones
  <2>3. DecoderOK'
    BY <1>3, <1>4, <1>6, <2>1 DEF DecoderOK, Ones
  <2> QED
    BY <2>2, <2>3 DEF StreamOK
<1>8. CASE ~smActive /\ ~railCom
  <2>1. state' = "dccPreambleStartBit" /\ bitsRemaining' = PREAMBLE
    BY <1>8 DEF EndBitSecond
  <2>2. TimerOK' /\ CountersOK'
    BY <1>3, <2>1, PreambleAssumption DEF TimerOK, CountersOK
  <2>3. DecoderOK'
    BY <1>3, <1>4, <1>6, <2>1, PreambleAssumption, DecoderAssumption DEF DecoderOK
  <2> QED
    BY <2>2, <2>3 DEF StreamOK
<1>9. CASE smActive
  <2>1. state' = "dccPreamble" /\ bitsRemaining' = PREAMBLE_SM
    BY <1>9 DEF EndBitSecond
  <2>2. TimerOK' /\ CountersOK'
    BY <1>3, <2>1, PreambleAssumption DEF TimerOK, CountersOK
  <2>3. DecoderOK'
    BY <1>3, <1>4, <1>6, <2>1, PreambleAssumption, DecoderAssumption DEF DecoderOK
  <2> QED
    BY <2>2, <2>3 DEF StreamOK
<1> QED
  BY <1>7, <1>8, <1>9

LEMMA StepStreamOK ==
  ASSUME TypeOK, ServiceOK, StreamOK, CalmNext
  PROVE  StreamOK'
<1>1. CASE Interrupt
  BY <1>1, FirstHalvesOK, GapsOK, PreamblesOK, StartBitsOK, DataOK, EndBitOK DEF Interrupt
<1>2. CASE UNCHANGED <<bitCounters, timer, currentPacket, ear>>
  BY <1>2 DEF bitCounters, ear, StreamOK, TimerOK, CountersOK, DecoderOK, Preambled, BytesHeard,
     BitsHeard, Current
<1>3. CASE CalmMethod
  BY <1>2, <1>3 DEF CalmMethod, CalmOneStep, SendBegin, EnterServiceMode, LeaveServiceMode,
     StopServiceModeRepeats, StopOutputSignal, RunOutputSignal, SetRailCom, Continue, SendCopy,
     LeaveCancel, WriteDefaultPacket, packets
<1> QED
  BY <1>1, <1>2, <1>3 DEF CalmNext, vars, device, packets

LEMMA InitUndisturbed == Init => OffOK /\ MethodOK /\ ServiceOK /\ StreamOK
<1> SUFFICES ASSUME Init PROVE OffOK /\ MethodOK /\ ServiceOK /\ StreamOK
  OBVIOUS
<1>1. OffOK
  BY Zenon DEF Init, OffOK
<1>2. MethodOK /\ ServiceOK
  BY DefaultsAssumption DEF Init, MethodOK, ServiceOK, InPacket
<1>3. TimerOK /\ CountersOK
  BY PreambleAssumption DEF Init, TimerOK, CountersOK
<1>4. Preambled /\ decoder.ones = 0
  BY DEF Init, Preambled, NoEar
<1>5. heard = Coded(currentPacket)
  <2>1. Len(currentPacket) = 0 /\ heard = << >> /\ heard \in Seq(Seq(Bit))
    BY DEF Init
  <2>2. Coded(currentPacket) \in Seq(Seq(Bit)) /\ Len(Coded(currentPacket)) = 0
    BY <2>1, CodedBytes
  <2> QED
    BY <2>1, <2>2
<1>6. DecoderOK
  BY <1>4, <1>5, PreambleAssumption, DecoderAssumption DEF Init, DecoderOK
<1> QED
  BY <1>1, <1>2, <1>3, <1>6 DEF StreamOK

(* The inductive invariant.                                                  *)
IInv == TypeOK /\ (Undisturbed => OffOK /\ MethodOK /\ ServiceOK /\ StreamOK)

LEMMA IInvInductive == Spec => []IInv
<1>1. Init => IInv
  BY InitTypeOK, InitUndisturbed DEF IInv
<1>2. IInv /\ [Next]_vars => IInv'
  <2> SUFFICES ASSUME IInv, [Next]_vars PROVE IInv'
    OBVIOUS
  <2>1. TypeOK /\ TypeOK'
    BY StepTypeOK DEF IInv
  <2>2. ASSUME Undisturbed' PROVE OffOK' /\ MethodOK' /\ ServiceOK' /\ StreamOK'
    <3>1. OffOK /\ MethodOK /\ ServiceOK /\ StreamOK /\ CalmNext
      BY <2>2, CalmSteps DEF IInv
    <3>2. Pins
      BY <2>1, TypeParts
    <3> QED
      BY <2>1, <3>1, <3>2, StepOffOK, StepMethodOK, StepServiceOK, StepStreamOK
  <2> QED
    BY <2>1, <2>2 DEF IInv
<1> QED
  BY <1>1, <1>2, PTL DEF Spec

(* The counters stay bytes, the pins stay pins, and the decoder only ever    *)
(* puts together bits.                                                       *)
THEOREM EngineTypeOK == Spec => []TypeOK
<1>1. IInv => TypeOK
  BY DEF IInv
<1> QED
  BY <1>1, IInvInductive, PTL

(* Without rail power nothing drives the rails, whatever bit is being sent   *)
(* when the power is switched off, as long as nobody sets the generator up   *)
(* again: an interrupt toggles only a pin that is enabled, and the gap and   *)
(* the preamble enable a pin only when there is power.                       *)
THEOREM NoPowerNoSignal == Spec => []OffMeansOff
<1>1. IInv => OffMeansOff
  BY DEF IInv, OffMeansOff, OffOK, Dead
<1> QED
  BY <1>1, IInvInductive, PTL

(* A decoder has got the packet on the rails bit for bit when the next one   *)
(* begins, for every packet, preamble and gap that DecoderAssumption allows, *)
(* and whatever methods the program calls in between.                        *)
THEOREM PacketsHeardInFull == Spec => []DecoderGetsPackets
<1>1. IInv => DecoderGetsPackets
  BY DEF IInv, DecoderGetsPackets, HeardInFull, StreamOK, DecoderOK
<1> QED
  BY <1>1, IInvInductive, PTL

(* The interrupt never reads outside the packet.                             *)
THEOREM ReadsStayInPacket == Spec => []BytesInPacket
<1>1. IInv => BytesInPacket
  BY DEF IInv, BytesInPacket, StreamOK, CountersOK
<1> QED
  BY <1>1, IInvInductive, PTL

-----------------------------------------------------------------------------
(* What the engine that the scheduler sees is made of.                       *)
pending == IF canAcceptPacket THEN << >> ELSE <<nextPacket>>
asService == ~canAcceptPacket /\ isServiceModePacket
repeats == IF smActive THEN smRepeatsRemaining ELSE 0
service == defaultPacket = Reset
EngineState == <<pending, asService, currentPacket, repeats, service>>

LEMMA InitIsEngineInit == Init => Engine!Init
  BY DefaultsAssumption DEF Init, Engine!Init

(* A start bit begins the packet that the engine is to send next.            *)
LEMMA StartBitIsEngineStep ==
  ASSUME TypeOK, ServiceOK, StartBitPacketFirst
  PROVE  Engine!StartNew \/ Engine!StartDefault \/ Engine!Repeat
<1>1. UNCHANGED <<nextPacket, defaultPacket, smActive, isServiceModePacket, service>>
  BY DEF StartBitPacketFirst, service
<1>2. smRepeatsRemaining \in 0..SM_REPEATS /\ SM_REPEATS \in Nat
  BY CounterAssumption DEF TypeOK
<1>3. isServiceModeRepeating <=> repeats > 0
  BY <1>2 DEF isServiceModeRepeating, repeats
<1>4. repeats \in Nat
  BY <1>2 DEF repeats
<1>5. CASE NewPacket
  <2>1. repeats = 0 /\ pending = <<nextPacket>>
    BY <1>3, <1>4, <1>5 DEF NewPacket, pending
  <2>2. pending' = << >> /\ currentPacket' = nextPacket
    BY <1>5 DEF NewPacket, pending
  <2>3. repeats' = IF asService THEN SM_REPEATS ELSE 0
    BY <1>1, <1>2, <1>5, <2>1 DEF NewPacket, ServiceOK, repeats, asService
  <2>4. asService' = FALSE
    BY Zenon, <1>5 DEF NewPacket, asService
  <2>5. Head(<<nextPacket>>) = nextPacket /\ <<nextPacket>> # << >>
    OBVIOUS
  <2>6. Engine!StartNew
    BY <1>1, <2>1, <2>2, <2>3, <2>4, <2>5
    DEF Engine!StartNew, pending, asService, repeats, service
  <2> QED
    BY <2>6
<1>6. CASE FillPacket
  <2>1. repeats = 0 /\ pending = << >> /\ UNCHANGED <<pending, asService, repeats>>
    BY <1>1, <1>3, <1>4, <1>6 DEF FillPacket, pending, asService, repeats
  <2>2. currentPacket' = IF service THEN Reset ELSE Idle
    BY <1>6 DEF FillPacket, service, TypeOK
  <2>3. Engine!StartDefault
    BY <1>1, <2>1, <2>2 DEF Engine!StartDefault, pending, asService, repeats, service
  <2> QED
    BY <2>3
<1>7. CASE RepeatPacket
  <2>1. repeats > 0 /\ repeats' = repeats - 1
    BY <1>1, <1>3, <1>7 DEF RepeatPacket, isServiceModeRepeating, repeats
  <2>2. UNCHANGED <<pending, asService, currentPacket>>
    BY <1>1, <1>7 DEF RepeatPacket, pending, asService
  <2>3. Engine!Repeat
    BY <1>1, <2>1, <2>2 DEF Engine!Repeat, pending, asService, repeats, service
  <2> QED
    BY <2>3
<1> QED
  BY <1>5, <1>6, <1>7 DEF StartBitPacketFirst

(* send() hands a packet over in its second step; the mode changes are seen  *)
(* when the default packet has been written.                                 *)
LEMMA MethodIsEngineStep ==
  ASSUME TypeOK, MethodOK, ServiceOK, CalmMethod
  PROVE  \/ \E p \in Packet : Engine!Send(p)
         \/ Engine!Enter \/ Engine!Leave \/ Engine!StopRepeats \/ UNCHANGED EngineState
<1> USE DEF EngineState, pending, asService, repeats, service
<1>0. doing \in StepsToDo
  BY TypeParts DEF InMethod
<1>1. CASE SendCopy
  <2>1. /\ doing = <<"copy">> /\ canAcceptPacket /\ sending \in Packet
        /\ isServiceModePacket <=> service /\ sending \in ServicePacket
    <3>1. doing = <<"copy">>
      BY <1>0, <1>1, StepsInTurn DEF SendCopy
    <3>2. doing # << >> /\ doing \in {<< >>, <<"copy">>}
      BY <3>1
    <3> QED
      BY Zenon, <3>1, <3>2 DEF MethodOK, service
  <2>2. /\ pending = << >> /\ pending' = <<sending>>
        /\ asService' <=> service /\ sending \in ServicePacket
        /\ UNCHANGED <<currentPacket, repeats, service>>
    BY <1>1, <2>1 DEF SendCopy, sm
  <2>3. asService' = (service /\ sending \in ServicePacket)
    BY Zenon, <2>2
  <2> QED
    BY <2>1, <2>2, <2>3 DEF Engine!Send
<1>2. ASSUME NEW p \in Packet, SendBegin(p) PROVE UNCHANGED EngineState
  BY <1>2 DEF SendBegin, packets
<1>3. CASE EnterServiceMode
  BY <1>3 DEF EnterServiceMode, Call, packets, ServiceOK, TypeOK
<1>4. CASE LeaveServiceMode
  BY <1>4 DEF LeaveServiceMode, packets, Engine!StopRepeats
<1>5. CASE LeaveCancel
  BY <1>0, <1>5, StepsInTurn DEF LeaveCancel, MethodOK, packets
<1>6. CASE WriteDefaultPacket
  <2>1. CASE smActive
    BY <1>0, <1>6, <2>1, StepsInTurn DEF WriteDefaultPacket, sm, Engine!Enter
  <2>2. CASE ~smActive
    BY <1>0, <1>6, <2>2, StepsInTurn, DefaultsAssumption DEF WriteDefaultPacket, sm, Engine!Leave
  <2> QED
    BY <2>1, <2>2
<1>7. CASE CalmOneStep
  BY <1>7 DEF CalmOneStep, StopServiceModeRepeats, StopOutputSignal, RunOutputSignal, SetRailCom,
     packets, sm, Engine!StopRepeats
<1> QED
  BY <1>1, <1>2, <1>3, <1>4, <1>5, <1>6, <1>7 DEF CalmMethod, Continue

LEMMA StepIsEngineStep == IInv /\ [Next]_vars => [Undisturbed => Engine!Next]_Engine!vars
<1> SUFFICES ASSUME IInv, [Next]_vars, Undisturbed
             PROVE  Engine!Next \/ UNCHANGED EngineState
  BY DEF Engine!vars, EngineState, pending, asService, repeats, service
<1>1. TypeOK /\ MethodOK /\ ServiceOK
  BY DEF IInv
<1>2. CalmNext
  <2>1. app' = app
    BY DEF Next, vars
  <2> QED
    BY <2>1, CalmSteps DEF Undisturbed
<1>3. CASE StartBitPacketFirst
  BY <1>1, <1>3, StartBitIsEngineStep DEF Engine!Next
<1>4. CASE UNCHANGED <<packets, sm>>
  BY <1>4 DEF packets, sm, EngineState, pending, asService, repeats, service
<1>5. CASE Interrupt /\ ~StartBitPacketFirst
  BY <1>4, <1>5 DEF Interrupt, RailComStartBit29, RailComStartBit58, NothingToDo,
     PreambleStartBitFirst, DataFirst, StartBitDataFirst, EndBitFirst, SecondHalf,
     RailComStartBitSecond, RailComGapSecond, PreambleStartBitSecond, PreambleSecond,
     StartBitSecond, DataSecond, EndBitSecond
<1>6. CASE CalmMethod
  BY <1>1, <1>6, MethodIsEngineStep DEF Engine!Next
<1> QED
  BY <1>2, <1>3, <1>4, <1>5, <1>6 DEF CalmNext, vars, device

(* The packets on the rails are those that PacketEngineSpec promises: each   *)
(* packet of send() once and in its turn, a Service Mode packet repeated     *)
(* before anything follows it, and a default packet when nothing waits.      *)
THEOREM BitsImplementEngine == Spec => ImplementsEngine
  BY InitIsEngineInit, StepIsEngineStep, IInvInductive, PTL DEF Spec, ImplementsEngine
=============================================================================
