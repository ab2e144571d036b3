-------------------------- MODULE DCCHardwareCommon --------------------------
(***************************************************************************)
(* The software waveform generator that most boards share                  *)
(* (variants-Z21PG/DCCHardwareCommon.inc): a timer interrupt per half bit, *)
(* two rail pins, and the methods the scheduler calls.  The interrupt is    *)
(* atomic for the program and may come between any two steps of a method;   *)
(* what a method does with interrupts disabled is one step.                 *)
(*                                                                         *)
(* The monitor pin is left out.  The decoder on the rails (decoder, heard) *)
(* is external: it times the half bits and puts bytes and packets together *)
(* the way a DCC decoder does.  A bit on the rails is "one" or "zero", what  *)
(* the decoder gets is a sequence of bytes, and a byte a sequence of bits.   *)
(***************************************************************************)
EXTENDS Integers, Sequences

CONSTANTS
  Packet,          (* packets given to send(): sequences of bytes           *)
  ServicePacket,   (* those whose first byte is 0111xxxx                    *)
  Idle, Reset,     (* FF 00 FF and 00 00 00                                 *)
  BITS,            (* bits of a byte: 8                                     *)
  ByteMod,         (* a counter is a uint8_t: 256                           *)
  PREAMBLE, PREAMBLE_SM,     (* 17 and 20, or more                          *)
  RAILCOM_CUTOUT_LENGTH,     (* 4                                           *)
  SM_REPEATS,                (* smMaxRepeats                                *)
  MinPreamble,               (* external: the ones a decoder waits for      *)
  MaxBytes,                  (* external: the longest packet of a decoder   *)
  Programs         (* what programs do besides sending packets: records of  *)
                   (* serviceMode, powerSwitched, monitorChanged: whether   *)
                   (* they enter Service Mode, switch the power, change the *)
                   (* additional output; railCom, inverted: the values they *)
                   (* give to setRailCom and setDccSignalInverted           *)

ASSUME PreambleAssumption ==
  /\ RAILCOM_CUTOUT_LENGTH \in Nat \ {0, 1}
  /\ PREAMBLE \in Nat /\ PREAMBLE >= RAILCOM_CUTOUT_LENGTH + 2
  /\ PREAMBLE_SM \in Nat \ {0, 1}

(* The counters are bytes, and what they count fits.                         *)
ASSUME CounterAssumption ==
  /\ ByteMod \in Nat /\ BITS \in 1..ByteMod - 1
  /\ PREAMBLE < ByteMod /\ PREAMBLE_SM < ByteMod
  /\ SM_REPEATS \in Nat

ASSUME PacketAssumption ==
  \A p \in Packet \union {Idle, Reset} : p \in Seq(Nat) /\ Len(p) \in 1..ByteMod - 1

(* The preamble is long enough for the decoder, also when the gap has taken  *)
(* its part of it; the decoder takes the packets that are sent.              *)
ASSUME DecoderAssumption ==
  /\ MinPreamble \in Nat
  /\ MinPreamble <= PREAMBLE - RAILCOM_CUTOUT_LENGTH /\ MinPreamble <= PREAMBLE_SM
  /\ MaxBytes \in Nat
  /\ \A p \in Packet \union {Idle, Reset} : Len(p) <= MaxBytes

ASSUME DefaultsAssumption == Idle # Reset

ASSUME ProgramsAssumption ==
  \A a \in Programs : a.railCom \subseteq BOOLEAN /\ a.inverted \subseteq BOOLEAN

VARIABLES
  app,                     (* one of Programs                             *)
  state,                   (* which bit is being sent: DCC_output_state_t *)
  firstHalfBit, firstHalfBitRC,
  bitsRemaining,           (* in the preamble, the gap or the byte        *)
  bytesRemainingInPacket,
  timer,                   (* length of the running interval              *)
  canAcceptPacket, nextPacket, currentPacket, defaultPacket,
  smActive, isServiceModePacket, smRepeatsRemaining,
  railCom, railPower, railComCutoutInProgress,
  dccRail, dccRailInv,     (* the pins: [level, enable]                   *)
  dccSignalInverted,
  doing,                   (* the steps the method called last has yet to do *)
  sending,                 (* the argument of send()                      *)
  decoder, heard           (* external: the decoder, the last packet it got *)

bitCounters == <<state, firstHalfBit, firstHalfBitRC, bitsRemaining, bytesRemainingInPacket>>
packets == <<canAcceptPacket, nextPacket, currentPacket, defaultPacket>>
sm == <<smActive, isServiceModePacket, smRepeatsRemaining>>
settings == <<railCom, railPower, dccSignalInverted>>
pins == <<dccRail, dccRailInv>>
ear == <<decoder, heard>>
device == <<bitCounters, timer, packets, sm, settings, railComCutoutInProgress, pins, ear>>
method == <<doing, sending>>
vars == <<app, device, method>>

States == {"dccRailComStartBit", "dccRailComGap", "dccPreambleStartBit", "dccPreamble",
           "dccStartBitPacket", "dccStartBitData", "dccData", "dccEndBit"}

Enable(pin) == [pin EXCEPT !.enable = TRUE]
Disable(pin) == [pin EXCEPT !.enable = FALSE]
Toggle(pin) == IF pin.enable THEN [pin EXCEPT !.level = ~@] ELSE pin

(* Deliberate error: the pin is enabled whether there is power or not.     *)
EnableAnyway(pin) == Enable(pin)

EnableIfPowered(pin) == IF railPower THEN Enable(pin) ELSE pin

NoEar == [phase |-> "preamble", ones |-> 0, byte |-> << >>, bytes |-> << >>]

(* setup() with the power on: the generator runs, nothing was sent.        *)
Init ==
  /\ app \in Programs
  /\ state = "dccPreambleStartBit"
  /\ firstHalfBit = TRUE
  /\ firstHalfBitRC = TRUE
  /\ bitsRemaining = PREAMBLE
  /\ bytesRemainingInPacket = 0
  /\ timer = "one"
  /\ canAcceptPacket = TRUE
  /\ nextPacket = << >>
  /\ currentPacket = << >>
  /\ defaultPacket = Idle
  /\ smActive = FALSE
  /\ isServiceModePacket = FALSE
  /\ smRepeatsRemaining = 0
  /\ railCom \in app.railCom
  /\ railPower = TRUE
  /\ railComCutoutInProgress = FALSE
  /\ dccRail = [level |-> FALSE, enable |-> TRUE]
  /\ dccRailInv = [level |-> TRUE, enable |-> TRUE]
  /\ dccSignalInverted = FALSE
  /\ doing = << >> /\ sending = << >>
  /\ decoder = NoEar
  /\ heard = << >>

-----------------------------------------------------------------------------
(* The interrupt, first half bit: toggle, then set the length of the bit.  *)
FirstHalf ==
  /\ firstHalfBit
  /\ UNCHANGED <<decoder, settings, bitsRemaining, bytesRemainingInPacket, state>>

ToSecondHalf == firstHalfBit' = FALSE /\ UNCHANGED firstHalfBitRC

TogglePins == dccRail' = Toggle(dccRail) /\ dccRailInv' = Toggle(dccRailInv)

(* The first half of the RailCom start bit takes two interrupts of 29 us.  *)
RailComStartBit29 ==
  /\ state = "dccRailComStartBit" /\ FirstHalf /\ firstHalfBitRC
  /\ timer' = "railcom"
  /\ dccRail' = Toggle(dccRail)
  /\ dccRailInv' = Disable(Toggle(dccRailInv))
  /\ railComCutoutInProgress' = TRUE
  /\ firstHalfBitRC' = FALSE
  /\ UNCHANGED <<firstHalfBit, packets, sm, heard>>

RailComStartBit58 ==
  /\ state = "dccRailComStartBit" /\ FirstHalf /\ ~firstHalfBitRC
  /\ dccRail' = Disable(Toggle(dccRail))
  /\ dccRailInv' = Toggle(dccRailInv)
  /\ firstHalfBitRC' = TRUE
  /\ firstHalfBit' = FALSE
  /\ UNCHANGED <<timer, railComCutoutInProgress, packets, sm, heard>>

NothingToDo ==
  /\ state \in {"dccRailComGap", "dccPreamble"} /\ FirstHalf
  /\ TogglePins /\ ToSecondHalf
  /\ UNCHANGED <<timer, railComCutoutInProgress, packets, sm, heard>>

(* Deliberate error: the inverted pin is not enabled again after the gap.  *)
PreambleStartBitWithoutEnable ==
  /\ state = "dccPreambleStartBit" /\ FirstHalf
  /\ TogglePins /\ ToSecondHalf
  /\ railComCutoutInProgress' = FALSE
  /\ UNCHANGED <<timer, packets, sm, heard>>

PreambleStartBitFirst ==
  /\ state = "dccPreambleStartBit" /\ FirstHalf
  /\ dccRail' = Toggle(dccRail)
  /\ dccRailInv' = EnableIfPowered(Toggle(dccRailInv))
  /\ railComCutoutInProgress' = FALSE
  /\ ToSecondHalf
  /\ UNCHANGED <<timer, packets, sm, heard>>

isServiceModeRepeating == smActive /\ smRepeatsRemaining > 0

(* A new packet, a default packet, or the Service Mode packet once more.   *)
NewPacket ==
  /\ ~isServiceModeRepeating
  /\ ~canAcceptPacket
  /\ currentPacket' = nextPacket
  /\ smRepeatsRemaining' = IF isServiceModePacket THEN SM_REPEATS ELSE smRepeatsRemaining
  /\ canAcceptPacket' = TRUE

FillPacket ==
  /\ ~isServiceModeRepeating
  /\ canAcceptPacket
  /\ currentPacket' = defaultPacket
  /\ UNCHANGED <<smRepeatsRemaining, canAcceptPacket>>

RepeatPacket ==
  /\ isServiceModeRepeating
  /\ smRepeatsRemaining' = smRepeatsRemaining - 1
  /\ UNCHANGED <<currentPacket, canAcceptPacket>>

StartBitPacketFirst ==
  /\ state = "dccStartBitPacket" /\ FirstHalf
  /\ TogglePins /\ ToSecondHalf
  /\ timer' = "zero"
  /\ NewPacket \/ FillPacket \/ RepeatPacket
  /\ heard' = << >>
  /\ UNCHANGED <<railComCutoutInProgress, nextPacket, defaultPacket, smActive,
                 isServiceModePacket>>

(* The bit that the mask 1 << place finds in a byte.                        *)
Bit == {"one", "zero"}
BitAt(byte, place) == IF (byte \div 2^place) % 2 = 1 THEN "one" ELSE "zero"

(* Deliberate error: the mask is shifted one place too far.                *)
BitToSendShifted ==
  LET i == Len(currentPacket) - bytesRemainingInPacket + 1
  IN  IF i \in DOMAIN currentPacket THEN {BitAt(currentPacket[i], bitsRemaining)} ELSE Bit

(* currentPacketSize - bytesRemainingInPacket; outside the packet the read *)
(* finds anything.                                                         *)
BitToSend ==
  LET i == Len(currentPacket) - bytesRemainingInPacket + 1
  IN  IF i \in DOMAIN currentPacket THEN {BitAt(currentPacket[i], bitsRemaining - 1)} ELSE Bit

DataFirst ==
  /\ state = "dccData" /\ FirstHalf
  /\ TogglePins /\ ToSecondHalf
  /\ timer' \in BitToSend
  /\ UNCHANGED <<railComCutoutInProgress, packets, sm, heard>>

StartBitDataFirst ==
  /\ state = "dccStartBitData" /\ FirstHalf
  /\ TogglePins /\ ToSecondHalf
  /\ timer' = "zero"
  /\ UNCHANGED <<railComCutoutInProgress, packets, sm, heard>>

(* Deliberate error: the end bit is as long as the bit before it.          *)
EndBitWithoutTimer ==
  /\ state = "dccEndBit" /\ FirstHalf
  /\ TogglePins /\ ToSecondHalf
  /\ UNCHANGED <<timer, railComCutoutInProgress, packets, sm, heard>>

EndBitFirst ==
  /\ state = "dccEndBit" /\ FirstHalf
  /\ TogglePins /\ ToSecondHalf
  /\ timer' = "one"
  /\ UNCHANGED <<railComCutoutInProgress, packets, sm, heard>>

-----------------------------------------------------------------------------
(* external: the decoder hears bit b when both halves had the same length, *)
(* and nothing while the rails have no signal.                             *)
HearBit(b) ==
  [decoder EXCEPT !.byte = Append(@, b),
                  !.phase = IF Len(decoder.byte) + 1 = BITS THEN "after" ELSE @]

HearOne ==
  CASE decoder.phase = "preamble" ->
         [decoder EXCEPT !.ones = IF @ < MinPreamble THEN @ + 1 ELSE @]
    [] decoder.phase = "byte" -> HearBit("one")
    [] decoder.phase = "after" -> [NoEar EXCEPT !.ones = 1]

HearZero ==
  CASE decoder.phase = "preamble" ->
         IF decoder.ones < MinPreamble THEN NoEar ELSE [NoEar EXCEPT !.phase = "byte"]
    [] decoder.phase = "byte" -> HearBit("zero")
    [] decoder.phase = "after" ->
         IF Len(decoder.bytes) = MaxBytes - 1 THEN NoEar
         ELSE [decoder EXCEPT !.bytes = Append(@, decoder.byte), !.byte = << >>,
                              !.phase = "byte"]

Hear ==
  /\ decoder' = IF state \in {"dccRailComStartBit", "dccRailComGap"} THEN NoEar
                ELSE CASE timer = "one" /\ timer' = "one" -> HearOne
                       [] timer = "zero" /\ timer' = "zero" -> HearZero
                       [] OTHER -> NoEar
  /\ heard' = IF decoder.phase = "after" /\ timer = "one"
              THEN Append(decoder.bytes, decoder.byte) ELSE heard

-----------------------------------------------------------------------------
(* The interrupt, second half bit: toggle, then on to the next bit.        *)
SecondHalf ==
  /\ ~firstHalfBit
  /\ firstHalfBit' = TRUE
  /\ timer' = IF state = "dccRailComStartBit" THEN "one" ELSE timer
  /\ Hear
  /\ dccRailInv' = Toggle(dccRailInv)
  /\ UNCHANGED <<firstHalfBitRC, packets, sm, settings, railComCutoutInProgress>>

OneBitLess == bitsRemaining' = (bitsRemaining - 1) % ByteMod

RailComStartBitSecond ==
  /\ state = "dccRailComStartBit" /\ SecondHalf
  /\ dccRail' = Toggle(dccRail)
  /\ OneBitLess
  /\ state' = "dccRailComGap"
  /\ UNCHANGED bytesRemainingInPacket

RailComGapSecond ==
  /\ state = "dccRailComGap" /\ SecondHalf
  /\ IF bitsRemaining = 1
     THEN /\ dccRail' = EnableIfPowered(Toggle(dccRail))
          /\ bitsRemaining' = PREAMBLE - RAILCOM_CUTOUT_LENGTH
          /\ state' = "dccPreambleStartBit"
     ELSE /\ dccRail' = Toggle(dccRail)
          /\ OneBitLess
          /\ UNCHANGED state
  /\ UNCHANGED bytesRemainingInPacket

PreambleStartBitSecond ==
  /\ state = "dccPreambleStartBit" /\ SecondHalf
  /\ dccRail' = Toggle(dccRail)
  /\ OneBitLess
  /\ state' = "dccPreamble"
  /\ UNCHANGED bytesRemainingInPacket

PreambleSecond ==
  /\ state = "dccPreamble" /\ SecondHalf
  /\ dccRail' = Toggle(dccRail)
  /\ OneBitLess
  /\ state' = IF bitsRemaining = 1 THEN "dccStartBitPacket" ELSE state
  /\ UNCHANGED bytesRemainingInPacket

StartBitSecond ==
  /\ state \in {"dccStartBitPacket", "dccStartBitData"} /\ SecondHalf
  /\ dccRail' = Toggle(dccRail)
  /\ state' = "dccData"
  /\ bitsRemaining' = BITS
  /\ bytesRemainingInPacket' = IF state = "dccStartBitPacket" THEN Len(currentPacket)
                               ELSE bytesRemainingInPacket

DataSecond ==
  /\ state = "dccData" /\ SecondHalf
  /\ dccRail' = Toggle(dccRail)
  /\ OneBitLess
  /\ IF bitsRemaining = 1
     THEN /\ bytesRemainingInPacket' = (bytesRemainingInPacket - 1) % ByteMod
          /\ state' = IF bytesRemainingInPacket = 1 THEN "dccEndBit" ELSE "dccStartBitData"
     ELSE UNCHANGED <<bytesRemainingInPacket, state>>

EndBitSecond ==
  /\ state = "dccEndBit" /\ SecondHalf
  /\ \/ /\ ~smActive /\ railCom
        /\ state' = "dccRailComStartBit"
        /\ bitsRemaining' = RAILCOM_CUTOUT_LENGTH
        /\ dccRail' = Toggle(dccRail)
     \/ /\ ~smActive /\ ~railCom
        /\ state' = "dccPreambleStartBit"
        /\ bitsRemaining' = PREAMBLE
        /\ dccRail' = EnableIfPowered(Toggle(dccRail))
     \/ /\ smActive
        /\ state' = "dccPreamble"
        /\ bitsRemaining' = PREAMBLE_SM
        /\ dccRail' = Toggle(dccRail)
  /\ UNCHANGED bytesRemainingInPacket

Interrupt ==
  \/ RailComStartBit29
  \/ RailComStartBit58
  \/ NothingToDo
  \/ PreambleStartBitFirst
  \/ StartBitPacketFirst
  \/ DataFirst
  \/ StartBitDataFirst
  \/ EndBitFirst
  \/ RailComStartBitSecond
  \/ RailComGapSecond
  \/ PreambleStartBitSecond
  \/ PreambleSecond
  \/ StartBitSecond
  \/ DataSecond
  \/ EndBitSecond

-----------------------------------------------------------------------------
(* Methods: Call starts one, the steps below do the rest of it in turn.    *)
(* update() sends, enters and leaves Service Mode only after it has seen   *)
(* canAcceptPacket set, and only send() resets that flag.                  *)
Call(steps) == doing = << >> /\ doing' = steps
Step(name) == doing # << >> /\ Head(doing) = name /\ doing' = Tail(doing)

SendBegin(p) ==
  /\ canAcceptPacket
  /\ Call(<<"copy">>)
  /\ sending' = p
  /\ isServiceModePacket' = (smActive /\ p \in ServicePacket)
  /\ UNCHANGED <<bitCounters, timer, packets, smActive, smRepeatsRemaining, settings,
                 railComCutoutInProgress, pins, ear>>

SendCopy ==
  /\ Step("copy")
  /\ nextPacket' = sending
  /\ canAcceptPacket' = FALSE
  /\ sending' = << >>
  /\ UNCHANGED <<bitCounters, timer, currentPacket, defaultPacket, sm, settings,
                 railComCutoutInProgress, pins, ear>>

EnterServiceMode ==
  /\ app.serviceMode
  /\ canAcceptPacket
  /\ Call(<<"default">>)
  /\ smActive' = TRUE
  /\ UNCHANGED <<bitCounters, timer, packets, isServiceModePacket, smRepeatsRemaining,
                 settings, railComCutoutInProgress, pins, ear, sending>>

LeaveServiceMode ==
  /\ canAcceptPacket
  /\ Call(<<"cancel", "default">>)
  /\ smActive' = FALSE
  /\ UNCHANGED <<bitCounters, timer, packets, isServiceModePacket, smRepeatsRemaining,
                 settings, railComCutoutInProgress, pins, ear, sending>>

(* Deliberate error: the repeats that are left are not cancelled.          *)
LeaveWithRepeats ==
  /\ Step("cancel")
  /\ UNCHANGED <<device, sending>>

LeaveCancel ==
  /\ Step("cancel")
  /\ smRepeatsRemaining' = 0
  /\ UNCHANGED <<bitCounters, timer, packets, smActive, isServiceModePacket, settings,
                 railComCutoutInProgress, pins, ear, sending>>

WriteDefaultPacket ==
  /\ Step("default")
  /\ defaultPacket' = IF smActive THEN Reset ELSE Idle
  /\ UNCHANGED <<bitCounters, timer, canAcceptPacket, nextPacket, currentPacket, sm,
                 settings, railComCutoutInProgress, pins, ear, sending>>

Continue == SendCopy \/ LeaveCancel \/ WriteDefaultPacket

(* The methods of one step: one assignment, or everything with interrupts   *)
(* disabled or the timer stopped.                                           *)
StopServiceModeRepeats ==
  /\ smRepeatsRemaining' = 0
  /\ UNCHANGED <<bitCounters, timer, packets, smActive, isServiceModePacket, settings,
                 railComCutoutInProgress, pins, ear>>

StopOutputSignal ==
  /\ app.powerSwitched
  /\ dccRail' = [level |-> FALSE, enable |-> FALSE]
  /\ dccRailInv' = [level |-> FALSE, enable |-> FALSE]
  /\ railPower' = FALSE
  /\ UNCHANGED <<bitCounters, timer, packets, sm, railCom, dccSignalInverted,
                 railComCutoutInProgress, ear>>

RunOutputSignal ==
  /\ app.powerSwitched
  /\ railPower' = TRUE
  /\ UNCHANGED <<bitCounters, timer, packets, sm, railCom, dccSignalInverted,
                 railComCutoutInProgress, pins, ear>>

SetRailCom(active) ==
  /\ railCom' = active
  /\ UNCHANGED <<bitCounters, timer, packets, sm, railPower, dccSignalInverted,
                 railComCutoutInProgress, pins, ear>>

(* Everything but railCom, railPower and canAcceptPacket starts afresh;     *)
(* nextPacketSize is 0 again.                                              *)
setupWaveformGenerator(inverted) ==
  /\ dccRail' = [level |-> inverted, enable |-> TRUE]
  /\ dccRailInv' = [level |-> ~inverted, enable |-> TRUE]
  /\ state' = "dccPreambleStartBit"
  /\ bitsRemaining' = PREAMBLE
  /\ bytesRemainingInPacket' = 0
  /\ firstHalfBit' = TRUE
  /\ firstHalfBitRC' = TRUE
  /\ timer' = "one"
  /\ smActive' = FALSE
  /\ isServiceModePacket' = FALSE
  /\ smRepeatsRemaining' = 0
  /\ railComCutoutInProgress' = FALSE
  /\ currentPacket' = << >>
  /\ nextPacket' = << >>
  /\ defaultPacket' = Idle
  /\ decoder' = NoEar
  /\ heard' = << >>
  /\ UNCHANGED <<canAcceptPacket, railCom, railPower>>

SetDccSignalInverted(inverted) ==
  /\ dccSignalInverted # inverted
  /\ dccSignalInverted' = inverted
  /\ setupWaveformGenerator(inverted)

(* enable_additional_DCC_output, disable_additional_DCC_output             *)
ChangeMonitor ==
  /\ app.monitorChanged
  /\ setupWaveformGenerator(dccSignalInverted)
  /\ UNCHANGED dccSignalInverted

MethodOfOneStep ==
  \/ app.serviceMode /\ StopServiceModeRepeats
  \/ StopOutputSignal
  \/ RunOutputSignal
  \/ \E active \in app.railCom : SetRailCom(active)
  \/ \E inverted \in app.inverted : SetDccSignalInverted(inverted)
  \/ ChangeMonitor

Method ==
  \/ \E p \in Packet : SendBegin(p)
  \/ EnterServiceMode
  \/ LeaveServiceMode
  \/ MethodOfOneStep /\ Call(<< >>) /\ UNCHANGED sending

Next ==
  /\ UNCHANGED app
  /\ \/ Interrupt /\ UNCHANGED method
     \/ Method
     \/ Continue

(* The timer keeps running, and a method that has begun goes on; nothing    *)
(* makes the program call one.                                              *)
Spec == Init /\ [][Next]_vars /\ WF_device(Interrupt) /\ WF_method(Continue)

-----------------------------------------------------------------------------
TypeOK ==
  /\ app \in Programs
  /\ state \in States
  /\ firstHalfBit \in BOOLEAN /\ firstHalfBitRC \in BOOLEAN
  /\ bitsRemaining \in 0..ByteMod - 1
  /\ bytesRemainingInPacket \in 0..ByteMod - 1
  /\ timer \in {"one", "zero", "railcom"}
  /\ canAcceptPacket \in BOOLEAN
  /\ nextPacket \in Packet \union {<< >>}
  /\ currentPacket \in Packet \union {<< >>, Idle, Reset}
  /\ defaultPacket \in {Idle, Reset}
  /\ smActive \in BOOLEAN /\ isServiceModePacket \in BOOLEAN
  /\ smRepeatsRemaining \in 0..SM_REPEATS
  /\ railCom \in BOOLEAN /\ railPower \in BOOLEAN
  /\ railComCutoutInProgress \in BOOLEAN
  /\ dccRail \in [level : BOOLEAN, enable : BOOLEAN]
  /\ dccRailInv \in [level : BOOLEAN, enable : BOOLEAN]
  /\ dccSignalInverted \in BOOLEAN
  /\ doing \in {<< >>, <<"copy">>, <<"default">>, <<"cancel", "default">>}
  /\ sending \in Packet \union {<< >>}
  /\ decoder \in [phase : {"preamble", "byte", "after"}, ones : Nat, byte : Seq(Bit),
                 bytes : Seq(Seq(Bit))]
  /\ heard \in Seq(Seq(Bit))

(* Nobody sets the generator up again.                                      *)
Undisturbed == ~app.monitorChanged /\ app.inverted = {}

(* The bits of a packet, the highest of each byte first.                    *)
Coded(p) == [i \in 1..Len(p) |-> [k \in 1..BITS |-> BitAt(p[i], BITS - k)]]

(* Whenever a packet is about to begin, the decoder has got exactly the one *)
(* before it, bit for bit: preamble, start bits and end bit were all      *)
(* there, whatever methods were called in between.                          *)
HeardInFull == state = "dccStartBitPacket" /\ firstHalfBit => heard = Coded(currentPacket)
DecoderGetsPackets == Undisturbed => HeardInFull

(* The counters never point outside the packet.                             *)
BytesInPacket ==
  Undisturbed /\ state = "dccData" => bytesRemainingInPacket \in 1..Len(currentPacket)

(* The two rail pins are never high at the same time, as long as the signal *)
(* is not inverted.                                                         *)
NeverBothHigh == app.inverted = {} => ~(dccRail.level /\ dccRailInv.level)

(* Without rail power nothing drives the rails.                             *)
OffMeansOff ==
  Undisturbed /\ ~railPower => /\ ~dccRail.level /\ ~dccRail.enable
                              /\ ~dccRailInv.level /\ ~dccRailInv.enable

(* When the power stays on, the rails get their signal back, gap or not;    *)
(* in Service Mode only if it is left again.                                *)
SignalReturns ==
  <>[](railPower /\ ~smActive) => []<>(dccRail.enable /\ dccRailInv.enable)

(* Once nobody reconfigures the outputs any more, the decoder gets whole    *)
(* packets again: a restart in the middle of a packet does no lasting harm. *)
Reconfigured == ChangeMonitor \/ \E inverted \in app.inverted : SetDccSignalInverted(inverted)

StreamRecovers == <>[][~Reconfigured]_vars => <>[]HeardInFull

(* The engine that the scheduler sees, whatever comes between the steps of a *)
(* method: it takes a packet when canAcceptPacket is reset, stops repeating  *)
(* with smActive, and changes its mode with the default packet.              *)
Engine == INSTANCE PacketEngineSpec WITH
  MaxRepeats <- SM_REPEATS,
  pending    <- IF canAcceptPacket THEN << >> ELSE <<nextPacket>>,
  asService  <- ~canAcceptPacket /\ isServiceModePacket,
  onAir      <- currentPacket,
  repeats    <- IF smActive THEN smRepeatsRemaining ELSE 0,
  service    <- defaultPacket = Reset

ImplementsEngine == Engine!Init /\ [][Undisturbed => Engine!Next]_Engine!vars

=============================================================================
