-------------------------- MODULE DCCHardwareSTM32 ---------------------------
(***************************************************************************)
(* The waveform generator of the STM32F4 and H7 (variants-HQ,               *)
(* DCCHardware-STM32-Generic): a DMA channel feeds the compare register of  *)
(* a timer from two buffers in turn; the interrupt at the end of a buffer   *)
(* changes the buffers and fills the one that was sent, so that what it     *)
(* fills is on the rails one packet later.  A second timer makes the        *)
(* RailCom cutout on the AUX pin, which also enables the H-bridge.          *)
(*                                                                         *)
(* The interrupts may come between any two steps of a method; what send()   *)
(* and the mode changes do with interrupts disabled is one step.  AUX       *)
(* enables the H-bridge when its pin has the level AuxActiveLevel.          *)
(***************************************************************************)
EXTENDS Naturals, Sequences

CONSTANTS
  Packet, ServicePacket, Idle, Reset,
  SM_REPEATS,          (* smMaxRepeats                                      *)
  Programs             (* what programs do beyond the plain use: subsets of AllUses *)

AllUses == {
  "startOff",          (* setup() with the power off                        *)
  "stopInCutout",      (* StopOutputSignal() during a cutout                *)
  "levelWhileOff",     (* setAuxActiveLevel() with the output stopped       *)
  "levelAmidCutouts",  (* setAuxActiveLevel() while cutouts are made        *)
  "leaveEarly",        (* leaveServiceMode() while a packet waits           *)
  "invert"}            (* setDccSignalInverted()                            *)

ASSUME ProgramsAssumption == Programs \subseteq SUBSET AllUses
ASSUME RepeatsAssumption == SM_REPEATS \in Nat
ASSUME DefaultsAssumption == Idle # Reset

VARIABLES
  uses,                (* what this program does: one of Programs           *)
  canAcceptPacket,
  nextPacket, currentPacket, defaultPacket,
  smActive, isServiceModePacket, smRepeatsRemaining,
  buffer, Buf_in_Use,  (* the packets in the two DMA buffers                *)
  railCom, railComActiveOnAux,
  railPower,
  auxPin, AuxActiveLevel,  (* TRUE is high                                  *)
  railComTimer,        (* "off", "predelay" (railcompredelay) or "cutout"   *)
  railComCutoutInProgress,
  doing,               (* the steps the method called last has yet to do    *)
  sending              (* the argument of send()                            *)

packets == <<canAcceptPacket, nextPacket, currentPacket>>
sm == <<smActive, isServiceModePacket, smRepeatsRemaining>>
dma == <<buffer, Buf_in_Use>>
railComSettings == <<railCom, railComActiveOnAux>>
aux == <<railPower, auxPin, AuxActiveLevel, railComTimer, railComCutoutInProgress>>
method == <<doing, sending>>
vars == <<uses, packets, defaultPacket, sm, dma, railComSettings, aux, method>>

Other(i) == 3 - i

Packets == Packet \union {Idle, Reset}

(* The state after DCCPacketScheduler::setup().  setupWaveformGenerator()   *)
(* leaves AUX low, which enables the H-bridge, and StopOutputSignal() does  *)
(* nothing before the first RunOutputSignal().                              *)
Init ==
  /\ uses \in Programs
  /\ canAcceptPacket = TRUE /\ nextPacket = Idle /\ currentPacket = Idle
  /\ defaultPacket = Idle
  /\ smActive = FALSE /\ isServiceModePacket = FALSE /\ smRepeatsRemaining = 0
  /\ buffer = <<Idle, Idle>> /\ Buf_in_Use = 1
  /\ railCom \in BOOLEAN /\ railComActiveOnAux = FALSE
  /\ railPower = ("startOff" \notin uses)
  /\ auxPin = FALSE /\ AuxActiveLevel = FALSE
  /\ railComTimer = "off" /\ railComCutoutInProgress = FALSE
  /\ doing = << >> /\ sending = Idle

-----------------------------------------------------------------------------
(* DMA1_Stream4_IRQHandler().                                               *)

(* Deliberate error: also with the output stopped.                          *)
StartCutoutAlways ==
  IF railCom /\ ~smActive /\ railComActiveOnAux
  THEN railComTimer' = "predelay" /\ railComCutoutInProgress' = TRUE
  ELSE UNCHANGED <<railComTimer, railComCutoutInProgress>>

StartCutout ==
  IF railCom /\ ~smActive /\ railPower /\ railComActiveOnAux
  THEN railComTimer' = "predelay" /\ railComCutoutInProgress' = TRUE
  ELSE UNCHANGED <<railComTimer, railComCutoutInProgress>>

(* A cutout ends long before the packet that begins with it.                *)
ChangeBuffers(p) ==
  /\ railComTimer = "off"
  /\ Buf_in_Use' = Other(Buf_in_Use)
  /\ buffer' = [buffer EXCEPT ![Buf_in_Use] = p]
  /\ StartCutout
  /\ UNCHANGED <<uses, nextPacket, defaultPacket, smActive, isServiceModePacket,
                 railComSettings, railPower, auxPin, AuxActiveLevel, method>>

isServiceModeRepeating == smActive /\ smRepeatsRemaining > 0

(* Deliberate error: the packet is not kept for the repeats.                *)
TakeNextUnkept ==
  /\ ~isServiceModeRepeating /\ ~canAcceptPacket
  /\ ChangeBuffers(nextPacket)
  /\ smRepeatsRemaining' = IF isServiceModePacket THEN SM_REPEATS ELSE smRepeatsRemaining
  /\ canAcceptPacket' = TRUE
  /\ UNCHANGED currentPacket

TakeNextPacket ==
  /\ ~isServiceModeRepeating /\ ~canAcceptPacket
  /\ ChangeBuffers(nextPacket)
  /\ currentPacket' = nextPacket
  /\ smRepeatsRemaining' = IF isServiceModePacket THEN SM_REPEATS ELSE smRepeatsRemaining
  /\ canAcceptPacket' = TRUE

TakeDefaultPacket ==
  /\ ~isServiceModeRepeating /\ canAcceptPacket
  /\ ChangeBuffers(defaultPacket)
  /\ UNCHANGED <<canAcceptPacket, currentPacket, smRepeatsRemaining>>

(* Deliberate error: the repeats are not counted.                           *)
RepeatForEver ==
  /\ isServiceModeRepeating
  /\ ChangeBuffers(currentPacket)
  /\ UNCHANGED <<canAcceptPacket, currentPacket, smRepeatsRemaining>>

RepeatPacket ==
  /\ isServiceModeRepeating
  /\ ChangeBuffers(currentPacket)
  /\ smRepeatsRemaining' = smRepeatsRemaining - 1
  /\ UNCHANGED <<canAcceptPacket, currentPacket>>

DMA1_Stream4_IRQHandler == TakeNextPacket \/ TakeDefaultPacket \/ RepeatPacket

(* RailComCutoutIRQ(), of the second timer.                                 *)
CutoutStarts ==
  /\ railComTimer = "predelay"
  /\ auxPin' = ~AuxActiveLevel
  /\ railComTimer' = "cutout"
  /\ railComCutoutInProgress' = TRUE
  /\ UNCHANGED <<uses, packets, defaultPacket, sm, dma, railComSettings, railPower,
                 AuxActiveLevel, method>>

(* Deliberate error: the level is not set back.                             *)
CutoutStays ==
  /\ railComTimer = "cutout"
  /\ railComTimer' = "off"
  /\ railComCutoutInProgress' = FALSE
  /\ UNCHANGED <<uses, packets, defaultPacket, sm, dma, railComSettings, railPower,
                 auxPin, AuxActiveLevel, method>>

CutoutEnds ==
  /\ railComTimer = "cutout"
  /\ auxPin' = AuxActiveLevel
  /\ railComTimer' = "off"
  /\ railComCutoutInProgress' = FALSE
  /\ UNCHANGED <<uses, packets, defaultPacket, sm, dma, railComSettings, railPower,
                 AuxActiveLevel, method>>

RailComCutoutIRQ == CutoutStarts \/ CutoutEnds

-----------------------------------------------------------------------------
(* Methods: Call starts one, the steps below do the rest of it in turn.     *)
Call(steps) == doing = << >> /\ doing' = steps
Step(name) == doing # << >> /\ Head(doing) = name /\ doing' = Tail(doing)

SendBegin(p) ==
  /\ canAcceptPacket
  /\ Call(<<"copy">>)
  /\ sending' = p
  /\ isServiceModePacket' = (smActive /\ p \in ServicePacket)
  /\ UNCHANGED <<uses, packets, defaultPacket, smActive, smRepeatsRemaining, dma,
                 railComSettings, aux>>

SendCopy ==
  /\ Step("copy")
  /\ nextPacket' = sending
  /\ canAcceptPacket' = FALSE
  /\ sending' = Idle
  /\ UNCHANGED <<uses, currentPacket, defaultPacket, sm, dma, railComSettings, aux>>

enterServiceMode ==
  /\ ~smActive
  /\ Call(<<"default">>)
  /\ smActive' = TRUE
  /\ UNCHANGED <<uses, packets, defaultPacket, isServiceModePacket, smRepeatsRemaining, dma,
                 railComSettings, aux, sending>>

(* The scheduler calls it only when the engine accepts a packet.            *)
leaveServiceMode ==
  /\ smActive
  /\ canAcceptPacket \/ "leaveEarly" \in uses
  /\ Call(<<"cancel", "default">>)
  /\ smActive' = FALSE
  /\ UNCHANGED <<uses, packets, defaultPacket, isServiceModePacket, smRepeatsRemaining, dma,
                 railComSettings, aux, sending>>

LeaveCancel ==
  /\ Step("cancel")
  /\ smRepeatsRemaining' = 0
  /\ UNCHANGED <<uses, packets, defaultPacket, smActive, isServiceModePacket, dma,
                 railComSettings, aux, sending>>

WriteDefaultPacket ==
  /\ Step("default")
  /\ defaultPacket' = IF smActive THEN Reset ELSE Idle
  /\ UNCHANGED <<uses, packets, sm, dma, railComSettings, aux, sending>>

stopServiceModeRepeats ==
  /\ Call(<< >>)
  /\ smRepeatsRemaining' = 0
  /\ UNCHANGED <<uses, packets, defaultPacket, smActive, isServiceModePacket, dma,
                 railComSettings, aux, sending>>

setRailCom(active) ==
  /\ Call(<< >>)
  /\ railCom' = active
  /\ UNCHANGED <<uses, packets, defaultPacket, sm, dma, railComActiveOnAux, aux, sending>>

setRailComGapInAux(useForRcCutout) ==
  /\ Call(<< >>)
  /\ railComActiveOnAux' = useForRcCutout
  /\ UNCHANGED <<uses, packets, defaultPacket, sm, dma, railCom, aux, sending>>

(* The pin gets the active level before it is the active one: a cutout that *)
(* begins or ends in between uses the old one.                              *)
setAuxActiveLevel(activeHigh) ==
  /\ railPower \/ "levelWhileOff" \in uses
  /\ \/ railComTimer = "off" /\ ~(railCom /\ railComActiveOnAux)
     \/ "levelAmidCutouts" \in uses
  /\ Call(IF activeHigh THEN <<"activeHigh">> ELSE <<"activeLow">>)
  /\ auxPin' = activeHigh
  /\ UNCHANGED <<uses, packets, defaultPacket, sm, dma, railComSettings, railPower,
                 AuxActiveLevel, railComTimer, railComCutoutInProgress, sending>>

WriteActiveLevel ==
  /\ \/ Step("activeHigh") /\ AuxActiveLevel' = TRUE
     \/ Step("activeLow") /\ AuxActiveLevel' = FALSE
  /\ UNCHANGED <<uses, packets, defaultPacket, sm, dma, railComSettings, railPower, auxPin,
                 railComTimer, railComCutoutInProgress, sending>>

(* Without a packet to take, the interrupt takes the last one once more.    *)
setDccSignalInverted ==
  /\ "invert" \in uses
  /\ Call(<< >>)
  /\ canAcceptPacket' = FALSE
  /\ UNCHANGED <<uses, nextPacket, currentPacket, defaultPacket, sm, dma, railComSettings,
                 aux, sending>>

StopOutputSignal ==
  /\ railPower
  /\ railComTimer = "off" \/ "stopInCutout" \in uses
  /\ Call(<<"pinOff">>)
  /\ railPower' = FALSE
  /\ UNCHANGED <<uses, packets, defaultPacket, sm, dma, railComSettings, auxPin,
                 AuxActiveLevel, railComTimer, railComCutoutInProgress, sending>>

RunOutputSignal ==
  /\ ~railPower
  /\ Call(<<"pinOn">>)
  /\ railPower' = TRUE
  /\ UNCHANGED <<uses, packets, defaultPacket, sm, dma, railComSettings, auxPin,
                 AuxActiveLevel, railComTimer, railComCutoutInProgress, sending>>

WritePin ==
  /\ \/ Step("pinOff") /\ auxPin' = ~AuxActiveLevel
     \/ Step("pinOn") /\ auxPin' = AuxActiveLevel
  /\ UNCHANGED <<uses, packets, defaultPacket, sm, dma, railComSettings, railPower,
                 AuxActiveLevel, railComTimer, railComCutoutInProgress, sending>>

Method ==
  \/ \E p \in Packet : SendBegin(p)
  \/ enterServiceMode
  \/ leaveServiceMode
  \/ stopServiceModeRepeats
  \/ \E active \in BOOLEAN :
       setRailCom(active) \/ setRailComGapInAux(active) \/ setAuxActiveLevel(active)
  \/ setDccSignalInverted
  \/ StopOutputSignal
  \/ RunOutputSignal

Continue == SendCopy \/ LeaveCancel \/ WriteDefaultPacket \/ WriteActiveLevel \/ WritePin

Next == DMA1_Stream4_IRQHandler \/ RailComCutoutIRQ \/ Method \/ Continue

(* Timers and DMA run by themselves; nothing makes the program call.        *)
Spec ==
  /\ Init /\ [][Next]_vars
  /\ WF_vars(DMA1_Stream4_IRQHandler) /\ WF_vars(RailComCutoutIRQ) /\ WF_vars(Continue)

-----------------------------------------------------------------------------
TypeOK ==
  /\ uses \in Programs
  /\ canAcceptPacket \in BOOLEAN
  /\ nextPacket \in Packets /\ currentPacket \in Packets
  /\ defaultPacket \in Packets /\ sending \in Packets
  /\ smActive \in BOOLEAN /\ isServiceModePacket \in BOOLEAN
  /\ smRepeatsRemaining \in 0..SM_REPEATS
  /\ buffer \in [1..2 -> Packets] /\ Buf_in_Use \in 1..2
  /\ railCom \in BOOLEAN /\ railComActiveOnAux \in BOOLEAN
  /\ railPower \in BOOLEAN /\ auxPin \in BOOLEAN /\ AuxActiveLevel \in BOOLEAN
  /\ railComTimer \in {"off", "predelay", "cutout"}
  /\ railComCutoutInProgress \in BOOLEAN

(* The properties below hold for every program that avoids the uses they     *)
(* name.                                                                     *)
Without(S) == uses \intersect S = {}

Enabled == auxPin = AuxActiveLevel

(* StopOutputSignal() takes the power off the rails: once it has returned,  *)
(* AUX keeps the H-bridge disabled until RunOutputSignal().                 *)
BridgeOff == ~railPower /\ doing # <<"pinOff">> => ~Enabled

OffMeansOff == Without({"startOff", "stopInCutout", "levelWhileOff"}) => BridgeOff

(* StopOutputSignal() sets AUX to the disabled state, and it stays there.   *)
StopHolds == Without({"startOff", "levelWhileOff"}) => BridgeOff

(* While the output runs, the H-bridge is on again after every cutout.      *)
PowerReturns == Without({"levelAmidCutouts"}) /\ railPower ~> Enabled \/ ~railPower

(* The program is asked for packets again and again.                        *)
AsksAgain == []<>canAcceptPacket

(* What is put into the DMA buffers is what the engine of DCCHardware.h      *)
(* promises for the rails, one packet ahead: no packet lost, doubled or torn *)
(* by an interrupt within a method, Service Mode packets repeated.           *)
Engine == INSTANCE PacketEngineSpec WITH
  MaxRepeats <- SM_REPEATS,
  pending    <- IF canAcceptPacket THEN << >> ELSE <<nextPacket>>,
  asService  <- ~canAcceptPacket /\ isServiceModePacket,
  onAir      <- buffer[Other(Buf_in_Use)],
  repeats    <- IF smActive THEN smRepeatsRemaining ELSE 0,
  service    <- defaultPacket = Reset

ImplementsEngine ==
  Engine!Init /\ [][Without({"leaveEarly", "invert"}) => Engine!Next]_Engine!vars
=============================================================================
