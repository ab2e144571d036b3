-------------------------- MODULE DCCHardwareRPPico --------------------------
(***************************************************************************)
(* The waveform generator of the RP2040 (variants-HQ, DCCHardware-RP-PICO): *)
(* a DMA channel feeds a PIO state machine with whole packets from four     *)
(* buffers, two of them filled in turn by send(); the interrupt at the end  *)
(* of a packet chooses the next buffer.  A second state machine makes the   *)
(* RailCom cutout on the AUX pin, which also enables the H-bridge.          *)
(*                                                                         *)
(* Nothing keeps the interrupt out of a method: it may come before and after *)
(* every write that it looks at.  Flags that only methods read are written   *)
(* in the step of the next write, and a buffer is filled in one step, since  *)
(* the interrupt takes it only once the index and userPacketReady say so.   *)
(* Of a buffer the model keeps the packet, the RailCom gap, the marker for   *)
(* the cutout, and whether the rails get a signal.                          *)
(*                                                                         *)
(* The engine of the Z21PG mode (DCCHardware_RP) handles packets by the same *)
(* statements.  It has no AUX pin: it stops the output by filling buffers   *)
(* with the pin masks of a dead signal.                                     *)
(***************************************************************************)
EXTENDS Naturals, Sequences

CONSTANTS
  Boards,              (* the engines: "HQ", "Z21PG"                        *)
  Packet, ServicePacket, Idle, Reset,
  SM_REPEATS,          (* smMaxRepeats                                      *)
  RailComOnDcc,        (* arguments of setRailCom ...                       *)
  RailComOnAux,        (* ... and of setRailComGapInAux                     *)
  Programs             (* what programs do beyond the plain use: subsets of AllUses *)

AllUses == {
  "sendEarly",         (* send() while a packet waits                       *)
  "leaveEarly",        (* leaveServiceMode() while a packet waits           *)
  "gapWhileOff",       (* setRailComGapInAux() with the output stopped      *)
  "activeHigh"}        (* setAuxActiveLevel(true) before the setup          *)

ASSUME BoardsAssumption == Boards \subseteq {"HQ", "Z21PG"}
ASSUME RepeatsAssumption == SM_REPEATS \in Nat
ASSUME RailComAssumption == RailComOnDcc \subseteq BOOLEAN /\ RailComOnAux \subseteq BOOLEAN
ASSUME ProgramsAssumption == Programs \subseteq SUBSET AllUses

UserBuffer == {"user0", "user1"}
Buffer == UserBuffer \union {"idle", "reset"}
Other(b) == IF b = "user0" THEN "user1" ELSE "user0"

VARIABLES
  board,               (* the engine that was compiled: one of Boards       *)
  uses,                (* what this program does: one of Programs           *)
  canAcceptPacket,
  buffer,              (* userPacket, idlePacket, resetPacket               *)
  sendPacketIndex, isrPacketIndex, userPacketReady,
  defaultPacket,
  smActive, isServiceModePacket, smRepeatsRemaining,
  railComAllowedOnDcc, railComAllowedOnAux, railComActiveOnAux,
  outputActive,        (* auxOutputActive; Z21PG: dccOutputActive           *)
  doing,               (* the steps the method called last has yet to do    *)
  sending,             (* the argument of send()                            *)
  onAir,               (* the buffer that the DMA reads                     *)
  auxPin,              (* "PIO" or "SIO": who drives the AUX pin            *)
  sioLevel,            (* "on" or "off": the level written by the program   *)
  irq, cutout          (* the second state machine: started; in the gap     *)

packets == <<canAcceptPacket, buffer, sendPacketIndex, isrPacketIndex, userPacketReady>>
sm == <<defaultPacket, smActive, isServiceModePacket, smRepeatsRemaining>>
railCom == <<railComAllowedOnDcc, railComAllowedOnAux, railComActiveOnAux>>
aux == <<outputActive, auxPin, sioLevel>>
pio == <<irq, cutout>>
vars == <<board, uses, packets, sm, railCom, aux, pio, doing, sending, onAir>>

(* pushMarker, pushPreamble, then the bytes                                 *)
Filled(p) ==
  [packet |-> p,
   gap |-> ~smActive /\ railComAllowedOnDcc,
   marker |-> railComActiveOnAux,
   signal |-> board = "HQ" \/ outputActive]

(* setupWaveformGenerator().  The level that initAuxPin() writes is right   *)
(* for a pin that is not inverted, but setRailComActiveOnAux() inverts it.  *)
Init ==
  /\ board \in Boards
  /\ uses \in Programs
  /\ canAcceptPacket = TRUE
  /\ smActive = FALSE /\ isServiceModePacket = FALSE /\ smRepeatsRemaining = 0
  /\ railComAllowedOnDcc \in RailComOnDcc
  /\ railComAllowedOnAux \in
       IF "gapWhileOff" \in uses /\ board = "HQ" THEN RailComOnAux ELSE {FALSE}
  /\ railComActiveOnAux = railComAllowedOnAux
  /\ sendPacketIndex = "user0" /\ isrPacketIndex = "user1" /\ userPacketReady = FALSE
  /\ defaultPacket = "idle"
  /\ outputActive = FALSE
  /\ buffer = [b \in Buffer |-> Filled(IF b = "reset" THEN Reset ELSE Idle)]
  /\ doing = << >> /\ sending = Idle
  /\ onAir = "idle"
  /\ auxPin = IF railComAllowedOnAux THEN "PIO" ELSE "SIO"
  /\ sioLevel = IF "activeHigh" \in uses THEN "on" ELSE "off"
  /\ irq = FALSE /\ cutout = FALSE

-----------------------------------------------------------------------------
(* The DMA interrupt: procesNextPacket().                                   *)
isServiceModeRepeating == smActive /\ smRepeatsRemaining > 0

transmitNextPacket(b) ==
  /\ onAir' = b
  /\ irq' = (irq \/ buffer[b].marker)
  /\ UNCHANGED <<buffer, sendPacketIndex, defaultPacket, smActive, isServiceModePacket,
                 railCom, aux, cutout, doing, sending>>

AcceptUnlessRepeating ==
  canAcceptPacket' = IF smRepeatsRemaining' = 0 THEN TRUE ELSE canAcceptPacket

(* Deliberate error: sendPacketIndex is taken to be the buffer just filled. *)
StartSendBuffer ==
  /\ ~isServiceModeRepeating /\ userPacketReady
  /\ isrPacketIndex' = sendPacketIndex
  /\ transmitNextPacket(sendPacketIndex)
  /\ userPacketReady' = FALSE
  /\ smRepeatsRemaining' = IF isServiceModePacket THEN SM_REPEATS ELSE smRepeatsRemaining
  /\ AcceptUnlessRepeating

StartUserPacket ==
  /\ ~isServiceModeRepeating /\ userPacketReady
  /\ isrPacketIndex' = Other(sendPacketIndex)
  /\ transmitNextPacket(Other(sendPacketIndex))
  /\ userPacketReady' = FALSE
  /\ smRepeatsRemaining' = IF isServiceModePacket THEN SM_REPEATS ELSE smRepeatsRemaining
  /\ AcceptUnlessRepeating

StartDefaultPacket ==
  /\ ~isServiceModeRepeating /\ ~userPacketReady
  /\ transmitNextPacket(defaultPacket)
  /\ UNCHANGED <<isrPacketIndex, userPacketReady, smRepeatsRemaining>>
  /\ AcceptUnlessRepeating

(* Deliberate error: the repeats are not counted.                           *)
RepeatForEver ==
  /\ isServiceModeRepeating
  /\ transmitNextPacket(isrPacketIndex)
  /\ UNCHANGED <<isrPacketIndex, userPacketReady, smRepeatsRemaining>>
  /\ AcceptUnlessRepeating

RepeatPacket ==
  /\ isServiceModeRepeating
  /\ transmitNextPacket(isrPacketIndex)
  /\ smRepeatsRemaining' = smRepeatsRemaining - 1
  /\ AcceptUnlessRepeating
  /\ UNCHANGED <<isrPacketIndex, userPacketReady>>

Interrupt ==
  /\ UNCHANGED <<board, uses>>
  /\ StartUserPacket \/ StartDefaultPacket \/ RepeatPacket

-----------------------------------------------------------------------------
(* Methods: Call starts one, the steps below do the rest of it in turn.     *)
Call(steps) == doing = << >> /\ doing' = steps
Step(name) == doing # << >> /\ Head(doing) = name /\ doing' = Tail(doing)

(* canAcceptPacket says that no packet waits, unless an interrupt within the *)
(* send() before has set it again.                                          *)
SendBegin(p) ==
  /\ canAcceptPacket
  /\ ~userPacketReady \/ "sendEarly" \in uses
  /\ Call(<<"fill", "toggle", "ready">>)
  /\ canAcceptPacket' = FALSE
  /\ sending' = p
  /\ UNCHANGED <<buffer, sendPacketIndex, isrPacketIndex, userPacketReady, sm, railCom,
                 aux, pio, onAir>>

SendFill ==
  /\ Step("fill")
  /\ isServiceModePacket' = (smActive /\ sending \in ServicePacket)
  /\ buffer' = [buffer EXCEPT ![sendPacketIndex] = Filled(sending)]
  /\ sending' = Idle
  /\ UNCHANGED <<canAcceptPacket, sendPacketIndex, isrPacketIndex, userPacketReady,
                 defaultPacket, smActive, smRepeatsRemaining, railCom, aux, pio, onAir>>

(* Deliberate error: always the same buffer.                                *)
SendWithoutToggle ==
  /\ Step("toggle")
  /\ UNCHANGED <<canAcceptPacket, buffer, sendPacketIndex, isrPacketIndex, userPacketReady,
                 sm, railCom, aux, pio, sending, onAir>>

SendToggle ==
  /\ Step("toggle")
  /\ sendPacketIndex' = Other(sendPacketIndex)
  /\ UNCHANGED <<canAcceptPacket, buffer, isrPacketIndex, userPacketReady, sm, railCom,
                 aux, pio, sending, onAir>>

SendReady ==
  /\ Step("ready")
  /\ userPacketReady' = TRUE
  /\ UNCHANGED <<canAcceptPacket, buffer, sendPacketIndex, isrPacketIndex, sm, railCom,
                 aux, pio, sending, onAir>>

enterServiceMode ==
  /\ Call(<<"useReset">>)
  /\ smActive' = TRUE
  /\ UNCHANGED <<packets, defaultPacket, isServiceModePacket, smRepeatsRemaining, railCom,
                 aux, pio, sending, onAir>>

(* The scheduler calls it only when the engine accepts a packet.            *)
leaveServiceMode ==
  /\ smActive
  /\ canAcceptPacket
  /\ ~userPacketReady \/ "leaveEarly" \in uses
  /\ Call(<<"inactive", "useIdle">>)
  /\ railComActiveOnAux' = railComAllowedOnAux
  /\ smRepeatsRemaining' = 0
  /\ UNCHANGED <<packets, defaultPacket, smActive, isServiceModePacket, railComAllowedOnDcc,
                 railComAllowedOnAux, aux, pio, sending, onAir>>

LeaveInactive ==
  /\ Step("inactive")
  /\ smActive' = FALSE
  /\ UNCHANGED <<packets, defaultPacket, isServiceModePacket, smRepeatsRemaining, railCom,
                 aux, pio, sending, onAir>>

UseDefaultPacket ==
  /\ \/ Step("useReset") /\ defaultPacket' = "reset"
     \/ Step("useIdle") /\ defaultPacket' = "idle"
  /\ UNCHANGED <<packets, smActive, isServiceModePacket, smRepeatsRemaining, railCom, aux,
                 pio, sending, onAir>>

stopServiceModeRepeats ==
  /\ Call(<< >>)
  /\ smRepeatsRemaining' = 0
  /\ UNCHANGED <<packets, defaultPacket, smActive, isServiceModePacket, railCom, aux, pio,
                 sending, onAir>>

-----------------------------------------------------------------------------
(* createDccDefaultPackets() writes the idle packet, then the reset packet. *)
Defaults == <<"idle", "reset">>

PrepareIdlePacket ==
  /\ Step("idle")
  /\ buffer' = [buffer EXCEPT !["idle"] = Filled(Idle)]
  /\ UNCHANGED <<canAcceptPacket, sendPacketIndex, isrPacketIndex, userPacketReady, sm,
                 railCom, aux, pio, sending, onAir>>

PrepareResetPacket ==
  /\ Step("reset")
  /\ buffer' = [buffer EXCEPT !["reset"] = Filled(Reset)]
  /\ UNCHANGED <<canAcceptPacket, sendPacketIndex, isrPacketIndex, userPacketReady, sm,
                 railCom, aux, pio, sending, onAir>>

setRailCom(active) ==
  /\ Call(Defaults)
  /\ railComAllowedOnDcc' = active
  /\ UNCHANGED <<packets, sm, railComAllowedOnAux, railComActiveOnAux, aux, pio, sending,
                 onAir>>

(* setPreambleLength(), setPreambleLengthSM()                               *)
setPreambleLength ==
  /\ Call(Defaults)
  /\ UNCHANGED <<packets, sm, railCom, aux, pio, sending, onAir>>

(* setRailComActiveOnAux(): the flag, the default packets, then the pin and *)
(* what the caller has yet to do.                                           *)
DefaultsAndPin == <<"idle", "reset", "attach">>

setRailComActiveOnAux(auxHasCutOut, steps) ==
  /\ Call(steps)
  /\ railComActiveOnAux' = auxHasCutOut

AttachAux ==
  /\ Step("attach")
  /\ auxPin' = IF railComActiveOnAux THEN "PIO" ELSE "SIO"
  /\ UNCHANGED <<packets, sm, railCom, outputActive, sioLevel, pio, sending, onAir>>

setRailComGapInAux(active) ==
  /\ board = "HQ"
  /\ outputActive \/ "gapWhileOff" \in uses
  /\ setRailComActiveOnAux(active, DefaultsAndPin)
  /\ railComAllowedOnAux' = active
  /\ UNCHANGED <<packets, sm, railComAllowedOnDcc, aux, pio, sending, onAir>>

(* Deliberate error: the state machine keeps the pin.                       *)
StopWithoutDetach ==
  /\ board = "HQ"
  /\ outputActive
  /\ Call(<<"off">>)
  /\ outputActive' = FALSE
  /\ UNCHANGED <<packets, sm, railCom, auxPin, sioLevel, pio, sending, onAir>>

StopOutputSignal ==
  /\ board = "HQ"
  /\ outputActive
  /\ setRailComActiveOnAux(FALSE, <<"idle", "reset", "attach", "off">>)
  /\ outputActive' = FALSE
  /\ UNCHANGED <<packets, sm, railComAllowedOnDcc, railComAllowedOnAux, auxPin, sioLevel,
                 pio, sending, onAir>>

WriteOff ==
  /\ Step("off")
  /\ sioLevel' = "off"
  /\ UNCHANGED <<packets, sm, railCom, outputActive, auxPin, pio, sending, onAir>>

RunOutputSignal ==
  /\ board = "HQ"
  /\ ~outputActive
  /\ outputActive' = TRUE
  /\ sioLevel' = "on"
  /\ IF railComAllowedOnAux
     THEN setRailComActiveOnAux(TRUE, DefaultsAndPin)
     ELSE Call(<< >>) /\ UNCHANGED railComActiveOnAux
  /\ UNCHANGED <<packets, sm, railComAllowedOnDcc, railComAllowedOnAux, auxPin, pio,
                 sending, onAir>>

(* Deliberate error: the default packets keep their masks.                  *)
SwitchFlagOnly ==
  /\ board = "Z21PG"
  /\ Call(<< >>)
  /\ outputActive' = ~outputActive
  /\ UNCHANGED <<packets, sm, railCom, auxPin, sioLevel, pio, sending, onAir>>

(* Z21PG: the flag, then the default packets with the masks it asks for.    *)
SwitchOutputSignal ==
  /\ board = "Z21PG"
  /\ Call(Defaults)
  /\ outputActive' = ~outputActive
  /\ UNCHANGED <<packets, sm, railCom, auxPin, sioLevel, pio, sending, onAir>>

Method ==
  /\ UNCHANGED <<board, uses>>
  /\ \/ \E p \in Packet : SendBegin(p)
     \/ enterServiceMode
     \/ leaveServiceMode
     \/ stopServiceModeRepeats
     \/ \E active \in RailComOnDcc : setRailCom(active)
     \/ setPreambleLength
     \/ \E active \in RailComOnAux : setRailComGapInAux(active)
     \/ StopOutputSignal
     \/ RunOutputSignal
     \/ SwitchOutputSignal

Continue ==
  /\ UNCHANGED <<board, uses>>
  /\ \/ SendFill \/ SendToggle \/ SendReady
     \/ LeaveInactive \/ UseDefaultPacket
     \/ PrepareIdlePacket \/ PrepareResetPacket
     \/ AttachAux \/ WriteOff

-----------------------------------------------------------------------------
(* railcomCutOut, the program of the second state machine.                  *)
CutoutStarts ==
  /\ auxPin = "PIO" /\ irq /\ ~cutout
  /\ irq' = FALSE /\ cutout' = TRUE
  /\ UNCHANGED <<board, uses, packets, sm, railCom, aux, doing, sending, onAir>>

CutoutEnds ==
  /\ auxPin = "PIO" /\ cutout
  /\ cutout' = FALSE
  /\ UNCHANGED <<board, uses, packets, sm, railCom, aux, irq, doing, sending, onAir>>

Next == Interrupt \/ Method \/ Continue \/ CutoutStarts \/ CutoutEnds

(* Packets end, methods return and the state machine runs; nothing makes the *)
(* program call a method.                                                   *)
Spec ==
  /\ Init /\ [][Next]_vars
  /\ WF_vars(Interrupt) /\ WF_vars(Continue) /\ WF_vars(CutoutEnds)

-----------------------------------------------------------------------------
Packets == Packet \union {Idle, Reset}

TypeOK ==
  /\ board \in Boards
  /\ uses \in Programs
  /\ canAcceptPacket \in BOOLEAN
  /\ buffer \in [Buffer -> [packet : Packets, gap : BOOLEAN, marker : BOOLEAN,
                            signal : BOOLEAN]]
  /\ sendPacketIndex \in UserBuffer /\ isrPacketIndex \in UserBuffer
  /\ userPacketReady \in BOOLEAN
  /\ smActive \in BOOLEAN /\ isServiceModePacket \in BOOLEAN
  /\ smRepeatsRemaining \in 0..SM_REPEATS
  /\ defaultPacket \in {"idle", "reset"}
  /\ railComAllowedOnDcc \in BOOLEAN
  /\ railComAllowedOnAux \in BOOLEAN /\ railComActiveOnAux \in BOOLEAN
  /\ outputActive \in BOOLEAN
  /\ auxPin \in {"PIO", "SIO"} /\ sioLevel \in {"on", "off"}
  /\ irq \in BOOLEAN /\ cutout \in BOOLEAN
  /\ sending \in Packets
  /\ onAir \in Buffer

(* The properties below hold for every program that avoids the uses they     *)
(* name, and fail with each of these.                                        *)
Without(S) == uses \intersect S = {}

(* The buffer that is being written.                                        *)
Written ==
  IF doing = << >> THEN {}
  ELSE CASE Head(doing) = "fill" -> {sendPacketIndex}
         [] Head(doing) \in Buffer -> {Head(doing)}
         [] OTHER -> {}

(* The buffer that send() fills is never the one on the rails, wherever the  *)
(* interrupt breaks in.                                                      *)
SentBufferFree == Without({"sendEarly"}) => onAir \notin Written \intersect UserBuffer

(* A default packet is not written while it is on the rails.                *)
DefaultBufferFree == onAir \notin Written \ UserBuffer

(* An idle packet has the RailCom gap when and only when it is configured.  *)
GapOnIdle ==
  ~smActive /\ doing = << >> => buffer["idle"].gap = railComAllowedOnDcc

(* In Service Mode the packets ask for no RailCom cutout on the AUX pin.    *)
NoCutoutInService ==
  smActive /\ doing = << >> => ~buffer["reset"].marker

AuxOn == IF auxPin = "PIO" THEN ~cutout ELSE sioLevel = "on"

(* When the output was stopped the AUX pin keeps the H-bridge off.          *)
OffMeansOff ==
  Without({"gapWhileOff", "activeHigh"}) /\ board = "HQ" /\ ~outputActive /\ doing = << >> =>
    ~AuxOn

(* While the output runs, the rails have a signal again and again, also      *)
(* after every cutout; when it was stopped for good they end up without one, *)
(* although packets may wait that were filled before.                        *)
RailsOn == IF board = "HQ" THEN AuxOn ELSE buffer[onAir].signal

PowerFollows ==
  /\ outputActive ~> RailsOn \/ ~outputActive
  /\ Without({"gapWhileOff", "activeHigh"}) /\ <>[]~outputActive => <>[]~RailsOn

(* "The DCC and inverted DCC pins will always stay low" once the output was *)
(* stopped.                                                                 *)
LowAtOnce == ~outputActive /\ doing = << >> => ~RailsOn

(* The program is asked for packets again and again.                        *)
AsksAgain == Without({"leaveEarly"}) => []<>canAcceptPacket

(* What is on the rails is what the engine of DCCHardware.h promises, with   *)
(* the interrupt between any two steps of a method: no packet lost, doubled  *)
(* or mixed, Service Mode packets repeated.                                  *)
Engine == INSTANCE PacketEngineSpec WITH
  MaxRepeats <- SM_REPEATS,
  pending    <- IF userPacketReady THEN <<buffer[Other(sendPacketIndex)].packet>> ELSE << >>,
  asService  <- userPacketReady /\ isServiceModePacket,
  onAir      <- CASE onAir = "idle" -> Idle
                  [] onAir = "reset" -> Reset
                  [] OTHER -> buffer[onAir].packet,
  repeats    <- smRepeatsRemaining,
  service    <- defaultPacket = "reset"

ImplementsEngine ==
  Engine!Init /\ [][Without({"sendEarly", "leaveEarly"}) => Engine!Next]_Engine!vars
=============================================================================
