-------------------------- MODULE DCCHardwareESP32 ---------------------------
(***************************************************************************)
(* The waveform generator of the ESP32 (variants-HQ, DCCHardware-ESP32-RMT):*)
(* the RMT sends packets from two buffers, both of them queued.  When one   *)
(* was sent, its interrupt notifies a FreeRTOS task, which fills that       *)
(* buffer with the next packet and queues it again.  A timer, started by    *)
(* the same interrupt, makes the RailCom cutout on the AUX pin, which also  *)
(* enables the H-bridge.                                                    *)
(*                                                                         *)
(* The loop, the task and the two interrupts are the actors, and each may    *)
(* come between two writes of a method that another actor reads: the method *)
(* then takes several steps.  Writes are together in one step when nobody   *)
(* else looks in between: send() fills a buffer that the task ignores until *)
(* its size, written last, says how many symbols it has.  The interrupts    *)
(* belong to the core that called setup() and are one step each, as is the  *)
(* body of the task, which reads what a method writes once.                 *)
(***************************************************************************)
EXTENDS Naturals, SequencesExt

CONSTANTS
  Packet, ServicePacket, Idle, Reset,
  SM_REPEATS,          (* smMaxRepeats                                      *)
  Programs             (* what programs do beyond the plain use: subsets of AllUses *)

AllUses == {
  "lateTask",          (* a packet ends before the task was run             *)
  "stopRepeats",       (* stopServiceModeRepeats()                          *)
  "leaveEarly",        (* leaveServiceMode() while a packet waits           *)
  "leaveWhileOff",     (* leaveServiceMode() with the output stopped        *)
  "gapWhileOff",       (* setRailComGapInAux() with the output stopped      *)
  "gapInCutout",       (* setRailComGapInAux() during a cutout              *)
  "level",             (* setAuxActiveLevel() with the other level          *)
  "invert"}            (* setDccSignalInverted() at run time                *)

ASSUME ProgramsAssumption == Programs \subseteq SUBSET AllUses
ASSUME RepeatsAssumption == SM_REPEATS \in Nat \ {0}
ASSUME DefaultsAssumption == Idle # Reset

VARIABLES
  uses,                (* what this program does: one of Programs           *)
  canAcceptPacket,
  userPacket,          (* << >> or the packet; numberOfSymbols > 0          *)
  smActive, isServiceModePacket, smRepeatsRemaining,
  defaultPacket,
  rmtPingPongBuf, currentBufferIndex,
  rmtQueue,            (* the buffers handed to rmt_transmit()              *)
  channel,             (* the RMT channel exists                            *)
  notified,            (* the notification bit of the task                  *)
  aborted,             (* ESP_ERROR_CHECK failed                            *)
  doing,               (* the steps the method called last has yet to do    *)
  railComAllowedOnAux, railComActiveOnAux, railComCutoutInProgress,
  auxOutputActive,
  auxLevel,            (* "on" when the pin has the level auxEnableLevel    *)
  railComTimer         (* "off" or the alarm that is set                    *)

sm == <<smActive, isServiceModePacket, smRepeatsRemaining, defaultPacket>>
rmt == <<rmtPingPongBuf, currentBufferIndex, rmtQueue, channel, aborted>>
aux == <<railComAllowedOnAux, railComActiveOnAux, railComCutoutInProgress,
         auxOutputActive, auxLevel>>
device == <<canAcceptPacket, userPacket, sm, rmt, notified, doing, aux, railComTimer>>
vars == <<uses, device>>

(* setupWaveformGenerator()                                                 *)
Init ==
  /\ uses \in Programs
  /\ canAcceptPacket = TRUE
  /\ userPacket = << >>
  /\ smActive = FALSE /\ isServiceModePacket = FALSE /\ smRepeatsRemaining = 0
  /\ defaultPacket = Idle
  /\ rmtPingPongBuf = [i \in 0..1 |-> Idle] /\ currentBufferIndex = 0
  /\ rmtQueue = <<1, 0>>
  /\ channel = TRUE /\ notified = FALSE /\ aborted = FALSE /\ doing = << >>
  /\ railComAllowedOnAux \in IF "gapWhileOff" \in uses THEN BOOLEAN ELSE {FALSE}
  /\ railComActiveOnAux = railComAllowedOnAux
  /\ railComCutoutInProgress = FALSE
  /\ auxOutputActive = FALSE /\ auxLevel = "off"
  /\ railComTimer = "off"

-----------------------------------------------------------------------------
(* The interrupts.                                                          *)
AlarmStart == railComTimer = "TCS"
AlarmEnd == railComTimer = "TCE"

(* rmtDoneIsr().  The alarms of a cutout come long before the next packet   *)
(* ends.                                                                    *)
RmtDone ==
  /\ rmtQueue # << >>
  /\ railComTimer = "off"
  /\ ~notified \/ "lateTask" \in uses
  /\ rmtQueue' = Tail(rmtQueue)
  /\ notified' = TRUE
  /\ railComTimer' = "TCS"
  /\ UNCHANGED <<canAcceptPacket, userPacket, sm, rmtPingPongBuf, currentBufferIndex,
                 channel, aborted, doing, aux>>

(* railComTimerIsr()                                                        *)
CutoutStarts ==
  /\ AlarmStart /\ railComActiveOnAux /\ ~smActive
  /\ auxLevel' = "off"
  /\ railComCutoutInProgress' = TRUE
  /\ railComTimer' = "TCE"
  /\ UNCHANGED <<canAcceptPacket, userPacket, sm, rmt, notified, doing,
                 railComAllowedOnAux, railComActiveOnAux, auxOutputActive>>

(* Deliberate error: in Service Mode the level is not set back, either.     *)
CutoutEndsOutOfService ==
  /\ railComActiveOnAux
  /\ auxLevel' = IF railComCutoutInProgress /\ ~smActive THEN "on" ELSE auxLevel
  /\ railComCutoutInProgress' = FALSE
  /\ railComTimer' = "off"
  /\ AlarmEnd \/ (AlarmStart /\ smActive)
  /\ UNCHANGED <<canAcceptPacket, userPacket, sm, rmt, notified, doing,
                 railComAllowedOnAux, railComActiveOnAux, auxOutputActive>>

CutoutEnds ==
  /\ AlarmEnd \/ (AlarmStart /\ smActive)
  /\ railComActiveOnAux
  /\ auxLevel' = IF railComCutoutInProgress THEN "on" ELSE auxLevel
  /\ railComCutoutInProgress' = FALSE
  /\ railComTimer' = "off"
  /\ UNCHANGED <<canAcceptPacket, userPacket, sm, rmt, notified, doing,
                 railComAllowedOnAux, railComActiveOnAux, auxOutputActive>>

AlarmIgnored ==
  /\ railComTimer # "off" /\ ~railComActiveOnAux
  /\ railComTimer' = "off"
  /\ UNCHANGED <<canAcceptPacket, userPacket, sm, rmt, notified, doing, aux>>

railComTimerIsr == CutoutStarts \/ CutoutEnds \/ AlarmIgnored

-----------------------------------------------------------------------------
(* The task.                                                                *)
isServiceModeRepeating == smActive /\ smRepeatsRemaining > 0

(* Deliberate error: always the same buffer.                                *)
TransmitOneBuffer(p) ==
  /\ rmtPingPongBuf' = [rmtPingPongBuf EXCEPT ![currentBufferIndex] = p]
  /\ rmtQueue' = Append(rmtQueue, currentBufferIndex)
  /\ UNCHANGED <<channel, currentBufferIndex, aborted>>

(* rmt_transmit() aborts the program when there is no channel.              *)
callRmtTransmit(p) ==
  /\ currentBufferIndex' = 1 - currentBufferIndex
  /\ rmtPingPongBuf' = [rmtPingPongBuf EXCEPT ![currentBufferIndex'] = p]
  /\ rmtQueue' = IF channel THEN Append(rmtQueue, currentBufferIndex') ELSE rmtQueue
  /\ aborted' = (aborted \/ ~channel)
  /\ UNCHANGED channel

Wake ==
  /\ notified
  /\ notified' = FALSE
  /\ UNCHANGED <<smActive, isServiceModePacket, defaultPacket, doing, aux, railComTimer>>

StartUserPacket ==
  /\ Wake
  /\ ~isServiceModeRepeating /\ userPacket # << >>
  /\ callRmtTransmit(userPacket[1])
  /\ IF isServiceModePacket
     THEN smRepeatsRemaining' = SM_REPEATS /\ UNCHANGED <<userPacket, canAcceptPacket>>
     ELSE userPacket' = << >> /\ canAcceptPacket' = TRUE /\ UNCHANGED smRepeatsRemaining

StartDefaultPacket ==
  /\ Wake
  /\ ~isServiceModeRepeating /\ userPacket = << >>
  /\ callRmtTransmit(defaultPacket)
  /\ UNCHANGED <<canAcceptPacket, userPacket, smRepeatsRemaining>>

(* Deliberate error: a packet is accepted, and may take the place of the    *)
(* one that is repeated, one repeat early.                                  *)
RepeatOneLess ==
  /\ Wake
  /\ isServiceModeRepeating
  /\ callRmtTransmit(userPacket[1])
  /\ smRepeatsRemaining' = smRepeatsRemaining - 1
  /\ canAcceptPacket' = (smRepeatsRemaining <= 2)
  /\ userPacket' = IF smRepeatsRemaining = 1 THEN << >> ELSE userPacket

(* Deliberate error: the end of the repeats is not told.                    *)
RepeatUntold ==
  /\ Wake
  /\ isServiceModeRepeating
  /\ callRmtTransmit(userPacket[1])
  /\ smRepeatsRemaining' = smRepeatsRemaining - 1
  /\ UNCHANGED <<userPacket, canAcceptPacket>>

RepeatPacket ==
  /\ Wake
  /\ isServiceModeRepeating
  /\ callRmtTransmit(userPacket[1])
  /\ smRepeatsRemaining' = smRepeatsRemaining - 1
  /\ IF smRepeatsRemaining = 1
     THEN userPacket' = << >> /\ canAcceptPacket' = TRUE
     ELSE UNCHANGED <<userPacket, canAcceptPacket>>

rmtTxCompletionTask == StartUserPacket \/ StartDefaultPacket \/ RepeatPacket

-----------------------------------------------------------------------------
(* The methods: Call starts one, the steps below do the rest of it in turn. *)
Call(steps) == doing = << >> /\ doing' = steps
Step(name) == doing # << >> /\ Head(doing) = name /\ doing' = Tail(doing)

send(p) ==
  /\ canAcceptPacket
  /\ Call(<< >>)
  /\ canAcceptPacket' = FALSE
  /\ isServiceModePacket' = (smActive /\ p \in ServicePacket)
  /\ userPacket' = <<p>>
  /\ UNCHANGED <<smActive, smRepeatsRemaining, defaultPacket, rmt, notified, aux,
                 railComTimer>>

enterServiceMode ==
  /\ Call(<<"reset">>)
  /\ smActive' = TRUE
  /\ UNCHANGED <<canAcceptPacket, userPacket, isServiceModePacket, smRepeatsRemaining,
                 defaultPacket, rmt, notified, aux, railComTimer>>

EnterReset ==
  /\ Step("reset")
  /\ defaultPacket' = Reset
  /\ UNCHANGED <<canAcceptPacket, userPacket, smActive, isServiceModePacket,
                 smRepeatsRemaining, rmt, notified, aux, railComTimer>>

(* The scheduler calls it before the next packet, whatever the power state. *)
leaveServiceMode ==
  /\ smActive
  /\ canAcceptPacket \/ "leaveEarly" \in uses
  /\ auxOutputActive \/ "leaveWhileOff" \in uses
  /\ Call(<<"cancel", "inactive", "idle">>)
  /\ railComActiveOnAux' = railComAllowedOnAux
  /\ UNCHANGED <<canAcceptPacket, userPacket, sm, rmt, notified, railComAllowedOnAux,
                 railComCutoutInProgress, auxOutputActive, auxLevel, railComTimer>>

LeaveCancel ==
  /\ Step("cancel")
  /\ smRepeatsRemaining' = 0
  /\ UNCHANGED <<canAcceptPacket, userPacket, smActive, isServiceModePacket,
                 defaultPacket, rmt, notified, aux, railComTimer>>

LeaveInactive ==
  /\ Step("inactive")
  /\ smActive' = FALSE
  /\ UNCHANGED <<canAcceptPacket, userPacket, isServiceModePacket, smRepeatsRemaining,
                 defaultPacket, rmt, notified, aux, railComTimer>>

LeaveIdle ==
  /\ Step("idle")
  /\ defaultPacket' = Idle
  /\ UNCHANGED <<canAcceptPacket, userPacket, smActive, isServiceModePacket,
                 smRepeatsRemaining, rmt, notified, aux, railComTimer>>

stopServiceModeRepeats ==
  /\ "stopRepeats" \in uses
  /\ Call(<< >>)
  /\ smRepeatsRemaining' = 0
  /\ UNCHANGED <<canAcceptPacket, userPacket, smActive, isServiceModePacket,
                 defaultPacket, rmt, notified, aux, railComTimer>>

setRailComGapInAux(useForRcCutout) ==
  /\ auxOutputActive \/ "gapWhileOff" \in uses
  /\ ~railComCutoutInProgress \/ "gapInCutout" \in uses
  /\ Call(<< >>)
  /\ railComAllowedOnAux' = useForRcCutout
  /\ railComActiveOnAux' = useForRcCutout
  /\ UNCHANGED <<canAcceptPacket, userPacket, sm, rmt, notified, railComCutoutInProgress,
                 auxOutputActive, auxLevel, railComTimer>>

(* The other level gets the meaning of auxEnableLevel; the pin stays.       *)
setAuxActiveLevel ==
  /\ "level" \in uses
  /\ Call(<< >>)
  /\ auxLevel' = IF auxLevel = "on" THEN "off" ELSE "on"
  /\ UNCHANGED <<canAcceptPacket, userPacket, sm, rmt, notified, railComAllowedOnAux,
                 railComActiveOnAux, railComCutoutInProgress, auxOutputActive, railComTimer>>

(* Deliberate error: the timer goes on with the cutout.                     *)
StopOutputOnly ==
  /\ auxOutputActive
  /\ Call(<<"pinOff">>)
  /\ UNCHANGED <<canAcceptPacket, userPacket, sm, rmt, notified, aux, railComTimer>>

(* The timer does nothing to the pin once railComActiveOnAux is reset.      *)
StopOutputSignal ==
  /\ auxOutputActive
  /\ Call(<<"pinOff">>)
  /\ railComActiveOnAux' = FALSE
  /\ UNCHANGED <<canAcceptPacket, userPacket, sm, rmt, notified, railComAllowedOnAux,
                 railComCutoutInProgress, auxOutputActive, auxLevel, railComTimer>>

StopPin ==
  /\ Step("pinOff")
  /\ railComCutoutInProgress' = FALSE
  /\ auxOutputActive' = FALSE /\ auxLevel' = "off"
  /\ UNCHANGED <<canAcceptPacket, userPacket, sm, rmt, notified, railComAllowedOnAux,
                 railComActiveOnAux, railComTimer>>

RunOutputSignal ==
  /\ ~auxOutputActive
  /\ Call(<<"pinOn">>)
  /\ railComActiveOnAux' = railComAllowedOnAux
  /\ UNCHANGED <<canAcceptPacket, userPacket, sm, rmt, notified, railComAllowedOnAux,
                 railComCutoutInProgress, auxOutputActive, auxLevel, railComTimer>>

RunPin ==
  /\ Step("pinOn")
  /\ auxOutputActive' = TRUE /\ auxLevel' = "on"
  /\ UNCHANGED <<canAcceptPacket, userPacket, sm, rmt, notified, railComAllowedOnAux,
                 railComActiveOnAux, railComCutoutInProgress, railComTimer>>

(* setDccSignalInverted(): the generator is stopped and started again.      *)
setDccSignalInverted ==
  /\ "invert" \in uses
  /\ Call(<<"init", "channel", "first", "second", "accept">>)
  /\ canAcceptPacket' = FALSE
  /\ channel' = FALSE /\ rmtQueue' = << >>
  /\ UNCHANGED <<userPacket, sm, rmtPingPongBuf, currentBufferIndex, aborted, notified, aux,
                 railComTimer>>

(* initTxEngines()                                                          *)
RestartInit ==
  /\ Step("init")
  /\ railComActiveOnAux' = railComAllowedOnAux /\ railComCutoutInProgress' = FALSE
  /\ smActive' = FALSE /\ isServiceModePacket' = FALSE /\ smRepeatsRemaining' = 0
  /\ userPacket' = << >> /\ defaultPacket' = Idle /\ currentBufferIndex' = 0
  /\ UNCHANGED <<canAcceptPacket, rmtPingPongBuf, rmtQueue, channel, aborted, notified,
                 railComAllowedOnAux, auxOutputActive, auxLevel, railComTimer>>

RestartChannel ==
  /\ Step("channel")
  /\ channel' = TRUE
  /\ UNCHANGED <<canAcceptPacket, userPacket, sm, rmtPingPongBuf, currentBufferIndex, rmtQueue,
                 aborted, notified, aux, railComTimer>>

RestartTransmit ==
  /\ Step("first") \/ Step("second")
  /\ callRmtTransmit(Idle)
  /\ UNCHANGED <<canAcceptPacket, userPacket, sm, notified, aux, railComTimer>>

RestartAccept ==
  /\ Step("accept")
  /\ canAcceptPacket' = TRUE
  /\ UNCHANGED <<userPacket, sm, rmt, notified, aux, railComTimer>>

Restart == RestartInit \/ RestartChannel \/ RestartTransmit \/ RestartAccept

Continue ==
  \/ EnterReset
  \/ LeaveCancel
  \/ LeaveInactive
  \/ LeaveIdle
  \/ StopPin
  \/ RunPin
  \/ Restart

Method ==
  \/ \E p \in Packet : send(p)
  \/ enterServiceMode
  \/ leaveServiceMode
  \/ stopServiceModeRepeats
  \/ \E useForRcCutout \in BOOLEAN : setRailComGapInAux(useForRcCutout)
  \/ setAuxActiveLevel
  \/ StopOutputSignal
  \/ RunOutputSignal
  \/ setDccSignalInverted

Next ==
  /\ UNCHANGED uses
  /\ ~aborted
  /\ RmtDone \/ railComTimerIsr \/ rmtTxCompletionTask \/ Method \/ Continue

(* Unless the program was aborted the RMT sends, alarms fire, a notified     *)
(* task runs and methods return; nothing makes the program call one.        *)
Spec ==
  /\ Init /\ [][Next]_vars
  /\ WF_device(~aborted /\ RmtDone) /\ WF_device(~aborted /\ railComTimerIsr)
  /\ WF_device(~aborted /\ rmtTxCompletionTask) /\ WF_device(~aborted /\ Continue)

-----------------------------------------------------------------------------
Packets == Packet \union {Idle, Reset}

MethodSteps == {
  << >>, <<"reset">>, <<"cancel", "inactive", "idle">>, <<"inactive", "idle">>, <<"idle">>,
  <<"pinOff">>, <<"pinOn">>, <<"accept">>, <<"second", "accept">>,
  <<"first", "second", "accept">>, <<"channel", "first", "second", "accept">>,
  <<"init", "channel", "first", "second", "accept">>}

TypeOK ==
  /\ uses \in Programs
  /\ canAcceptPacket \in BOOLEAN
  /\ userPacket \in {<< >>} \union {<<p>> : p \in Packet}
  /\ smActive \in BOOLEAN /\ isServiceModePacket \in BOOLEAN
  /\ smRepeatsRemaining \in 0..SM_REPEATS
  /\ defaultPacket \in {Idle, Reset}
  /\ rmtPingPongBuf \in [0..1 -> Packets] /\ currentBufferIndex \in 0..1
  /\ channel \in BOOLEAN /\ notified \in BOOLEAN /\ aborted \in BOOLEAN
  /\ railComAllowedOnAux \in BOOLEAN /\ railComActiveOnAux \in BOOLEAN
  /\ railComCutoutInProgress \in BOOLEAN /\ auxOutputActive \in BOOLEAN
  /\ doing \in MethodSteps
  /\ auxLevel \in {"on", "off"} /\ railComTimer \in {"off", "TCS", "TCE"}

(* The properties below hold for every program that avoids the uses they     *)
(* name, and fail with each of these.                                        *)
Without(S) == uses \intersect S = {}

(* A buffer is filled only when the RMT has no more to read from it, and is *)
(* queued once.                                                             *)
BufferFree ==
  [][Without({"invert"}) =>
       \A i \in 0..1 : rmtPingPongBuf'[i] # rmtPingPongBuf[i] => i \notin Range(rmtQueue)]_vars

(* When the task was run, the packet after the one on the rails waits.      *)
BothQueued ==
  [][Without({"lateTask", "invert"}) /\ notified /\ ~notified' => Len(rmtQueue') = 2]_vars

(* rmt_transmit() is called only while the channel exists.                  *)
NeverAborts == Without({"invert"}) => ~aborted

(* Once StopOutputSignal() has returned, and until RunOutputSignal() is      *)
(* called, the AUX pin keeps the H-bridge off.                              *)
Stopped == ~auxOutputActive /\ doing # <<"pinOn">>

OffMeansOff ==
  Without({"leaveWhileOff", "gapWhileOff", "level", "invert"}) /\ Stopped => auxLevel = "off"

(* While the output runs, the H-bridge is on again after every cutout.      *)
PowerReturns ==
  Without({"gapInCutout", "level", "invert"}) /\ auxOutputActive ~>
    auxLevel = "on" \/ ~auxOutputActive \/ aborted

(* The program is asked for packets again and again.                        *)
AsksAgain == Without({"leaveEarly", "stopRepeats"}) => []<>(canAcceptPacket \/ aborted)

(* The packets that are queued for the RMT are what the engine of           *)
(* DCCHardware.h promises, whatever comes between the steps of a method; its *)
(* mode is that of the default packet.                                      *)
waiting == userPacket # << >> /\ smRepeatsRemaining = 0

Engine == INSTANCE PacketEngineSpec WITH
  MaxRepeats <- SM_REPEATS,
  pending    <- IF waiting THEN userPacket ELSE << >>,
  asService  <- waiting /\ isServiceModePacket,
  onAir      <- rmtPingPongBuf[currentBufferIndex],
  repeats    <- smRepeatsRemaining,
  service    <- defaultPacket = Reset

ImplementsEngine ==
  /\ Engine!Init
  /\ [][Without({"stopRepeats", "leaveEarly", "invert"}) => Engine!Next]_Engine!vars
=============================================================================
