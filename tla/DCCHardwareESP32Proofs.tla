----------------------- MODULE DCCHardwareESP32Proofs ------------------------
(***************************************************************************)
(* The ESP32 engine, for every set of packets, every number of repeats and *)
(* every combination of the uses: when its task fills a buffer, what AUX   *)
(* does, and that it queues the packets that PacketEngineSpec promises.    *)
(***************************************************************************)
EXTENDS DCCHardwareESP32, TLAPS

(* What a restart, and leaving Service Mode, has yet to do.                  *)
FreedSteps == {
  <<"accept">>, <<"second", "accept">>, <<"first", "second", "accept">>,
  <<"channel", "first", "second", "accept">>}
RestartSteps == FreedSteps \union {<<"init", "channel", "first", "second", "accept">>}
LeaveSteps == {<<"cancel", "inactive", "idle">>, <<"inactive", "idle">>, <<"idle">>}

(* The Service Mode packet that is repeated stays in userPacket, which       *)
(* canAcceptPacket says to be free, and which a restart frees at first.      *)
RepeatsHeld ==
  /\ smRepeatsRemaining > 0 => userPacket # << >> /\ isServiceModePacket
  /\ canAcceptPacket => userPacket = << >>
  /\ doing \in FreedSteps => userPacket = << >>

(* The RMT has at most the two buffers to send, the one filled last at the   *)
(* end; after a notification one of them was sent and not yet filled again.  *)
QueueKept ==
  /\ doing \notin RestartSteps /\ channel /\ ~aborted
  /\ rmtQueue \in {<< >>, <<currentBufferIndex>>, <<1 - currentBufferIndex, currentBufferIndex>>}
  /\ notified => rmtQueue # <<1 - currentBufferIndex, currentBufferIndex>>
  /\ "lateTask" \notin uses /\ notified => rmtQueue = <<currentBufferIndex>>
  /\ "lateTask" \notin uses /\ ~notified =>
       rmtQueue = <<1 - currentBufferIndex, currentBufferIndex>>

QueueOK == "invert" \notin uses => QueueKept

(* With the output stopped, or being stopped, the timer finds cutouts        *)
(* switched off.                                                             *)
AuxKept ==
  /\ Stopped => auxLevel = "off" /\ ~railComActiveOnAux
  /\ doing = <<"pinOff">> => ~railComActiveOnAux
  /\ doing \in LeaveSteps => auxOutputActive

AuxOK == Without({"leaveWhileOff", "gapWhileOff", "level", "invert"}) => AuxKept

(* canAcceptPacket and the repeats say what userPacket is: nothing, a packet *)
(* to start, or the one that was started in Service Mode and is repeated.    *)
PacketsKept ==
  /\ canAcceptPacket <=> userPacket = << >>
  /\ userPacket # << >> /\ isServiceModePacket => smActive
  /\ smRepeatsRemaining > 0 => smActive /\ rmtPingPongBuf[currentBufferIndex] = userPacket[1]

(* Service Mode and the default packet change one after the other, and the   *)
(* mode is left with no packet waiting.                                      *)
ModeKept ==
  /\ doing \notin {<<"reset">>, <<"idle">>} => (smActive <=> defaultPacket = Reset)
  /\ doing = <<"reset">> => smActive
  /\ doing = <<"idle">> => ~smActive
  /\ doing \in LeaveSteps => canAcceptPacket

PacketsOK == Without({"stopRepeats", "leaveEarly", "invert"}) => PacketsKept /\ ModeKept

IInv == TypeOK /\ RepeatsHeld /\ QueueOK /\ AuxOK /\ PacketsOK

-----------------------------------------------------------------------------
(* The types of the flags, and those of the rest.                            *)
Flags ==
  /\ canAcceptPacket \in BOOLEAN /\ smActive \in BOOLEAN /\ isServiceModePacket \in BOOLEAN
  /\ channel \in BOOLEAN /\ notified \in BOOLEAN /\ aborted \in BOOLEAN
  /\ railComAllowedOnAux \in BOOLEAN /\ railComActiveOnAux \in BOOLEAN
  /\ railComCutoutInProgress \in BOOLEAN /\ auxOutputActive \in BOOLEAN

Data ==
  /\ uses \in Programs
  /\ userPacket \in {<< >>} \union {<<p>> : p \in Packet}
  /\ smRepeatsRemaining \in 0..SM_REPEATS
  /\ defaultPacket \in {Idle, Reset} /\ doing \in MethodSteps
  /\ rmtPingPongBuf \in [0..1 -> Packets] /\ currentBufferIndex \in 0..1
  /\ auxLevel \in {"on", "off"} /\ railComTimer \in {"off", "TCS", "TCE"}

LEMMA InitTypeOK == Init => TypeOK
<1> SUFFICES ASSUME Init PROVE TypeOK
  OBVIOUS
<1>1. railComAllowedOnAux \in BOOLEAN
  <2>1. (IF "gapWhileOff" \in uses THEN BOOLEAN ELSE {FALSE}) \subseteq BOOLEAN
    OBVIOUS
  <2> QED
    BY Zenon, <2>1 DEF Init
<1>2. Flags
  BY Zenon, <1>1 DEF Init, Flags
<1>3. Data
  BY RepeatsAssumption DEF Init, Data, Packets, MethodSteps
<1> QED
  BY <1>2, <1>3 DEF Flags, Data, TypeOK

LEMMA StepFlags ==
  ASSUME Flags, [Next]_vars
  PROVE  Flags'
<1> USE DEF Flags
<1>1. CASE RmtDone \/ railComTimerIsr
  BY ZenonT(30), <1>1 DEF RmtDone, railComTimerIsr, CutoutStarts, CutoutEnds, AlarmIgnored, sm, rmt, aux
<1>2. CASE rmtTxCompletionTask
  BY ZenonT(30), <1>2 DEF rmtTxCompletionTask, StartUserPacket, StartDefaultPacket, RepeatPacket, Wake,
       callRmtTransmit, aux
<1>3. CASE Continue
  <2>1. CASE Restart
    BY ZenonT(30), <2>1 DEF Restart, RestartInit, RestartChannel, RestartTransmit,
         RestartAccept, callRmtTransmit, sm, rmt, aux
  <2>2. CASE EnterReset \/ LeaveCancel \/ LeaveInactive \/ LeaveIdle
    <3>1. /\ UNCHANGED <<canAcceptPacket, isServiceModePacket, rmt, notified, aux>>
          /\ smActive' = smActive \/ smActive' = FALSE
      BY <2>2 DEF EnterReset, LeaveCancel, LeaveInactive, LeaveIdle
    <3> QED
      BY ZenonT(30), <3>1 DEF rmt, aux
  <2>3. CASE StopPin \/ RunPin
    BY ZenonT(30), <2>3 DEF StopPin, RunPin, sm, rmt
  <2> QED
    BY <1>3, <2>1, <2>2, <2>3 DEF Continue
<1>4. CASE Method
  <2>1. ASSUME NEW p \in Packet, send(p) PROVE Flags'
    BY ZenonT(30), <2>1 DEF send, rmt, aux
  <2>2. CASE enterServiceMode \/ leaveServiceMode \/ stopServiceModeRepeats
    <3>1. CASE leaveServiceMode
      BY ZenonT(30), <3>1 DEF leaveServiceMode, sm, rmt
    <3>2. CASE enterServiceMode \/ stopServiceModeRepeats
      BY ZenonT(30), <3>2 DEF enterServiceMode, stopServiceModeRepeats, rmt, aux
    <3> QED
      BY <2>2, <3>1, <3>2
  <2>3. ASSUME NEW useForRcCutout \in BOOLEAN, setRailComGapInAux(useForRcCutout) PROVE Flags'
    BY ZenonT(30), <2>3 DEF setRailComGapInAux, sm, rmt
  <2>4. CASE StopOutputSignal \/ RunOutputSignal \/ setDccSignalInverted \/ setAuxActiveLevel
    BY ZenonT(30), <2>4 DEF StopOutputSignal, RunOutputSignal, setDccSignalInverted,
         setAuxActiveLevel, sm, rmt, aux
  <2> QED
    BY <1>4, <2>1, <2>2, <2>3, <2>4 DEF Method
<1>5. CASE UNCHANGED vars
  BY Zenon, <1>5 DEF vars, device, sm, rmt, aux
<1> QED
  BY <1>1, <1>2, <1>3, <1>4, <1>5 DEF Next

(* Which step a method can be at, and what it has yet to do after that.      *)
LEMMA StepsInTurn ==
  ASSUME doing \in MethodSteps, NEW name, Step(name)
  PROVE  /\ doing # << >> /\ doing[1] = name
         /\ doing' \in MethodSteps
         /\ name = "reset" => doing = <<"reset">> /\ doing' = << >>
         /\ name = "cancel" => doing \in LeaveSteps /\ doing' = <<"inactive", "idle">>
         /\ name = "inactive" => doing = <<"inactive", "idle">> /\ doing' = <<"idle">>
         /\ name = "idle" => doing = <<"idle">> /\ doing' = << >>
         /\ name = "pinOff" => doing = <<"pinOff">> /\ doing' = << >>
         /\ name = "pinOn" => doing = <<"pinOn">> /\ doing' = << >>
         /\ name = "accept" => doing' = << >>
         /\ name \in {"channel", "first", "second", "accept"} => doing \in FreedSteps
         /\ name = "init" => doing \in RestartSteps
         /\ name \in {"init", "channel", "first", "second"} => doing' \in FreedSteps
<1>1. Tail(<<"accept">>) = << >> /\ Tail(<<"reset">>) = << >> /\ Tail(<<"idle">>) = << >>
      /\ Tail(<<"pinOff">>) = << >> /\ Tail(<<"pinOn">>) = << >>
  OBVIOUS
<1>2. Tail(<<"second", "accept">>) = <<"accept">>
  OBVIOUS
<1>3. Tail(<<"first", "second", "accept">>) = <<"second", "accept">>
  OBVIOUS
<1>4. Tail(<<"channel", "first", "second", "accept">>) = <<"first", "second", "accept">>
  OBVIOUS
<1>5. Tail(<<"init", "channel", "first", "second", "accept">>)
        = <<"channel", "first", "second", "accept">>
  OBVIOUS
<1>6. Tail(<<"cancel", "inactive", "idle">>) = <<"inactive", "idle">>
  OBVIOUS
<1>7. Tail(<<"inactive", "idle">>) = <<"idle">>
  OBVIOUS
<1>8. doing # << >> /\ Head(doing) = name /\ doing' = Tail(doing)
  BY DEF Step
<1>9. doing[1] = name
  BY <1>8 DEF MethodSteps
<1>10. CASE doing \in {<<"reset">>, <<"idle">>, <<"pinOff">>, <<"pinOn">>}
  <2>1. doing' = << >>
    BY <1>1, <1>8, <1>10
  <2> QED
    BY <1>8, <1>9, <1>10, <2>1 DEF MethodSteps
<1>11. CASE doing \in LeaveSteps
  <2>1. \/ doing = <<"cancel", "inactive", "idle">> /\ doing' = <<"inactive", "idle">>
        \/ doing = <<"inactive", "idle">> /\ doing' = <<"idle">>
        \/ doing = <<"idle">> /\ doing' = << >>
    BY <1>1, <1>6, <1>7, <1>8, <1>11 DEF LeaveSteps
  <2> QED
    BY <1>8, <1>9, <1>11, <2>1 DEF MethodSteps, LeaveSteps
<1>12. CASE doing \in RestartSteps
  <2>1. doing' = << >> \/ doing' \in FreedSteps
    BY <1>1, <1>2, <1>3, <1>4, <1>5, <1>8, <1>12 DEF RestartSteps, FreedSteps
  <2>2. doing' \in MethodSteps
    BY <2>1 DEF FreedSteps, MethodSteps
  <2>3. name \in {"init", "channel", "first", "second", "accept"}
        /\ (name = "init" \/ doing \in FreedSteps)
    BY <1>9, <1>12 DEF RestartSteps, FreedSteps
  <2>4. (name = "accept" => doing = <<"accept">>) /\ (doing = <<"accept">> => name = "accept")
    BY <1>9, <1>12 DEF RestartSteps, FreedSteps
  <2>5. doing # <<"accept">> => doing' \in FreedSteps
    BY <1>2, <1>3, <1>4, <1>5, <1>8, <1>12 DEF RestartSteps, FreedSteps
  <2> QED
    BY <1>1, <1>8, <1>9, <1>12, <2>2, <2>3, <2>4, <2>5
<1> QED
  BY <1>8, <1>10, <1>11, <1>12 DEF MethodSteps, LeaveSteps, RestartSteps, FreedSteps

(* What the task hands to the RMT is a packet.                               *)
LEMMA TransmitData ==
  ASSUME Data, NEW p \in Packets, callRmtTransmit(p)
  PROVE  rmtPingPongBuf' \in [0..1 -> Packets] /\ currentBufferIndex' \in 0..1
BY DEF Data, callRmtTransmit

LEMMA StepData ==
  ASSUME Data, RepeatsHeld, [Next]_vars
  PROVE  Data'
<1> USE DEF Data
<1>1. uses' = uses
  BY DEF Next, vars
<1>2. CASE RmtDone \/ railComTimerIsr
  BY <1>1, <1>2 DEF RmtDone, railComTimerIsr, CutoutStarts, CutoutEnds, AlarmIgnored, sm, rmt, aux
<1>3. CASE rmtTxCompletionTask
  <2>1. UNCHANGED <<auxLevel, railComTimer, defaultPacket, doing>>
    BY <1>3 DEF rmtTxCompletionTask, StartUserPacket, StartDefaultPacket, RepeatPacket, Wake, aux
  <2>2. userPacket # << >> => userPacket[1] \in Packet
    OBVIOUS
  <2>3. CASE StartUserPacket
    <3>1. rmtPingPongBuf' \in [0..1 -> Packets] /\ currentBufferIndex' \in 0..1
      BY <2>2, <2>3, TransmitData DEF StartUserPacket, Packets
    <3> QED
      BY <1>1, <2>1, <2>3, <3>1, RepeatsAssumption DEF StartUserPacket
  <2>4. CASE StartDefaultPacket
    <3>1. rmtPingPongBuf' \in [0..1 -> Packets] /\ currentBufferIndex' \in 0..1
      BY <2>4, TransmitData DEF StartDefaultPacket, Packets
    <3> QED
      BY <1>1, <2>1, <2>4, <3>1 DEF StartDefaultPacket
  <2>5. CASE RepeatPacket
    <3>1. rmtPingPongBuf' \in [0..1 -> Packets] /\ currentBufferIndex' \in 0..1
      BY <2>2, <2>5, TransmitData DEF RepeatPacket, isServiceModeRepeating, RepeatsHeld, Packets
    <3> QED
      BY <1>1, <2>1, <2>5, <3>1, RepeatsAssumption DEF RepeatPacket, isServiceModeRepeating
  <2> QED
    BY <1>3, <2>3, <2>4, <2>5 DEF rmtTxCompletionTask
<1>4. CASE Continue
  <2>1. doing' \in MethodSteps
    BY <1>4, StepsInTurn DEF Continue, EnterReset, LeaveCancel, LeaveInactive, LeaveIdle,
         StopPin, RunPin, Restart, RestartInit, RestartChannel, RestartTransmit, RestartAccept
  <2>2. CASE RestartInit \/ RestartChannel \/ RestartAccept
    BY <1>1, <2>1, <2>2, RepeatsAssumption
    DEF RestartInit, RestartChannel, RestartAccept, sm, rmt, aux
  <2>3. CASE RestartTransmit
    <3>1. rmtPingPongBuf' \in [0..1 -> Packets] /\ currentBufferIndex' \in 0..1
      BY <2>3, TransmitData DEF RestartTransmit, Packets
    <3> QED
      BY <1>1, <2>1, <2>3, <3>1 DEF RestartTransmit, sm, aux
  <2>4. CASE EnterReset \/ LeaveCancel \/ LeaveInactive \/ LeaveIdle
    BY <1>1, <2>1, <2>4, RepeatsAssumption
    DEF EnterReset, LeaveCancel, LeaveInactive, LeaveIdle, rmt, aux
  <2>5. CASE StopPin \/ RunPin
    BY <1>1, <2>1, <2>5 DEF StopPin, RunPin, sm, rmt
  <2> QED
    BY <1>4, <2>2, <2>3, <2>4, <2>5 DEF Continue, Restart
<1>5. CASE Method
  <2>1. doing' \in MethodSteps
    BY <1>5 DEF Method, send, enterServiceMode, leaveServiceMode, stopServiceModeRepeats,
         setRailComGapInAux, setAuxActiveLevel, StopOutputSignal, RunOutputSignal,
         setDccSignalInverted, Call, MethodSteps
  <2>2. ASSUME NEW p \in Packet, send(p) PROVE Data'
    BY <1>1, <2>1, <2>2 DEF send, rmt, aux
  <2>3. CASE enterServiceMode \/ leaveServiceMode \/ stopServiceModeRepeats
    BY <1>1, <2>1, <2>3, RepeatsAssumption
    DEF enterServiceMode, leaveServiceMode, stopServiceModeRepeats, sm, rmt, aux
  <2>4. ASSUME NEW useForRcCutout \in BOOLEAN, setRailComGapInAux(useForRcCutout) PROVE Data'
    BY <1>1, <2>1, <2>4 DEF setRailComGapInAux, sm, rmt
  <2>5. CASE StopOutputSignal \/ RunOutputSignal \/ setDccSignalInverted \/ setAuxActiveLevel
    BY <1>1, <2>1, <2>5 DEF StopOutputSignal, RunOutputSignal, setDccSignalInverted,
         setAuxActiveLevel, sm, rmt, aux
  <2> QED
    BY <1>5, <2>2, <2>3, <2>4, <2>5 DEF Method
<1>6. CASE UNCHANGED vars
  BY <1>6 DEF vars, device, sm, rmt, aux
<1> QED
  BY <1>2, <1>3, <1>4, <1>5, <1>6 DEF Next

-----------------------------------------------------------------------------
(* The packet that is repeated is dropped with the last of its repeats.      *)
LEMMA StepRepeatsHeld ==
  ASSUME TypeOK, RepeatsHeld, [Next]_vars
  PROVE  RepeatsHeld'
<1> USE DEF RepeatsHeld, TypeOK
<1>1. CASE RmtDone \/ railComTimerIsr
  BY <1>1 DEF RmtDone, railComTimerIsr, CutoutStarts, CutoutEnds, AlarmIgnored, sm
<1>2. CASE StartUserPacket
  <2>1. CASE isServiceModePacket
    BY <1>2, <2>1 DEF StartUserPacket, Wake
  <2>2. CASE ~isServiceModePacket
    BY <1>2, <2>2 DEF StartUserPacket, Wake
  <2> QED
    BY <2>1, <2>2
<1>3. CASE StartDefaultPacket
  BY <1>3 DEF StartDefaultPacket, Wake
<1>4. CASE RepeatPacket
  BY <1>4 DEF RepeatPacket, isServiceModeRepeating, Wake
<1>5. CASE Restart
  <2>1. CASE RestartInit
    BY <2>1 DEF RestartInit
  <2>2. CASE RestartChannel
    BY <2>2, StepsInTurn DEF RestartChannel, sm
  <2>3. CASE RestartTransmit
    BY <2>3, StepsInTurn DEF RestartTransmit, sm
  <2>4. CASE RestartAccept
    BY <2>4, StepsInTurn DEF RestartAccept, sm
  <2> QED
    BY <1>5, <2>1, <2>2, <2>3, <2>4 DEF Restart
<1>6. ASSUME NEW p \in Packet, send(p) PROVE RepeatsHeld'
  BY <1>6 DEF send, Call, FreedSteps
<1>7. CASE setDccSignalInverted
  BY <1>7 DEF setDccSignalInverted, sm, Call, FreedSteps
<1>8. CASE leaveServiceMode \/ stopServiceModeRepeats \/ enterServiceMode
  BY <1>8 DEF leaveServiceMode, stopServiceModeRepeats, enterServiceMode, Call, FreedSteps, sm
<1>9. ASSUME \/ \E useForRcCutout \in BOOLEAN : setRailComGapInAux(useForRcCutout)
             \/ StopOutputSignal \/ RunOutputSignal \/ setAuxActiveLevel
      PROVE  RepeatsHeld'
  BY <1>9 DEF setRailComGapInAux, StopOutputSignal, RunOutputSignal, setAuxActiveLevel, Call,
       FreedSteps, sm
<1>10. CASE \/ EnterReset \/ LeaveCancel \/ LeaveInactive \/ LeaveIdle \/ StopPin \/ RunPin
  <2>1. doing' \in {<< >>, <<"inactive", "idle">>, <<"idle">>}
    BY <1>10, StepsInTurn DEF EnterReset, LeaveCancel, LeaveInactive, LeaveIdle, StopPin, RunPin
  <2>2. doing' \notin FreedSteps
    BY <2>1 DEF FreedSteps
  <2> QED
    BY <1>10, <2>2 DEF EnterReset, LeaveCancel, LeaveInactive, LeaveIdle, StopPin, RunPin, sm
<1>11. CASE UNCHANGED vars
  BY <1>11 DEF vars, device, sm
<1> QED
  BY <1>1, <1>2, <1>3, <1>4, <1>5, <1>6, <1>7, <1>8, <1>9, <1>10, <1>11
  DEF Next, rmtTxCompletionTask, Method, Continue

(* The program stays the same.                                               *)
LEMMA UsesFixed ==
  ASSUME [Next]_vars
  PROVE  uses' = uses
BY DEF Next, vars

(* What is left to send when the first of the buffers was sent, and what     *)
(* there is when one was filled.                                             *)
LEMMA QueueSteps ==
  ASSUME NEW c \in 0..1
  PROVE  /\ Tail(<<c>>) = << >> /\ Tail(<<1 - c, c>>) = <<c>>
         /\ Append(<< >>, 1 - c) = <<1 - c>> /\ Append(<<c>>, 1 - c) = <<c, 1 - c>>
         /\ 1 - c \in 0..1 /\ 1 - (1 - c) = c
<1>1. Tail(<<c>>) = << >>
  OBVIOUS
<1>2. Tail(<<1 - c, c>>) = <<c>>
  OBVIOUS
<1>3. Append(<< >>, 1 - c) = <<1 - c>>
  OBVIOUS
<1>4. Append(<<c>>, 1 - c) = <<c, 1 - c>>
  <2> DEFINE both == [i \in 1..2 |-> IF i = 2 THEN 1 - c ELSE <<c>>[i]]
  <2>1. Append(<<c>>, 1 - c) = both
    OBVIOUS
  <2>2. 1..2 = {1, 2}
    OBVIOUS
  <2>3. <<c, 1 - c>> = both
    BY <2>2
  <2> QED
    BY <2>1, <2>3
<1> QED
  BY <1>1, <1>2, <1>3, <1>4

(* What the other methods have yet to do is no restart.                      *)
LEMMA OtherSteps ==
  {<< >>, <<"reset">>, <<"pinOff">>, <<"pinOn">>} \union LeaveSteps
    \subseteq MethodSteps \ RestartSteps
<1>1. << >> \notin RestartSteps
  BY DEF RestartSteps, FreedSteps
<1>2. ASSUME NEW name \in {"reset", "idle", "pinOff", "pinOn"}
      PROVE  <<name>> \notin RestartSteps
  BY <1>2 DEF RestartSteps, FreedSteps
<1>3. <<"inactive", "idle">> \notin RestartSteps
  BY DEF RestartSteps, FreedSteps
<1>4. <<"cancel", "inactive", "idle">> \notin RestartSteps
  BY DEF RestartSteps, FreedSteps
<1> QED
  BY <1>1, <1>2, <1>3, <1>4 DEF LeaveSteps, MethodSteps

(* The RMT and the task take turns with the two buffers.                     *)
LEMMA StepQueueOK ==
  ASSUME TypeOK, QueueOK, [Next]_vars
  PROVE  QueueOK'
<1> SUFFICES ASSUME "invert" \notin uses' PROVE QueueKept'
  BY DEF QueueOK
<1>0. uses' = uses /\ "invert" \notin uses /\ QueueKept
  BY UsesFixed DEF QueueOK
<1> USE <1>0 DEF QueueKept, TypeOK
<1>1. CASE RmtDone
  <2>1. UNCHANGED <<doing, channel, aborted, currentBufferIndex>> /\ notified' = TRUE
    BY <1>1 DEF RmtDone
  <2>2. CASE rmtQueue = <<currentBufferIndex>>
    BY <1>1, <2>1, <2>2, QueueSteps DEF RmtDone
  <2>3. CASE rmtQueue = <<1 - currentBufferIndex, currentBufferIndex>>
    BY <1>1, <2>1, <2>3, QueueSteps DEF RmtDone
  <2> QED
    BY <1>1, <2>2, <2>3 DEF RmtDone
<1>2. CASE rmtTxCompletionTask
  <2>1. notified /\ notified' = FALSE /\ doing' = doing
        /\ \E p : callRmtTransmit(p)
    BY <1>2 DEF rmtTxCompletionTask, StartUserPacket, StartDefaultPacket, RepeatPacket, Wake
  <2>2. /\ currentBufferIndex' = 1 - currentBufferIndex
        /\ rmtQueue' = Append(rmtQueue, currentBufferIndex')
        /\ channel'
    BY <2>1 DEF callRmtTransmit
  <2>3. ~aborted'
    BY Zenon, <1>0, <2>1 DEF callRmtTransmit
  <2>4. rmtQueue \in {<< >>, <<currentBufferIndex>>}
    BY <2>1
  <2> QED
    BY <2>1, <2>2, <2>3, <2>4, QueueSteps
<1>3. ASSUME UNCHANGED <<notified, rmt>>, doing' \notin RestartSteps PROVE QueueKept'
  <2>1. UNCHANGED <<notified, channel, aborted, rmtQueue, currentBufferIndex, uses>>
    BY <1>3 DEF rmt
  <2> QED
    BY <1>3, <2>1
<1>4. CASE railComTimerIsr
  <2>1. UNCHANGED <<notified, rmt, doing>>
    BY <1>4 DEF railComTimerIsr, CutoutStarts, CutoutEnds, AlarmIgnored
  <2> QED
    BY <1>3, <2>1
<1>5. CASE Continue
  <2>1. CASE Restart
    BY <2>1, StepsInTurn DEF Restart, RestartInit, RestartChannel, RestartTransmit,
         RestartAccept, RestartSteps
  <2>2. CASE \/ EnterReset \/ LeaveCancel \/ LeaveInactive \/ LeaveIdle \/ StopPin \/ RunPin
    <3>1. doing' \in {<< >>, <<"inactive", "idle">>, <<"idle">>}
      BY <2>2, StepsInTurn DEF EnterReset, LeaveCancel, LeaveInactive, LeaveIdle, StopPin, RunPin
    <3>2. doing' \notin RestartSteps
      BY <3>1, OtherSteps DEF LeaveSteps
    <3>3. UNCHANGED <<notified, rmt>>
      BY <2>2 DEF EnterReset, LeaveCancel, LeaveInactive, LeaveIdle, StopPin, RunPin
    <3> QED
      BY <1>3, <3>2, <3>3
  <2> QED
    BY <1>5, <2>1, <2>2 DEF Continue
<1>6. CASE Method
  <2>1. UNCHANGED <<notified, rmt>>
    BY <1>6 DEF Method, send, enterServiceMode, leaveServiceMode, stopServiceModeRepeats,
         setRailComGapInAux, setAuxActiveLevel, StopOutputSignal, RunOutputSignal,
         setDccSignalInverted
  <2>2. doing' \in {<< >>, <<"reset">>, <<"cancel", "inactive", "idle">>, <<"pinOff">>, <<"pinOn">>}
    BY <1>6 DEF Method, send, enterServiceMode, leaveServiceMode, stopServiceModeRepeats,
         setRailComGapInAux, setAuxActiveLevel, StopOutputSignal, RunOutputSignal,
         setDccSignalInverted, Call
  <2>3. doing' \notin RestartSteps
    BY <2>2, OtherSteps DEF LeaveSteps
  <2> QED
    BY <1>3, <2>1, <2>3
<1>7. CASE UNCHANGED vars
  <2>1. UNCHANGED <<notified, rmt, doing>>
    BY <1>7 DEF vars, device
  <2> QED
    BY <1>3, <2>1
<1> QED
  BY <1>1, <1>2, <1>4, <1>5, <1>6, <1>7 DEF Next

(* Without inverting the signal nothing is ever restarted.                   *)
LEMMA NoRestart ==
  ASSUME TypeOK, QueueKept
  PROVE  ~Restart
BY StepsInTurn DEF TypeOK, QueueKept, Restart, RestartInit, RestartChannel, RestartTransmit,
   RestartAccept, RestartSteps

(* Only the methods that a program avoids switch cutouts on again.           *)
LEMMA StepAuxOK ==
  ASSUME TypeOK, QueueOK, AuxOK, [Next]_vars
  PROVE  AuxOK'
<1> SUFFICES ASSUME Without({"leaveWhileOff", "gapWhileOff", "level", "invert"})' PROVE AuxKept'
  BY DEF AuxOK
<1>0. /\ "leaveWhileOff" \notin uses /\ "gapWhileOff" \notin uses /\ "level" \notin uses
      /\ "invert" \notin uses /\ AuxKept /\ QueueKept
  BY UsesFixed DEF Without, AuxOK, QueueOK
<1> USE <1>0 DEF AuxKept, Stopped
<1>1. ASSUME UNCHANGED <<auxLevel, auxOutputActive, railComActiveOnAux, doing>> PROVE AuxKept'
  BY Zenon, <1>1
<1>2. CASE RmtDone
  BY <1>1, <1>2 DEF RmtDone, aux
<1>3. CASE railComTimerIsr
  <2>1. UNCHANGED <<auxOutputActive, railComActiveOnAux, doing>>
    BY <1>3 DEF railComTimerIsr, CutoutStarts, CutoutEnds, AlarmIgnored, aux
  <2>2. auxLevel' # auxLevel => railComActiveOnAux
    BY <1>3 DEF railComTimerIsr, CutoutStarts, CutoutEnds, AlarmIgnored, aux
  <2> QED
    BY Zenon, <2>1, <2>2
<1>4. CASE rmtTxCompletionTask
  BY <1>1, <1>4 DEF rmtTxCompletionTask, StartUserPacket, StartDefaultPacket, RepeatPacket, Wake,
       aux
<1>5. CASE StopPin
  <2>1. doing = <<"pinOff">> /\ doing' = << >>
    BY <1>5, StepsInTurn DEF StopPin, TypeOK
  <2>2. auxLevel' = "off" /\ railComActiveOnAux' = railComActiveOnAux
    BY <1>5 DEF StopPin
  <2>3. doing' # <<"pinOff">> /\ doing' \notin LeaveSteps
    BY <2>1 DEF LeaveSteps
  <2> QED
    BY Zenon, <2>1, <2>2, <2>3
<1>6. CASE RunPin
  <2>1. doing' = << >>
    BY <1>6, StepsInTurn DEF RunPin, TypeOK
  <2>2. auxOutputActive'
    BY Zenon, <1>6 DEF RunPin
  <2>3. doing' # <<"pinOff">>
    BY <2>1
  <2> QED
    BY Zenon, <2>2, <2>3
<1>7. CASE EnterReset \/ LeaveCancel \/ LeaveInactive \/ LeaveIdle
  <2>1. UNCHANGED <<auxLevel, auxOutputActive, railComActiveOnAux>>
    BY <1>7 DEF EnterReset, LeaveCancel, LeaveInactive, LeaveIdle, aux
  <2>2. /\ doing # <<"pinOn">> /\ doing' # <<"pinOff">>
        /\ doing' \in LeaveSteps => doing \in LeaveSteps
    BY <1>7, StepsInTurn
    DEF EnterReset, LeaveCancel, LeaveInactive, LeaveIdle, TypeOK, LeaveSteps
  <2> QED
    BY Zenon, <2>1, <2>2
<1>8. CASE StopOutputSignal
  <2>1. doing = << >> /\ doing' = <<"pinOff">> /\ doing' \notin LeaveSteps
    BY <1>8 DEF StopOutputSignal, Call, LeaveSteps
  <2>2. auxOutputActive' /\ ~railComActiveOnAux'
    BY Zenon, <1>8 DEF StopOutputSignal
  <2> QED
    BY Zenon, <2>1, <2>2
<1>9. CASE RunOutputSignal
  <2>1. doing' = <<"pinOn">>
    BY <1>9 DEF RunOutputSignal, Call
  <2>2. doing' # <<"pinOff">> /\ doing' \notin LeaveSteps
    BY <2>1 DEF LeaveSteps
  <2> QED
    BY Zenon, <2>1, <2>2
<1>10. CASE leaveServiceMode
  <2>1. auxOutputActive' /\ doing' = <<"cancel", "inactive", "idle">>
    BY Zenon, <1>10 DEF leaveServiceMode, Call
  <2>2. doing' # <<"pinOff">>
    BY <2>1
  <2> QED
    BY Zenon, <2>1, <2>2
<1>11. ASSUME NEW useForRcCutout \in BOOLEAN, setRailComGapInAux(useForRcCutout)
       PROVE  AuxKept'
  <2>1. auxOutputActive' /\ doing' = << >>
    BY Zenon, <1>11 DEF setRailComGapInAux, Call
  <2>2. doing' # <<"pinOff">> /\ doing' \notin LeaveSteps
    BY <2>1 DEF LeaveSteps
  <2> QED
    BY Zenon, <2>1, <2>2
<1>12. ASSUME \/ \E p \in Packet : send(p)
              \/ enterServiceMode \/ stopServiceModeRepeats
       PROVE  AuxKept'
  <2>1. UNCHANGED <<auxLevel, auxOutputActive, railComActiveOnAux>>
    BY <1>12 DEF send, enterServiceMode, stopServiceModeRepeats, aux
  <2>2. doing = << >> /\ doing' \in {<< >>, <<"reset">>}
    BY <1>12 DEF send, enterServiceMode, stopServiceModeRepeats, Call
  <2>3. doing # <<"pinOn">> /\ doing' # <<"pinOff">> /\ doing' \notin LeaveSteps
    BY <2>2 DEF LeaveSteps
  <2> QED
    BY Zenon, <2>1, <2>3
<1>13. CASE UNCHANGED vars
  BY <1>1, <1>13 DEF vars, device, aux
<1> QED
  BY <1>2, <1>3, <1>4, <1>5, <1>6, <1>7, <1>8, <1>9, <1>10, <1>11, <1>12, <1>13, NoRestart
  DEF Next, Method, Continue, setDccSignalInverted, setAuxActiveLevel

(* userPacket is taken once, and a Service Mode packet ends its repeats      *)
(* before the mode is left.                                                  *)
LEMMA StepPacketsKept ==
  ASSUME TypeOK, RepeatsHeld, QueueKept, PacketsKept, ModeKept, [Next]_vars,
         "stopRepeats" \notin uses, "leaveEarly" \notin uses, "invert" \notin uses
  PROVE  PacketsKept'
<1> USE DEF PacketsKept, TypeOK
<1>1. ASSUME NEW p, callRmtTransmit(p) PROVE rmtPingPongBuf'[currentBufferIndex'] = p
  BY <1>1 DEF callRmtTransmit
<1>2. CASE StartUserPacket
  <2>1. UNCHANGED <<smActive, isServiceModePacket>>
    BY <1>2 DEF StartUserPacket, Wake
  <2>2. smRepeatsRemaining = 0
    BY <1>2 DEF StartUserPacket, isServiceModeRepeating
  <2>3. rmtPingPongBuf'[currentBufferIndex'] = userPacket[1]
    BY <1>1, <1>2 DEF StartUserPacket
  <2>4. CASE isServiceModePacket
    BY <1>2, <2>1, <2>2, <2>3, <2>4 DEF StartUserPacket
  <2>5. CASE ~isServiceModePacket
    BY <1>2, <2>1, <2>2, <2>5 DEF StartUserPacket
  <2> QED
    BY <2>4, <2>5
<1>3. CASE StartDefaultPacket
  BY <1>3 DEF StartDefaultPacket, Wake, RepeatsHeld
<1>4. CASE RepeatPacket
  <2>1. rmtPingPongBuf'[currentBufferIndex'] = userPacket[1]
    BY <1>1, <1>4 DEF RepeatPacket
  <2>2. UNCHANGED <<smActive, isServiceModePacket>>
    BY <1>4 DEF RepeatPacket, Wake
  <2> QED
    BY <1>4, <2>1, <2>2 DEF RepeatPacket, isServiceModeRepeating
<1>5. CASE RmtDone \/ railComTimerIsr
  BY <1>5 DEF RmtDone, railComTimerIsr, CutoutStarts, CutoutEnds, AlarmIgnored, sm, rmt
<1>6. ASSUME NEW p \in Packet, send(p) PROVE PacketsKept'
  <2>1. isServiceModePacket' <=> smActive /\ p \in ServicePacket
    BY Zenon, <1>6 DEF send
  <2>2. ~canAcceptPacket'
    BY Zenon, <1>6 DEF send
  <2> QED
    BY <1>6, <2>1, <2>2 DEF send, rmt, RepeatsHeld
<1>7. CASE enterServiceMode
  BY <1>7 DEF enterServiceMode, rmt
<1>8. ASSUME \/ leaveServiceMode \/ StopOutputSignal \/ RunOutputSignal
             \/ \E useForRcCutout \in BOOLEAN : setRailComGapInAux(useForRcCutout)
             \/ setAuxActiveLevel \/ StopPin \/ RunPin
      PROVE  PacketsKept'
  BY <1>8 DEF leaveServiceMode, StopOutputSignal, RunOutputSignal, setRailComGapInAux,
       setAuxActiveLevel, StopPin, RunPin, sm, rmt
<1>9. CASE EnterReset \/ LeaveIdle
  BY <1>9 DEF EnterReset, LeaveIdle, rmt
<1>10. CASE LeaveCancel \/ LeaveInactive
  <2>1. canAcceptPacket
    BY <1>10, StepsInTurn DEF LeaveCancel, LeaveInactive, ModeKept, LeaveSteps
  <2>2. smRepeatsRemaining = 0
    BY <2>1 DEF RepeatsHeld
  <2>3. smRepeatsRemaining' = 0 /\ UNCHANGED <<canAcceptPacket, userPacket>>
    BY <1>10, <2>2 DEF LeaveCancel, LeaveInactive
  <2> QED
    BY <2>1, <2>3
<1>11. CASE UNCHANGED vars
  BY <1>11 DEF vars, device, sm, rmt
<1> QED
  BY <1>2, <1>3, <1>4, <1>5, <1>6, <1>7, <1>8, <1>9, <1>10, <1>11, NoRestart
  DEF Next, rmtTxCompletionTask, Method, Continue, setDccSignalInverted, stopServiceModeRepeats

LEMMA StepModeKept ==
  ASSUME TypeOK, QueueKept, PacketsKept, ModeKept, [Next]_vars,
         "leaveEarly" \notin uses, "invert" \notin uses
  PROVE  ModeKept'
<1> USE DEF TypeOK
<1>1. CASE ~Method /\ ~Continue
  <2>1. UNCHANGED <<smActive, defaultPacket, doing>>
    BY <1>1 DEF Next, RmtDone, railComTimerIsr, CutoutStarts, CutoutEnds, AlarmIgnored,
         rmtTxCompletionTask, StartUserPacket, StartDefaultPacket, RepeatPacket, Wake, vars,
         device, sm
  <2>2. canAcceptPacket => canAcceptPacket'
    BY <1>1 DEF Next, RmtDone, railComTimerIsr, CutoutStarts, CutoutEnds, AlarmIgnored,
         rmtTxCompletionTask, StartUserPacket, StartDefaultPacket, RepeatPacket, vars, device
  <2> QED
    BY Zenon, <2>1, <2>2 DEF ModeKept
<1>2. ASSUME \/ \E p \in Packet : send(p) 
             \/ stopServiceModeRepeats \/ setAuxActiveLevel
             \/ \E useForRcCutout \in BOOLEAN : setRailComGapInAux(useForRcCutout)
             \/ StopOutputSignal \/ RunOutputSignal \/ StopPin \/ RunPin
      PROVE  ModeKept'
  <2>1. UNCHANGED <<smActive, defaultPacket>>
    BY <1>2 DEF send, stopServiceModeRepeats, setAuxActiveLevel, setRailComGapInAux,
         StopOutputSignal, RunOutputSignal, StopPin, RunPin, sm
  <2>2. doing \in {<< >>, <<"pinOff">>, <<"pinOn">>} /\ doing' \in {<< >>, <<"pinOff">>, <<"pinOn">>}
    BY <1>2, StepsInTurn DEF send, stopServiceModeRepeats, setAuxActiveLevel,
         setRailComGapInAux, StopOutputSignal, RunOutputSignal, StopPin, RunPin, Call
  <2> QED
    BY <2>1, <2>2 DEF ModeKept, LeaveSteps
<1>3. CASE enterServiceMode
  <2>1. doing' = <<"reset">> /\ smActive'
    BY <1>3 DEF enterServiceMode, Call
  <2> QED
    BY <2>1 DEF ModeKept, LeaveSteps
<1>4. CASE EnterReset
  <2>1. doing = <<"reset">> /\ doing' = << >>
    BY <1>4, StepsInTurn DEF EnterReset
  <2>2. smActive' = smActive /\ defaultPacket' = Reset
    BY <1>4 DEF EnterReset
  <2> QED
    BY <2>1, <2>2 DEF ModeKept, LeaveSteps
<1>5. CASE leaveServiceMode
  <2>1. doing = << >> /\ doing' = <<"cancel", "inactive", "idle">> /\ canAcceptPacket
    BY <1>5 DEF leaveServiceMode, Call
  <2>2. UNCHANGED <<smActive, defaultPacket, canAcceptPacket>>
    BY <1>5 DEF leaveServiceMode, sm
  <2> QED
    BY <2>1, <2>2 DEF ModeKept, LeaveSteps
<1>6. CASE LeaveCancel
  <2>1. doing \in LeaveSteps /\ doing # <<"idle">> /\ doing' = <<"inactive", "idle">>
    BY <1>6, StepsInTurn DEF LeaveCancel, Step, LeaveSteps
  <2>2. UNCHANGED <<smActive, defaultPacket, canAcceptPacket>>
    BY <1>6 DEF LeaveCancel
  <2> QED
    BY <2>1, <2>2 DEF ModeKept, LeaveSteps
<1>7. CASE LeaveInactive
  <2>1. doing = <<"inactive", "idle">> /\ doing' = <<"idle">>
    BY <1>7, StepsInTurn DEF LeaveInactive
  <2>2. canAcceptPacket
    BY <2>1 DEF ModeKept, LeaveSteps
  <2>3. ~smActive' /\ canAcceptPacket' = canAcceptPacket
    BY Zenon, <1>7 DEF LeaveInactive
  <2>4. doing' \in {<<"idle">>} /\ doing' # <<"reset">>
    BY <2>1
  <2> QED
    BY Zenon, <2>1, <2>2, <2>3, <2>4 DEF ModeKept
<1>8. CASE LeaveIdle
  <2>1. doing = <<"idle">> /\ doing' = << >> /\ ~smActive
    BY <1>8, StepsInTurn DEF LeaveIdle, ModeKept
  <2>2. smActive' = smActive /\ defaultPacket' = Idle
    BY <1>8 DEF LeaveIdle
  <2> QED
    BY <2>1, <2>2, DefaultsAssumption DEF ModeKept, LeaveSteps
<1> QED
  BY <1>1, <1>2, <1>3, <1>4, <1>5, <1>6, <1>7, <1>8, NoRestart
  DEF Method, Continue, setDccSignalInverted

LEMMA StepPacketsOK ==
  ASSUME TypeOK, RepeatsHeld, QueueOK, PacketsOK, [Next]_vars
  PROVE  PacketsOK'
BY UsesFixed, StepPacketsKept, StepModeKept DEF PacketsOK, QueueOK, Without

-----------------------------------------------------------------------------
LEMMA InitIInv == Init => IInv
<1> SUFFICES ASSUME Init PROVE IInv
  OBVIOUS
<1>1. TypeOK
  BY InitTypeOK
<1>2. RepeatsHeld
  BY DEF Init, RepeatsHeld, FreedSteps
<1>3. QueueOK
  BY DEF Init, QueueOK, QueueKept, RestartSteps, FreedSteps
<1>4. AuxOK
  <2>1. "gapWhileOff" \notin uses => ~railComActiveOnAux
    BY DEF Init
  <2>2. auxLevel = "off" /\ doing # <<"pinOff">> /\ doing \notin LeaveSteps
    BY DEF Init, LeaveSteps
  <2> QED
    BY Zenon, <2>1, <2>2 DEF AuxOK, AuxKept, Without
<1>5. PacketsOK
  BY DefaultsAssumption DEF Init, PacketsOK, PacketsKept, ModeKept, LeaveSteps
<1> QED
  BY <1>1, <1>2, <1>3, <1>4, <1>5 DEF IInv

LEMMA StepIInv == IInv /\ [Next]_vars => IInv'
<1> SUFFICES ASSUME IInv, [Next]_vars PROVE IInv'
  OBVIOUS
<1>1. Flags /\ Data
  BY DEF IInv, TypeOK, Flags, Data
<1>2. TypeOK'
  BY <1>1, StepFlags, StepData DEF IInv, TypeOK, Flags, Data
<1> QED
  BY <1>2, StepRepeatsHeld, StepQueueOK, StepAuxOK, StepPacketsOK DEF IInv

LEMMA SpecIInv == Spec => []IInv
  BY InitIInv, StepIInv, PTL DEF Spec

(* Every variable keeps its type.                                            *)
THEOREM EngineTypeOK == Spec => []TypeOK
  BY SpecIInv, PTL DEF IInv

(* rmt_transmit() finds the channel that setDccSignalInverted() takes away   *)
(* for a while: a program that does not call it is never aborted.            *)
THEOREM TransmitNeverAborts == Spec => []NeverAborts
<1>1. IInv => NeverAborts
  BY DEF IInv, QueueOK, QueueKept, NeverAborts, Without
<1> QED
  BY <1>1, SpecIInv, PTL

(* StopOutputSignal() keeps the H-bridge off, whatever the RailCom timer is  *)
(* about to do, for every program that changes the gap and leaves Service    *)
(* Mode while the output runs.                                               *)
THEOREM StoppedOutputStaysOff == Spec => []OffMeansOff
<1>1. IInv => OffMeansOff
  BY DEF IInv, AuxOK, AuxKept, OffMeansOff
<1> QED
  BY <1>1, SpecIInv, PTL

(* The task writes no buffer that the RMT has yet to read, even when packets *)
(* end before it was run.                                                    *)
THEOREM WrittenBufferIsFree == Spec => BufferFree
<1>1. IInv /\ [Next]_vars =>
        [Without({"invert"}) =>
           \A i \in 0..1 : rmtPingPongBuf'[i] # rmtPingPongBuf[i] => i \notin Range(rmtQueue)]_vars
  <2> SUFFICES ASSUME IInv, Next, Without({"invert"}),
                      NEW i \in 0..1, rmtPingPongBuf'[i] # rmtPingPongBuf[i]
               PROVE  i \notin Range(rmtQueue)
    OBVIOUS
  <2>1. QueueKept /\ TypeOK /\ "invert" \notin uses
    BY DEF IInv, QueueOK, Without
  <2>2. CASE rmtTxCompletionTask
    <3>1. notified /\ \E p : callRmtTransmit(p)
      BY <2>2 DEF rmtTxCompletionTask, StartUserPacket, StartDefaultPacket, RepeatPacket, Wake
    <3>2. i = 1 - currentBufferIndex
      BY <2>1, <3>1 DEF callRmtTransmit, TypeOK
    <3>3. rmtQueue = << >> \/ rmtQueue = <<currentBufferIndex>>
      BY <2>1, <3>1 DEF QueueKept
    <3> QED
      BY <2>1, <3>2, <3>3 DEF Range, TypeOK
  <2>3. CASE RmtDone \/ railComTimerIsr
    BY <2>3 DEF RmtDone, railComTimerIsr, CutoutStarts, CutoutEnds, AlarmIgnored, rmt
  <2>4. CASE Continue
    BY <2>1, <2>4, NoRestart DEF Continue, EnterReset, LeaveCancel, LeaveInactive, LeaveIdle,
         StopPin, RunPin, rmt
  <2>5. CASE Method
    BY <2>1, <2>5 DEF Method, send, enterServiceMode, leaveServiceMode, stopServiceModeRepeats,
         setRailComGapInAux, setAuxActiveLevel, StopOutputSignal, RunOutputSignal,
         setDccSignalInverted, rmt
  <2> QED
    BY <2>2, <2>3, <2>4, <2>5 DEF Next
<1> QED
  BY <1>1, SpecIInv, PTL DEF Spec, BufferFree

(* When the task runs before the next packet ends, it leaves both buffers    *)
(* queued: the rails never wait for it.                                      *)
THEOREM TaskQueuesBoth == Spec => BothQueued
<1>1. IInv /\ IInv' /\ [Next]_vars =>
        [Without({"lateTask", "invert"}) /\ notified /\ ~notified' => Len(rmtQueue') = 2]_vars
  <2> SUFFICES ASSUME IInv', [Next]_vars, Without({"lateTask", "invert"}), ~notified'
               PROVE  Len(rmtQueue') = 2
    OBVIOUS
  <2>1. QueueKept' /\ "lateTask" \notin uses'
    BY UsesFixed DEF IInv, QueueOK, Without
  <2>2. rmtQueue' = <<1 - currentBufferIndex', currentBufferIndex'>>
    BY <2>1 DEF QueueKept
  <2> QED
    BY <2>2
<1> QED
  BY <1>1, SpecIInv, PTL DEF Spec, BothQueued

-----------------------------------------------------------------------------
(* The packets queued for the RMT implement the engine of PacketEngineSpec.  *)
pending == IF waiting THEN userPacket ELSE << >>
asService == waiting /\ isServiceModePacket
onAir == rmtPingPongBuf[currentBufferIndex]

service == defaultPacket = Reset

EngineState == <<pending, asService, onAir, smRepeatsRemaining, service>>

LEMMA InitIsEngineInit == Init => Engine!Init
  BY DefaultsAssumption DEF Init, Engine!Init, waiting

(* The task starts the packet that waits or the default one, or repeats.     *)
LEMMA TaskIsEngineStep ==
  ASSUME IInv, PacketsKept, QueueKept, rmtTxCompletionTask
  PROVE  Engine!StartNew \/ Engine!StartDefault \/ Engine!Repeat
<1> USE DEF IInv, TypeOK, PacketsKept
<1>1. ASSUME NEW p, callRmtTransmit(p) PROVE onAir' = p
  BY <1>1 DEF callRmtTransmit, onAir
<1>2. UNCHANGED <<smActive, isServiceModePacket, service>>
  BY DEF rmtTxCompletionTask, StartUserPacket, StartDefaultPacket, RepeatPacket, Wake, service
<1>3. CASE StartUserPacket
  <2>1. smRepeatsRemaining = 0
    BY <1>3 DEF StartUserPacket, isServiceModeRepeating
  <2>2. waiting /\ pending = userPacket /\ (asService <=> isServiceModePacket)
    BY <1>3, <2>1 DEF StartUserPacket, waiting, pending, asService
  <2>3. pending # << >> /\ onAir' = Head(pending)
    BY <1>1, <1>3, <2>2 DEF StartUserPacket
  <2>4. smRepeatsRemaining' = IF asService THEN SM_REPEATS ELSE 0
    BY <1>3, <2>1, <2>2 DEF StartUserPacket
  <2>5. ~waiting'
    <3>1. CASE isServiceModePacket
      BY <2>2, <2>4, <3>1, RepeatsAssumption DEF waiting
    <3>2. CASE ~isServiceModePacket
      BY <1>3, <3>2 DEF StartUserPacket, waiting
    <3> QED
      BY <3>1, <3>2
  <2>6. pending' = << >>
    BY <2>5 DEF pending
  <2>7. asService' = FALSE
    BY Zenon, <2>5 DEF asService
  <2> QED
    BY <1>2, <2>1, <2>3, <2>4, <2>6, <2>7 DEF Engine!StartNew, pending, asService, onAir, service
<1>4. CASE StartDefaultPacket
  <2>1. smRepeatsRemaining = 0 /\ ~waiting /\ ~waiting'
    BY <1>4 DEF StartDefaultPacket, RepeatsHeld, waiting
  <2>2. pending = << >> /\ pending' = << >>
    BY <2>1 DEF pending
  <2>3. asService' = asService
    BY Zenon, <2>1 DEF asService
  <2>4. onAir' = IF service THEN Reset ELSE Idle
    BY <1>1, <1>4 DEF StartDefaultPacket, service
  <2>5. smRepeatsRemaining' = smRepeatsRemaining
    BY <1>4 DEF StartDefaultPacket
  <2> QED
    BY <1>2, <2>1, <2>2, <2>3, <2>4, <2>5 DEF Engine!StartDefault, pending, asService, onAir, service
<1>5. CASE RepeatPacket
  <2>1. smRepeatsRemaining > 0 /\ smRepeatsRemaining' = smRepeatsRemaining - 1
    BY <1>5 DEF RepeatPacket, isServiceModeRepeating
  <2>2. ~waiting /\ ~waiting'
    BY <1>5, <2>1 DEF RepeatPacket, waiting
  <2>3. pending' = pending
    BY <2>2 DEF pending
  <2>4. asService' = asService
    BY Zenon, <2>2 DEF asService
  <2>5. onAir' = onAir
    BY <1>1, <1>5, <2>1 DEF RepeatPacket, onAir
  <2> QED
    BY <1>2, <2>1, <2>3, <2>4, <2>5 DEF Engine!Repeat, pending, asService, onAir, service
<1> QED
  BY <1>3, <1>4, <1>5 DEF rmtTxCompletionTask

(* The mode of the engine changes with the default packet.                   *)
LEMMA MethodIsEngineStep ==
  ASSUME IInv, PacketsKept, QueueKept, ModeKept, Method \/ Continue,
         Without({"stopRepeats", "leaveEarly", "invert"})
  PROVE  \/ \E p \in Packet : Engine!Send(p)
         \/ Engine!Enter \/ Engine!Leave \/ UNCHANGED EngineState
<1> USE DEF IInv, TypeOK, PacketsKept, RepeatsHeld
<1>0. "stopRepeats" \notin uses /\ "leaveEarly" \notin uses /\ "invert" \notin uses
  BY DEF Without
<1>1. ASSUME NEW p \in Packet, send(p) PROVE Engine!Send(p)
  <2>1. smRepeatsRemaining = 0 /\ smRepeatsRemaining' = 0 /\ ~waiting /\ waiting'
    BY <1>1 DEF send, waiting
  <2>2. doing \notin {<<"reset">>, <<"idle">>}
    BY <1>1 DEF send, Call
  <2>3. smActive <=> service
    BY <2>2 DEF ModeKept, service
  <2>4. asService' = (service /\ p \in ServicePacket)
    BY Zenon, <1>1, <2>1, <2>3 DEF send, asService
  <2>5. pending = << >> /\ pending' = <<p>> /\ onAir' = onAir /\ service' = service
    BY <1>1, <2>1 DEF send, pending, onAir, rmt, service
  <2> QED
    BY <2>1, <2>4, <2>5 DEF Engine!Send, pending, asService, onAir, service
<1>2. ASSUME UNCHANGED <<userPacket, isServiceModePacket, smRepeatsRemaining, rmt>>
      PROVE  UNCHANGED <<pending, asService, onAir, smRepeatsRemaining>>
  BY <1>2 DEF rmt, pending, asService, onAir, waiting
<1>3. CASE EnterReset
  <2>1. service'
    BY <1>3 DEF EnterReset, service
  <2> QED
    BY Zenon, <1>2, <1>3, <2>1 DEF EnterReset, Engine!Enter, pending, asService, onAir, service
<1>4. CASE LeaveIdle
  <2>1. canAcceptPacket
    BY <1>4, StepsInTurn DEF LeaveIdle, ModeKept, LeaveSteps
  <2>2. smRepeatsRemaining = 0
    BY <2>1
  <2>3. ~service'
    BY <1>4, DefaultsAssumption DEF LeaveIdle, service
  <2>4. UNCHANGED <<userPacket, isServiceModePacket, smRepeatsRemaining, rmt>>
    BY <1>4 DEF LeaveIdle
  <2>5. service' = FALSE
    BY Zenon, <2>3 DEF service
  <2> QED
    BY <1>2, <2>2, <2>4, <2>5 DEF Engine!Leave, pending, asService, onAir, service
<1>5. CASE LeaveCancel
  <2>1. canAcceptPacket
    BY <1>5, StepsInTurn DEF LeaveCancel, ModeKept
  <2>2. smRepeatsRemaining = 0
    BY <2>1
  <2> QED
    BY <1>2, <1>5, <2>2 DEF LeaveCancel, EngineState, service
<1>6. ASSUME \/ enterServiceMode \/ leaveServiceMode \/ setAuxActiveLevel
             \/ \E useForRcCutout \in BOOLEAN : setRailComGapInAux(useForRcCutout)
             \/ StopOutputSignal \/ RunOutputSignal \/ LeaveInactive \/ StopPin \/ RunPin
      PROVE  UNCHANGED EngineState
  BY <1>2, <1>6 DEF enterServiceMode, leaveServiceMode, setAuxActiveLevel, setRailComGapInAux,
       StopOutputSignal, RunOutputSignal, LeaveInactive, StopPin, RunPin, sm, EngineState,
       service
<1> QED
  BY <1>0, <1>1, <1>3, <1>4, <1>5, <1>6, NoRestart
  DEF Method, Continue, stopServiceModeRepeats, setDccSignalInverted

LEMMA StepIsEngineStep ==
  IInv /\ [Next]_vars =>
    [Without({"stopRepeats", "leaveEarly", "invert"}) => Engine!Next]_Engine!vars
<1> SUFFICES ASSUME IInv, [Next]_vars, Without({"stopRepeats", "leaveEarly", "invert"})
             PROVE  Engine!Next \/ UNCHANGED EngineState
  BY DEF Engine!vars, EngineState, pending, asService, onAir, service
<1>1. PacketsKept /\ QueueKept /\ ModeKept
  BY DEF IInv, PacketsOK, QueueOK, Without
<1>2. CASE rmtTxCompletionTask
  BY <1>1, <1>2, TaskIsEngineStep DEF Engine!Next
<1>3. CASE RmtDone \/ railComTimerIsr
  BY <1>3 DEF RmtDone, railComTimerIsr, CutoutStarts, CutoutEnds, AlarmIgnored, sm, rmt,
       EngineState, pending, asService, onAir, service, waiting
<1>4. CASE Method \/ Continue
  BY <1>1, <1>4, MethodIsEngineStep DEF Engine!Next
<1>5. CASE UNCHANGED vars
  BY <1>5 DEF vars, device, sm, rmt, EngineState, pending, asService, onAir, service, waiting
<1> QED
  BY <1>2, <1>3, <1>4, <1>5 DEF Next

(* Packets are queued for the RMT as PacketEngineSpec promises, for every    *)
(* program that lets Service Mode packets end their repeats, leaves the mode *)
(* with no packet waiting and does not invert the signal.                    *)
THEOREM QueuedPacketsImplementEngine == Spec => ImplementsEngine
  BY InitIsEngineInit, StepIsEngineStep, SpecIInv, PTL DEF Spec, ImplementsEngine
=============================================================================
