----------------------- MODULE DCCHardwareRPPicoProofs -----------------------
(***************************************************************************)
(* The RP2040 engines of both modes, for every set of packets and every    *)
(* number of repeats: what the AUX pin does, that send() never writes the  *)
(* buffer on the rails, and that the four buffers bring the packets that   *)
(* PacketEngineSpec promises, wherever the interrupt breaks into a method.  *)
(***************************************************************************)
EXTENDS DCCHardwareRPPico, TLAPS

(* What a method may have yet to do.                                         *)
SendSteps == {<<"fill", "toggle", "ready">>, <<"toggle", "ready">>, <<"ready">>}
DefaultSteps == {<<"idle", "reset">>, <<"reset">>}
AttachSteps == {<<"idle", "reset", "attach">>, <<"reset", "attach">>, <<"attach">>}
StopSteps == {<<"idle", "reset", "attach", "off">>, <<"reset", "attach", "off">>,
              <<"attach", "off">>, <<"off">>}

ModeSteps == {<<"useReset">>, <<"inactive", "useIdle">>, <<"useIdle">>}

DoingOK ==
  doing \in {<< >>} \union SendSteps \union DefaultSteps \union AttachSteps \union StopSteps
           \union ModeSteps

(* While the output is stopped the pin goes to the program, which switches   *)
(* it off; no method on its way gives it to the state machine.               *)
AuxOK ==
  Without({"gapWhileOff", "activeHigh"}) /\ board = "HQ" /\ ~outputActive =>
    /\ doing \notin AttachSteps
    /\ doing \in StopSteps => ~railComActiveOnAux
    /\ doing \notin StopSteps \/ doing = <<"off">> => auxPin = "SIO"
    /\ doing \notin StopSteps => sioLevel = "off"

(* The packet of a send() that has begun.                                    *)
BeingSent == IF doing = <<"fill", "toggle", "ready">> THEN sending
             ELSE IF doing = <<"toggle", "ready">> THEN buffer[sendPacketIndex].packet
             ELSE buffer[Other(sendPacketIndex)].packet

(* Nobody else writes what send() writes.                                    *)
SendingOK ==
  doing \in SendSteps =>
    /\ BeingSent \in Packet
    /\ doing # <<"fill", "toggle", "ready">> =>
         (isServiceModePacket <=> smActive /\ BeingSent \in ServicePacket)

(* The default packet follows smActive one step later.                       *)
ModeOK ==
  /\ doing \in {<<"useReset">>, <<"inactive", "useIdle">>} => smActive
  /\ doing = <<"useIdle">> => ~smActive
  /\ doing \notin ModeSteps => (defaultPacket = "reset" <=> smActive)

(* send() has the buffer sendPacketIndex for itself: what waits, and what the *)
(* interrupt took last, is in the other one.                                 *)
WaitingOK ==
  /\ userPacketReady => doing \notin SendSteps
  /\ sendPacketIndex \in {onAir, isrPacketIndex} => userPacketReady \/ doing = <<"ready">>

(* Only in Service Mode is a packet repeated; nothing waits and nothing is   *)
(* repeated while leaveServiceMode() is on its way.                          *)
RepeatsOK ==
  /\ userPacketReady /\ isServiceModePacket => smActive
  /\ smRepeatsRemaining > 0 => smActive /\ onAir = isrPacketIndex
  /\ doing \in {<<"inactive", "useIdle">>, <<"useIdle">>} =>
       ~userPacketReady /\ smRepeatsRemaining = 0

IInv ==
  /\ TypeOK /\ DoingOK /\ AuxOK /\ SendingOK /\ ModeOK
  /\ Without({"sendEarly"}) => WaitingOK
  /\ Without({"leaveEarly"}) => RepeatsOK

-----------------------------------------------------------------------------
(* The types of the flags, and those of the rest.                            *)
Flags ==
  /\ canAcceptPacket \in BOOLEAN /\ userPacketReady \in BOOLEAN
  /\ smActive \in BOOLEAN /\ isServiceModePacket \in BOOLEAN
  /\ railComAllowedOnDcc \in BOOLEAN
  /\ railComAllowedOnAux \in BOOLEAN /\ railComActiveOnAux \in BOOLEAN
  /\ outputActive \in BOOLEAN
  /\ irq \in BOOLEAN /\ cutout \in BOOLEAN

Filling ==
  [packet : Packets, gap : BOOLEAN, marker : BOOLEAN, signal : BOOLEAN]

Data ==
  /\ board \in Boards /\ uses \in Programs
  /\ buffer \in [Buffer -> Filling]
  /\ sendPacketIndex \in UserBuffer /\ isrPacketIndex \in UserBuffer
  /\ smRepeatsRemaining \in 0..SM_REPEATS
  /\ defaultPacket \in {"idle", "reset"}
  /\ auxPin \in {"PIO", "SIO"} /\ sioLevel \in {"on", "off"}
  /\ sending \in Packets
  /\ onAir \in Buffer

LEMMA FilledType ==
  ASSUME Flags, NEW p \in Packets
  PROVE  Filled(p) \in Filling /\ Filled(p).packet = p
<1>1. (~smActive /\ railComAllowedOnDcc) \in BOOLEAN /\ (board = "HQ" \/ outputActive) \in BOOLEAN
  BY Zenon DEF Flags
<1> QED
  BY <1>1 DEF Filled, Filling, Flags

LEMMA InitTypeOK == Init => TypeOK
<1> SUFFICES ASSUME Init PROVE TypeOK
  OBVIOUS
<1>1. railComAllowedOnAux \in BOOLEAN
  <2>1. (IF "gapWhileOff" \in uses /\ board = "HQ" THEN RailComOnAux ELSE {FALSE}) \subseteq BOOLEAN
    BY RailComAssumption
  <2> QED
    BY Zenon, <2>1 DEF Init
<1>2. railComAllowedOnDcc \in BOOLEAN
  BY RailComAssumption DEF Init
<1>3. Flags
  BY Zenon, <1>1, <1>2 DEF Init, Flags
<1>4. buffer \in [Buffer -> Filling]
  BY <1>3, FilledType DEF Init, Packets
<1>5. Data
  BY <1>4, RepeatsAssumption DEF Init, Data, Packets, UserBuffer, Buffer
<1> QED
  BY <1>3, <1>5 DEF Flags, Data, TypeOK, Filling

LEMMA StepFlags ==
  ASSUME Flags, buffer \in [Buffer -> Filling], defaultPacket \in Buffer,
         sendPacketIndex \in UserBuffer, isrPacketIndex \in UserBuffer, [Next]_vars
  PROVE  Flags'
<1> USE DEF Flags
<1>1. ASSUME NEW b \in Buffer, transmitNextPacket(b), AcceptUnlessRepeating,
             userPacketReady' = FALSE \/ userPacketReady' = userPacketReady
      PROVE  Flags'
  <2>1. irq' \in BOOLEAN
    <3>1. irq' = (irq \/ buffer[b].marker)
      BY Zenon, <1>1 DEF transmitNextPacket
    <3> DEFINE m == buffer[b].marker
    <3> HIDE DEF m
    <3>2. irq' = (irq \/ m)
      BY Zenon, <3>1 DEF m
    <3> QED
      BY Zenon, <3>2
  <2>2. canAcceptPacket' \in BOOLEAN
    BY Zenon, <1>1 DEF AcceptUnlessRepeating
  <2>3. userPacketReady' \in BOOLEAN
    BY Zenon, <1>1
  <2> QED
    BY Zenon, <1>1, <2>1, <2>2, <2>3 DEF transmitNextPacket, railCom, aux
<1>2. CASE Interrupt
  <2>1. Other(sendPacketIndex) \in Buffer /\ isrPacketIndex \in Buffer
    BY DEF Other, Buffer, UserBuffer
  <2>2. CASE StartUserPacket
    BY Zenon, <1>1, <2>1, <2>2 DEF StartUserPacket
  <2>3. CASE StartDefaultPacket
    BY Zenon, <1>1, <2>3 DEF StartDefaultPacket
  <2>4. CASE RepeatPacket
    BY Zenon, <1>1, <2>1, <2>4 DEF RepeatPacket
  <2> QED
    BY <1>2, <2>2, <2>3, <2>4 DEF Interrupt
<1>3. CASE Continue
  <2>1. CASE SendFill \/ SendToggle \/ SendReady
    BY ZenonT(60), <2>1 DEF SendFill, SendToggle, SendReady, sm, railCom, aux, pio
  <2>4. CASE LeaveInactive \/ UseDefaultPacket
    BY ZenonT(60), <2>4 DEF LeaveInactive, UseDefaultPacket, packets, sm, railCom, aux, pio
  <2>2. CASE PrepareIdlePacket \/ PrepareResetPacket
    BY ZenonT(60), <2>2 DEF PrepareIdlePacket, PrepareResetPacket, sm, railCom, aux, pio
  <2>3. CASE AttachAux \/ WriteOff
    BY ZenonT(60), <2>3 DEF AttachAux, WriteOff, packets, sm, railCom, pio
  <2> QED
    BY <1>3, <2>1, <2>2, <2>3, <2>4 DEF Continue
<1>4. CASE CutoutStarts \/ CutoutEnds
  BY ZenonT(60), <1>4 DEF CutoutStarts, CutoutEnds, packets, sm, railCom, aux
<1>5. CASE Method
  <2>1. ASSUME NEW p \in Packet, SendBegin(p) PROVE Flags'
    BY ZenonT(60), <2>1 DEF SendBegin, sm, railCom, aux, pio
  <2>2. CASE enterServiceMode \/ leaveServiceMode \/ stopServiceModeRepeats \/ setPreambleLength
    BY ZenonT(60), <2>2 DEF enterServiceMode, leaveServiceMode, stopServiceModeRepeats,
         setPreambleLength, packets, sm, railCom, aux, pio
  <2>3. ASSUME NEW active \in RailComOnDcc, setRailCom(active) PROVE Flags'
    <3>1. active \in BOOLEAN
      BY RailComAssumption
    <3> QED
      BY ZenonT(60), <2>3, <3>1 DEF setRailCom, packets, sm, aux, pio
  <2>4. ASSUME NEW active \in RailComOnAux, setRailComGapInAux(active) PROVE Flags'
    <3>1. active \in BOOLEAN
      BY RailComAssumption
    <3> QED
      BY ZenonT(60), <2>4, <3>1 DEF setRailComGapInAux, setRailComActiveOnAux, packets, sm, aux, pio
  <2>5. CASE StopOutputSignal \/ RunOutputSignal \/ SwitchOutputSignal
    BY ZenonT(60), <2>5 DEF StopOutputSignal, RunOutputSignal, SwitchOutputSignal,
         setRailComActiveOnAux, packets, sm, railCom, pio
  <2> QED
    BY <1>5, <2>1, <2>2, <2>3, <2>4, <2>5 DEF Method
<1>6. CASE UNCHANGED vars
  BY Zenon, <1>6 DEF vars, packets, sm, railCom, aux, pio
<1> QED
  BY <1>2, <1>3, <1>4, <1>5, <1>6 DEF Next

LEMMA StepData ==
  ASSUME Data, Flags, [Next]_vars
  PROVE  Data'
<1> USE DEF Data
<1>1. ASSUME NEW b \in Buffer, transmitNextPacket(b)
      PROVE  /\ onAir' \in Buffer
             /\ UNCHANGED <<buffer, sendPacketIndex, defaultPacket, smActive, auxPin, sioLevel,
                            sending>>
  BY <1>1 DEF transmitNextPacket, aux
<1>2. CASE Interrupt
  BY <1>1, <1>2, RepeatsAssumption DEF Interrupt, StartUserPacket, StartDefaultPacket,
       RepeatPacket, isServiceModeRepeating, UserBuffer, Buffer, Other
<1>3. ASSUME NEW b \in Buffer, NEW p \in Packets, buffer' = [buffer EXCEPT ![b] = Filled(p)]
      PROVE  buffer' \in [Buffer -> Filling]
  BY <1>3, FilledType
<1>4. CASE Continue
  <2>1. CASE SendFill
    <3>1. buffer' \in [Buffer -> Filling]
      BY <1>3, <2>1 DEF SendFill, Buffer
    <3> QED
      BY <1>4, <2>1, <3>1 DEF Continue, SendFill, aux, Packets
  <2>2. CASE PrepareIdlePacket \/ PrepareResetPacket
    <3>1. buffer' \in [Buffer -> Filling]
      BY <1>3, <2>2 DEF PrepareIdlePacket, PrepareResetPacket, Buffer, Packets
    <3> QED
      BY <1>4, <2>2, <3>1 DEF Continue, PrepareIdlePacket, PrepareResetPacket, sm, aux
  <2>4. CASE LeaveInactive \/ UseDefaultPacket
    BY <1>4, <2>4 DEF Continue, LeaveInactive, UseDefaultPacket, packets, aux
  <2>3. CASE SendToggle \/ SendReady \/ AttachAux \/ WriteOff
    BY <1>4, <2>3 DEF Continue, SendToggle, SendReady, AttachAux, WriteOff, packets, sm, aux,
         UserBuffer, Other
  <2> QED
    BY <1>4, <2>1, <2>2, <2>3, <2>4 DEF Continue
<1>5. CASE CutoutStarts \/ CutoutEnds
  BY <1>5 DEF CutoutStarts, CutoutEnds, packets, sm, aux
<1>6. CASE Method
  <2>1. ASSUME NEW p \in Packet, SendBegin(p) PROVE Data'
    BY <1>6, <2>1 DEF Method, SendBegin, sm, aux, Packets
  <2>2. CASE enterServiceMode \/ leaveServiceMode \/ stopServiceModeRepeats \/ setPreambleLength
    BY <1>6, <2>2, RepeatsAssumption DEF Method, enterServiceMode, leaveServiceMode,
         stopServiceModeRepeats, setPreambleLength, packets, sm, aux
  <2>3. ASSUME \/ \E active \in RailComOnDcc : setRailCom(active)
               \/ \E active \in RailComOnAux : setRailComGapInAux(active)
        PROVE  Data'
    BY <1>6, <2>3 DEF Method, setRailCom, setRailComGapInAux, packets, sm, aux
  <2>4. CASE StopOutputSignal
    BY <1>6, <2>4 DEF Method, StopOutputSignal, packets, sm
  <2>5. CASE RunOutputSignal
    BY <1>6, <2>5 DEF Method, RunOutputSignal, packets, sm
  <2>6. CASE SwitchOutputSignal
    BY <1>6, <2>6 DEF Method, SwitchOutputSignal, packets, sm
  <2> QED
    BY <1>6, <2>1, <2>2, <2>3, <2>4, <2>5, <2>6 DEF Method
<1>7. CASE UNCHANGED vars
  BY <1>7 DEF vars, packets, sm, aux
<1> QED
  BY <1>2, <1>4, <1>5, <1>6, <1>7 DEF Next

LEMMA StepTypeOK == TypeOK /\ [Next]_vars => TypeOK'
<1> SUFFICES ASSUME TypeOK, [Next]_vars PROVE TypeOK'
  OBVIOUS
<1>1. Flags /\ Data
  BY DEF TypeOK, Flags, Data, Filling
<1>2. defaultPacket \in Buffer
  BY <1>1 DEF Data, Buffer
<1>3. Flags' /\ Data'
  BY <1>1, <1>2, StepFlags, StepData DEF Data
<1> QED
  BY <1>3 DEF TypeOK, Flags, Data, Filling
-----------------------------------------------------------------------------
(* Which step a method can be at, and what it has yet to do after that.      *)
LEMMA StepsInTurn ==
  ASSUME DoingOK
  PROVE
    /\ Step("fill") => doing = <<"fill", "toggle", "ready">> /\ doing' = <<"toggle", "ready">>
    /\ Step("toggle") => doing = <<"toggle", "ready">> /\ doing' = <<"ready">>
    /\ Step("ready") => doing = <<"ready">> /\ doing' = << >>
    /\ Step("idle") =>
         \/ doing = <<"idle", "reset">> /\ doing' = <<"reset">>
         \/ doing = <<"idle", "reset", "attach">> /\ doing' = <<"reset", "attach">>
         \/ doing = <<"idle", "reset", "attach", "off">> /\ doing' = <<"reset", "attach", "off">>
    /\ Step("reset") =>
         \/ doing = <<"reset">> /\ doing' = << >>
         \/ doing = <<"reset", "attach">> /\ doing' = <<"attach">>
         \/ doing = <<"reset", "attach", "off">> /\ doing' = <<"attach", "off">>
    /\ Step("attach") =>
         \/ doing = <<"attach">> /\ doing' = << >>
         \/ doing = <<"attach", "off">> /\ doing' = <<"off">>
    /\ Step("off") => doing = <<"off">> /\ doing' = << >>
    /\ Step("useReset") => doing = <<"useReset">> /\ doing' = << >>
    /\ Step("inactive") => doing = <<"inactive", "useIdle">> /\ doing' = <<"useIdle">>
    /\ Step("useIdle") => doing = <<"useIdle">> /\ doing' = << >>
<1>1. /\ Head(<<"fill", "toggle", "ready">>) = "fill"
      /\ Tail(<<"fill", "toggle", "ready">>) = <<"toggle", "ready">>
  OBVIOUS
<1>2. Head(<<"toggle", "ready">>) = "toggle" /\ Tail(<<"toggle", "ready">>) = <<"ready">>
  OBVIOUS
<1>3. Head(<<"ready">>) = "ready" /\ Tail(<<"ready">>) = << >>
  OBVIOUS
<1>4. Head(<<"idle", "reset">>) = "idle" /\ Tail(<<"idle", "reset">>) = <<"reset">>
  OBVIOUS
<1>5. Head(<<"reset">>) = "reset" /\ Tail(<<"reset">>) = << >>
  OBVIOUS
<1>6. /\ Head(<<"idle", "reset", "attach">>) = "idle"
      /\ Tail(<<"idle", "reset", "attach">>) = <<"reset", "attach">>
  OBVIOUS
<1>7. Head(<<"reset", "attach">>) = "reset" /\ Tail(<<"reset", "attach">>) = <<"attach">>
  OBVIOUS
<1>8. Head(<<"attach">>) = "attach" /\ Tail(<<"attach">>) = << >>
  OBVIOUS
<1>9. /\ Head(<<"idle", "reset", "attach", "off">>) = "idle"
      /\ Tail(<<"idle", "reset", "attach", "off">>) = <<"reset", "attach", "off">>
  OBVIOUS
<1>10. /\ Head(<<"reset", "attach", "off">>) = "reset"
       /\ Tail(<<"reset", "attach", "off">>) = <<"attach", "off">>
  OBVIOUS
<1>11. Head(<<"attach", "off">>) = "attach" /\ Tail(<<"attach", "off">>) = <<"off">>
  OBVIOUS
<1>12. Head(<<"off">>) = "off" /\ Tail(<<"off">>) = << >>
  OBVIOUS
<1>13. Head(<<"useReset">>) = "useReset" /\ Tail(<<"useReset">>) = << >>
  OBVIOUS
<1>14. /\ Head(<<"inactive", "useIdle">>) = "inactive"
       /\ Tail(<<"inactive", "useIdle">>) = <<"useIdle">>
  OBVIOUS
<1>15. Head(<<"useIdle">>) = "useIdle" /\ Tail(<<"useIdle">>) = << >>
  OBVIOUS
<1> QED
  BY <1>1, <1>2, <1>3, <1>4, <1>5, <1>6, <1>7, <1>8, <1>9, <1>10, <1>11, <1>12, <1>13, <1>14,
     <1>15
  DEF Step, DoingOK, SendSteps, DefaultSteps, AttachSteps, StopSteps, ModeSteps

LEMMA StepDoingOK ==
  ASSUME DoingOK, [Next]_vars
  PROVE  DoingOK'
<1>1. CASE Interrupt \/ CutoutStarts \/ CutoutEnds \/ UNCHANGED vars
  BY <1>1 DEF Interrupt, StartUserPacket, StartDefaultPacket, RepeatPacket, transmitNextPacket,
       CutoutStarts, CutoutEnds, vars, DoingOK
<1>2. CASE Method
  BY <1>2 DEF Method, SendBegin, enterServiceMode, leaveServiceMode, stopServiceModeRepeats,
       setRailCom, setPreambleLength, setRailComGapInAux, setRailComActiveOnAux,
       StopOutputSignal, RunOutputSignal, SwitchOutputSignal, Call, Defaults, DefaultsAndPin,
       DoingOK, SendSteps, DefaultSteps, AttachSteps, StopSteps, ModeSteps
<1>3. CASE Continue
  BY <1>3, StepsInTurn DEF Continue, SendFill, SendToggle, SendReady, PrepareIdlePacket,
       PrepareResetPacket, AttachAux, WriteOff, LeaveInactive, UseDefaultPacket, DoingOK,
       SendSteps, DefaultSteps, AttachSteps, StopSteps, ModeSteps
<1> QED
  BY <1>1, <1>2, <1>3 DEF Next

(* StopOutputSignal() detaches the state machine before it switches off, and *)
(* while the output is stopped nothing attaches it again.                    *)
LEMMA StepAuxOK ==
  ASSUME TypeOK, DoingOK, AuxOK, [Next]_vars
  PROVE  AuxOK'
<1> SUFFICES ASSUME Without({"gapWhileOff", "activeHigh"})', board' = "HQ", ~outputActive'
             PROVE  /\ doing' \notin AttachSteps
                    /\ doing' \in StopSteps => ~railComActiveOnAux'
                    /\ doing' \notin StopSteps \/ doing' = <<"off">> => auxPin' = "SIO"
                    /\ doing' \notin StopSteps => sioLevel' = "off"
  BY DEF AuxOK, AttachSteps, StopSteps
<1>1. board = "HQ" /\ Without({"gapWhileOff", "activeHigh"})
  BY DEF Without, Next, vars, Interrupt, Method, Continue, CutoutStarts, CutoutEnds
<1>2. ~outputActive =>
        /\ doing \notin AttachSteps
        /\ doing \in StopSteps => ~railComActiveOnAux
        /\ doing \notin StopSteps \/ doing = <<"off">> => auxPin = "SIO"
        /\ doing \notin StopSteps => sioLevel = "off"
  BY <1>1 DEF AuxOK
<1> USE DEF DefaultSteps, AttachSteps, StopSteps
<1>3. CASE Interrupt \/ CutoutStarts \/ CutoutEnds \/ UNCHANGED vars
  BY <1>2, <1>3 DEF Interrupt, StartUserPacket, StartDefaultPacket, RepeatPacket,
       transmitNextPacket, CutoutStarts, CutoutEnds, vars, railCom, aux
<1>4. CASE SendFill \/ SendToggle \/ SendReady
  BY <1>2, <1>4, StepsInTurn DEF SendFill, SendToggle, SendReady, railCom, aux
<1>13. CASE LeaveInactive \/ UseDefaultPacket
  BY <1>2, <1>13, StepsInTurn DEF LeaveInactive, UseDefaultPacket, railCom, aux
<1>5. CASE PrepareIdlePacket \/ PrepareResetPacket
  BY <1>2, <1>5, StepsInTurn DEF PrepareIdlePacket, PrepareResetPacket, railCom, aux
<1>6. CASE AttachAux \/ WriteOff
  BY <1>2, <1>6, StepsInTurn DEF AttachAux, WriteOff, railCom
<1>7. ASSUME NEW p \in Packet, SendBegin(p)
      PROVE  doing' \notin AttachSteps \union StopSteps /\ auxPin' = "SIO" /\ sioLevel' = "off"
  BY <1>2, <1>7 DEF SendBegin, Call, railCom, aux
<1>8. CASE enterServiceMode \/ leaveServiceMode \/ stopServiceModeRepeats
  <2>1. doing = << >> /\ doing' \in {<< >>, <<"useReset">>, <<"inactive", "useIdle">>}
    BY <1>8 DEF enterServiceMode, leaveServiceMode, stopServiceModeRepeats, Call
  <2>2. doing \notin StopSteps /\ doing' \notin AttachSteps \union StopSteps
    BY <2>1
  <2>3. outputActive' = outputActive /\ auxPin' = auxPin /\ sioLevel' = sioLevel
    BY <1>8 DEF enterServiceMode, leaveServiceMode, stopServiceModeRepeats, aux
  <2>4. ~outputActive
    BY Zenon, <2>3
  <2>5. auxPin = "SIO" /\ sioLevel = "off"
    BY <1>2, <2>2, <2>4
  <2> QED
    BY <2>2, <2>3, <2>5
<1>9. ASSUME setPreambleLength \/ \E active \in RailComOnDcc : setRailCom(active)
      PROVE  doing' \notin AttachSteps \union StopSteps /\ auxPin' = "SIO" /\ sioLevel' = "off"
  <2>1. doing = << >> /\ doing' = <<"idle", "reset">>
    BY <1>9 DEF setPreambleLength, setRailCom, Call, Defaults
  <2>2. doing \notin StopSteps /\ doing' \notin AttachSteps \union StopSteps
    BY <2>1
  <2>3. outputActive' = outputActive /\ auxPin' = auxPin /\ sioLevel' = sioLevel
    BY <1>9 DEF setPreambleLength, setRailCom, aux
  <2>4. ~outputActive
    BY Zenon, <2>3
  <2>5. auxPin = "SIO" /\ sioLevel = "off"
    BY <1>2, <2>2, <2>4
  <2> QED
    BY <2>2, <2>3, <2>5
<1>10. ASSUME NEW active \in RailComOnAux, setRailComGapInAux(active)
       PROVE  FALSE
  BY <1>1, <1>10 DEF setRailComGapInAux, aux, Without
<1>11. CASE StopOutputSignal
  <2>1. ~railComActiveOnAux'
    BY Zenon, <1>11 DEF StopOutputSignal, setRailComActiveOnAux
  <2> QED
    BY <1>11, <2>1 DEF StopOutputSignal, setRailComActiveOnAux, Call
<1>12. CASE RunOutputSignal \/ SwitchOutputSignal
  <2>1. CASE RunOutputSignal
    <3>1. outputActive'
      BY Zenon, <2>1 DEF RunOutputSignal
    <3> QED
      BY <3>1
  <2>2. CASE SwitchOutputSignal
    BY <1>1, <2>2 DEF SwitchOutputSignal
  <2> QED
    BY <1>12, <2>1, <2>2
<1> QED
  BY <1>3, <1>4, <1>5, <1>6, <1>7, <1>8, <1>9, <1>10, <1>11, <1>12, <1>13
  DEF Next, Method, Continue

-----------------------------------------------------------------------------
(* Methods and steps that have nothing to do with packets and modes.         *)
OtherMethod ==
  \/ stopServiceModeRepeats \/ setPreambleLength
  \/ \E active \in RailComOnDcc : setRailCom(active)
  \/ \E active \in RailComOnAux : setRailComGapInAux(active)
  \/ StopOutputSignal \/ RunOutputSignal \/ SwitchOutputSignal

OtherStep == PrepareIdlePacket \/ PrepareResetPacket \/ AttachAux \/ WriteOff

LEMMA OtherSteps ==
  ASSUME NEW d \in {<< >>, Defaults, DefaultsAndPin, <<"idle", "reset", "attach", "off">>}
  PROVE  d \notin SendSteps /\ d \notin ModeSteps
<1>1. << >> \notin SendSteps /\ << >> \notin ModeSteps
  BY DEF SendSteps, ModeSteps
<1>2. Defaults \notin SendSteps /\ Defaults \notin ModeSteps
  BY DEF SendSteps, ModeSteps, Defaults
<1>3. DefaultsAndPin \notin SendSteps /\ DefaultsAndPin \notin ModeSteps
  BY DEF SendSteps, ModeSteps, DefaultsAndPin
<1>4. /\ <<"idle", "reset", "attach", "off">> \notin SendSteps
      /\ <<"idle", "reset", "attach", "off">> \notin ModeSteps
  BY DEF SendSteps, ModeSteps
<1> QED
  BY <1>1, <1>2, <1>3, <1>4

LEMMA Idling == << >> \notin SendSteps /\ << >> \notin ModeSteps
BY DEF SendSteps, ModeSteps

LEMMA DifferentSteps == SendSteps \intersect ModeSteps = {} /\ <<"ready">> \notin ModeSteps
<1>1. /\ <<"fill", "toggle", "ready">> \notin ModeSteps
      /\ <<"toggle", "ready">> \notin ModeSteps
      /\ <<"ready">> \notin ModeSteps
  BY DEF ModeSteps
<1> QED
  BY <1>1 DEF SendSteps

LEMMA OtherMethodKeeps ==
  ASSUME OtherMethod
  PROVE  /\ doing = << >> /\ doing' \notin SendSteps /\ doing' \notin ModeSteps
         /\ UNCHANGED <<packets, defaultPacket, smActive, isServiceModePacket, sending, onAir>>
         /\ smRepeatsRemaining' = 0 \/ smRepeatsRemaining' = smRepeatsRemaining
<1>1. /\ doing = << >>
      /\ doing' \in {<< >>, Defaults, DefaultsAndPin, <<"idle", "reset", "attach", "off">>}
  BY DEF OtherMethod, stopServiceModeRepeats, setPreambleLength, setRailCom, setRailComGapInAux,
       StopOutputSignal, RunOutputSignal, SwitchOutputSignal, setRailComActiveOnAux, Call
<1>2. doing' \notin SendSteps /\ doing' \notin ModeSteps
  BY <1>1, OtherSteps
<1>3. /\ UNCHANGED <<packets, defaultPacket, smActive, isServiceModePacket, sending, onAir>>
      /\ smRepeatsRemaining' = 0 \/ smRepeatsRemaining' = smRepeatsRemaining
  BY DEF OtherMethod, stopServiceModeRepeats, setPreambleLength, setRailCom, setRailComGapInAux,
       StopOutputSignal, RunOutputSignal, SwitchOutputSignal, sm
<1> QED
  BY <1>1, <1>2, <1>3

LEMMA OtherStepKeeps ==
  ASSUME TypeOK, DoingOK, OtherStep
  PROVE  /\ doing \notin SendSteps /\ doing \notin ModeSteps
         /\ doing' \notin SendSteps /\ doing' \notin ModeSteps
         /\ UNCHANGED <<canAcceptPacket, sendPacketIndex, isrPacketIndex, userPacketReady>>
         /\ UNCHANGED <<sm, sending, onAir>>
         /\ \A b \in UserBuffer : buffer'[b] = buffer[b]
<1>1. Step("idle") \/ Step("reset") \/ Step("attach") \/ Step("off")
  BY DEF OtherStep, PrepareIdlePacket, PrepareResetPacket, AttachAux, WriteOff
<1>2. doing \notin SendSteps /\ doing \notin ModeSteps
  BY <1>1, StepsInTurn DEF SendSteps, ModeSteps
<1>3. doing' \notin SendSteps /\ doing' \notin ModeSteps
  BY <1>1, StepsInTurn DEF SendSteps, ModeSteps
<1>4. /\ UNCHANGED <<canAcceptPacket, sendPacketIndex, isrPacketIndex, userPacketReady>>
      /\ UNCHANGED <<sm, sending, onAir>>
  BY DEF OtherStep, PrepareIdlePacket, PrepareResetPacket, AttachAux, WriteOff, packets
<1>5. \A b \in UserBuffer : buffer'[b] = buffer[b]
  BY DEF OtherStep, PrepareIdlePacket, PrepareResetPacket, AttachAux, WriteOff, packets, TypeOK,
       UserBuffer, Buffer
<1> QED
  BY <1>2, <1>3, <1>4, <1>5

LEMMA TheOther ==
  ASSUME TypeOK
  PROVE  /\ Other(sendPacketIndex) \in UserBuffer /\ Other(sendPacketIndex) # sendPacketIndex
         /\ Other(Other(sendPacketIndex)) = sendPacketIndex
         /\ sendPacketIndex \in UserBuffer /\ isrPacketIndex \in UserBuffer
         /\ "idle" \notin UserBuffer /\ "reset" \notin UserBuffer
         /\ defaultPacket \notin UserBuffer
BY DEF TypeOK, UserBuffer, Other

LEMMA SameUses == [Next]_vars => uses' = uses
BY DEF Next, vars, Interrupt, Method, Continue, CutoutStarts, CutoutEnds

(* The alternatives of a step, as far as packets and modes are concerned.    *)
LEMMA NextCases ==
  ASSUME [Next]_vars
  PROVE  \/ StartUserPacket \/ StartDefaultPacket \/ RepeatPacket
         \/ \E p \in Packet : SendBegin(p)
         \/ SendFill \/ SendToggle \/ SendReady
         \/ enterServiceMode \/ leaveServiceMode \/ LeaveInactive \/ UseDefaultPacket
         \/ OtherMethod \/ OtherStep
         \/ UNCHANGED <<packets, sm, doing, sending, onAir>>
BY DEF Next, vars, Interrupt, Method, Continue, CutoutStarts, CutoutEnds, OtherMethod, OtherStep

-----------------------------------------------------------------------------
LEMMA StepSendingOK ==
  ASSUME TypeOK, DoingOK, SendingOK, [Next]_vars
  PROVE  SendingOK'
<1> USE DEF SendingOK
<1>1. CASE doing' \notin SendSteps
  BY <1>1
<1>2. CASE StartUserPacket \/ StartDefaultPacket \/ RepeatPacket
  <2>1. UNCHANGED <<doing, sending, buffer, sendPacketIndex, isServiceModePacket, smActive>>
    BY <1>2 DEF StartUserPacket, StartDefaultPacket, RepeatPacket, transmitNextPacket
  <2> QED
    BY <2>1 DEF BeingSent
<1>3. ASSUME NEW p \in Packet, SendBegin(p) PROVE SendingOK'
  <2>1. doing' = <<"fill", "toggle", "ready">> /\ sending' = p
    BY <1>3 DEF SendBegin, Call
  <2> QED
    BY <2>1 DEF BeingSent
<1>4. CASE SendFill
  <2>1. doing = <<"fill", "toggle", "ready">> /\ doing' = <<"toggle", "ready">>
    BY <1>4, StepsInTurn DEF SendFill
  <2>2. buffer'[sendPacketIndex].packet = sending /\ sendPacketIndex' = sendPacketIndex
    BY <1>4 DEF SendFill, Filled, TypeOK, Buffer, UserBuffer
  <2>3. BeingSent' = sending /\ BeingSent = sending
    BY <2>1, <2>2 DEF BeingSent
  <2>4. sending \in Packet
    BY <2>1, <2>3 DEF SendSteps
  <2>5. isServiceModePacket' <=> smActive /\ sending \in ServicePacket
    BY Zenon, <1>4 DEF SendFill
  <2>6. smActive' = smActive
    BY <1>4 DEF SendFill
  <2> QED
    BY <2>3, <2>4, <2>5, <2>6
<1>5. CASE SendToggle
  <2>1. doing = <<"toggle", "ready">> /\ doing' = <<"ready">>
    BY <1>5, StepsInTurn DEF SendToggle
  <2>2. BeingSent' = BeingSent
    BY <1>5, <2>1, TheOther DEF SendToggle, BeingSent
  <2> QED
    BY <1>5, <2>1, <2>2 DEF SendToggle, sm, SendSteps
<1>6. CASE SendReady
  BY <1>1, <1>6, StepsInTurn, Idling DEF SendReady
<1>7. CASE enterServiceMode \/ leaveServiceMode \/ LeaveInactive \/ UseDefaultPacket
  <2>1. doing' \in ModeSteps \/ doing' = << >>
    BY <1>7, StepsInTurn DEF enterServiceMode, leaveServiceMode, LeaveInactive,
         UseDefaultPacket, Call, ModeSteps
  <2> QED
    BY <1>1, <2>1, Idling, DifferentSteps
<1>8. CASE OtherMethod \/ OtherStep
  BY <1>1, <1>8, OtherMethodKeeps, OtherStepKeeps
<1>9. CASE UNCHANGED <<packets, sm, doing, sending, onAir>>
  BY <1>9 DEF packets, sm, BeingSent
<1> QED
  BY <1>2, <1>3, <1>4, <1>5, <1>6, <1>7, <1>8, <1>9, NextCases

LEMMA StepModeOK ==
  ASSUME TypeOK, DoingOK, ModeOK, [Next]_vars
  PROVE  ModeOK'
<1> USE DEF ModeOK
<1>1. ASSUME doing \notin ModeSteps, doing' \notin ModeSteps,
             UNCHANGED <<smActive, defaultPacket>>
      PROVE  ModeOK'
  BY <1>1 DEF ModeSteps
<1>2. CASE StartUserPacket \/ StartDefaultPacket \/ RepeatPacket
  BY <1>2 DEF StartUserPacket, StartDefaultPacket, RepeatPacket, transmitNextPacket
<1>3. CASE (\E p \in Packet : SendBegin(p)) \/ SendFill \/ SendToggle \/ SendReady
  <2>1. doing \in SendSteps \union {<< >>} /\ doing' \in SendSteps \union {<< >>}
    BY <1>3, StepsInTurn DEF SendBegin, SendFill, SendToggle, SendReady, Call, SendSteps
  <2>2. doing \notin ModeSteps /\ doing' \notin ModeSteps
    BY <2>1, Idling, DifferentSteps
  <2> QED
    BY <1>1, <1>3, <2>2 DEF SendBegin, SendFill, SendToggle, SendReady, sm
<1>4. CASE enterServiceMode
  <2>1. doing' = <<"useReset">> /\ smActive'
    BY Zenon, <1>4 DEF enterServiceMode, Call
  <2> QED
    BY <2>1 DEF ModeSteps
<1>5. CASE leaveServiceMode
  <2>1. doing' = <<"inactive", "useIdle">> /\ smActive'
    BY Zenon, <1>5 DEF leaveServiceMode, Call
  <2> QED
    BY <2>1 DEF ModeSteps
<1>6. CASE LeaveInactive
  <2>1. doing' = <<"useIdle">>
    BY <1>6, StepsInTurn DEF LeaveInactive
  <2>2. ~smActive'
    BY Zenon, <1>6 DEF LeaveInactive
  <2> QED
    BY <2>1, <2>2 DEF ModeSteps
<1>7. CASE UseDefaultPacket
  <2>1. smActive' = smActive
    BY <1>7 DEF UseDefaultPacket
  <2>2. CASE Step("useReset") /\ defaultPacket' = "reset"
    BY <2>1, <2>2, StepsInTurn, Idling
  <2>3. CASE Step("useIdle") /\ defaultPacket' = "idle"
    BY <2>1, <2>3, StepsInTurn, Idling
  <2> QED
    BY <1>7, <2>2, <2>3 DEF UseDefaultPacket
<1>8. CASE OtherMethod
  BY <1>1, <1>8, OtherMethodKeeps, Idling
<1>9. CASE OtherStep
  BY <1>1, <1>9, OtherStepKeeps DEF sm
<1>10. CASE UNCHANGED <<packets, sm, doing, sending, onAir>>
  BY <1>10 DEF sm
<1> QED
  BY <1>2, <1>3, <1>4, <1>5, <1>6, <1>7, <1>8, <1>9, <1>10, NextCases

(* A send() that finds nothing waiting fills the buffer that is not on the   *)
(* rails, and the interrupt finds it whole.                                  *)
LEMMA StepWaitingOK ==
  ASSUME TypeOK, DoingOK, WaitingOK, Without({"sendEarly"}), [Next]_vars
  PROVE  WaitingOK'
<1> USE DEF WaitingOK
<1>1. CASE StartUserPacket
  BY <1>1, TheOther DEF StartUserPacket, transmitNextPacket
<1>2. CASE StartDefaultPacket
  BY <1>2, TheOther DEF StartDefaultPacket, transmitNextPacket
<1>3. CASE RepeatPacket
  BY <1>3, TheOther DEF RepeatPacket, transmitNextPacket
<1>4. ASSUME NEW p \in Packet, SendBegin(p) PROVE WaitingOK'
  <2>1. ~userPacketReady /\ doing = << >>
    BY <1>4 DEF SendBegin, Call, Without
  <2> QED
    BY <1>4, <2>1 DEF SendBegin
<1>5. CASE SendFill
  <2>1. ~userPacketReady /\ doing # <<"ready">>
    BY <1>5, StepsInTurn DEF SendFill, SendSteps
  <2> QED
    BY <1>5, <2>1 DEF SendFill
<1>6. CASE SendToggle
  <2>1. ~userPacketReady /\ doing' = <<"ready">>
    BY <1>6, StepsInTurn DEF SendToggle, SendSteps
  <2> QED
    BY <1>6, <2>1 DEF SendToggle
<1>7. CASE SendReady
  BY <1>7, StepsInTurn, Idling DEF SendReady
<1>8. ASSUME UNCHANGED <<sendPacketIndex, isrPacketIndex, userPacketReady, onAir>>,
             doing' \notin SendSteps, doing # <<"ready">>
      PROVE  WaitingOK'
  BY <1>8
<1>9. CASE enterServiceMode \/ leaveServiceMode \/ LeaveInactive \/ UseDefaultPacket
  <2>1. doing' \in ModeSteps \/ doing' = << >>
    BY <1>9, StepsInTurn DEF enterServiceMode, leaveServiceMode, LeaveInactive,
         UseDefaultPacket, Call, ModeSteps
  <2>2. doing # <<"ready">>
    BY <1>9, StepsInTurn DEF enterServiceMode, leaveServiceMode, LeaveInactive,
         UseDefaultPacket, Call
  <2> QED
    BY <1>8, <1>9, <2>1, <2>2, Idling, DifferentSteps
    DEF enterServiceMode, leaveServiceMode, LeaveInactive, UseDefaultPacket, packets
<1>10. CASE OtherMethod
  BY <1>8, <1>10, OtherMethodKeeps DEF packets
<1>11. CASE OtherStep
  BY <1>8, <1>11, OtherStepKeeps DEF SendSteps
<1>12. CASE UNCHANGED <<packets, sm, doing, sending, onAir>>
  BY <1>12 DEF packets
<1> QED
  BY <1>1, <1>2, <1>3, <1>4, <1>5, <1>6, <1>7, <1>9, <1>10, <1>11, <1>12, NextCases

(* A packet is repeated in Service Mode only, and leaving it ends that first. *)
LEMMA StepRepeatsOK ==
  ASSUME TypeOK, DoingOK, SendingOK, ModeOK, RepeatsOK, Without({"leaveEarly"}), [Next]_vars
  PROVE  RepeatsOK'
<1> USE DEF RepeatsOK
<1> DEFINE Leaving == {<<"inactive", "useIdle">>, <<"useIdle">>}
<1>1. Leaving \subseteq ModeSteps
  BY DEF ModeSteps
<1>2. CASE StartUserPacket
  <2>1. UNCHANGED <<doing, smActive, isServiceModePacket>> /\ onAir' = isrPacketIndex'
    BY <1>2 DEF StartUserPacket, transmitNextPacket
  <2>2. userPacketReady /\ ~userPacketReady' /\ smRepeatsRemaining = 0
    BY <1>2 DEF StartUserPacket, isServiceModeRepeating, TypeOK
  <2>3. smRepeatsRemaining' > 0 => isServiceModePacket
    BY <1>2, <2>2 DEF StartUserPacket
  <2> QED
    BY <2>1, <2>2, <2>3
<1>3. CASE StartDefaultPacket
  <2>1. UNCHANGED <<doing, smActive, isServiceModePacket, userPacketReady, smRepeatsRemaining>>
    BY <1>3 DEF StartDefaultPacket, transmitNextPacket
  <2>2. smRepeatsRemaining = 0
    BY <1>3 DEF StartDefaultPacket, isServiceModeRepeating, TypeOK
  <2> QED
    BY <2>1, <2>2
<1>4. CASE RepeatPacket
  <2>1. UNCHANGED <<doing, smActive, isServiceModePacket, userPacketReady, isrPacketIndex>>
    BY <1>4 DEF RepeatPacket, transmitNextPacket
  <2>2. smRepeatsRemaining > 0 /\ smActive /\ onAir' = isrPacketIndex
    BY <1>4 DEF RepeatPacket, isServiceModeRepeating, transmitNextPacket
  <2> QED
    BY <2>1, <2>2
<1>5. CASE (\E p \in Packet : SendBegin(p)) \/ SendFill \/ SendToggle \/ SendReady
  <2>1. doing' \in SendSteps \union {<< >>}
    BY <1>5, StepsInTurn DEF SendBegin, SendFill, SendToggle, SendReady, Call, SendSteps
  <2>2. doing' \notin Leaving
    BY <1>1, <2>1, Idling, DifferentSteps
  <2>3. UNCHANGED <<smActive, smRepeatsRemaining, onAir, isrPacketIndex>>
    BY <1>5 DEF SendBegin, SendFill, SendToggle, SendReady, sm
  <2>4. userPacketReady' /\ isServiceModePacket' => smActive
    <3>1. ASSUME NEW p \in Packet, SendBegin(p)
          PROVE  UNCHANGED <<userPacketReady, isServiceModePacket>>
      BY <3>1 DEF SendBegin, sm
    <3>2. CASE SendFill
      BY Zenon, <3>2 DEF SendFill
    <3>3. CASE SendToggle
      BY <3>3 DEF SendToggle, sm
    <3>4. CASE SendReady
      <4>1. doing = <<"ready">> /\ isServiceModePacket' = isServiceModePacket
        BY <3>4, StepsInTurn DEF SendReady, sm
      <4> QED
        BY <4>1 DEF SendingOK, SendSteps
    <3> QED
      BY <1>5, <3>1, <3>2, <3>3, <3>4
  <2> QED
    BY <2>2, <2>3, <2>4
<1>6. CASE enterServiceMode
  <2>1. doing' = <<"useReset">> /\ smActive'
    BY Zenon, <1>6 DEF enterServiceMode, Call
  <2> QED
    BY <1>6, <2>1 DEF enterServiceMode, packets
<1>7. CASE leaveServiceMode
  <2>1. ~userPacketReady /\ ~userPacketReady' /\ smRepeatsRemaining' = 0
    BY <1>7 DEF leaveServiceMode, packets, Without
  <2> QED
    BY <2>1
<1>8. CASE LeaveInactive
  <2>1. doing = <<"inactive", "useIdle">>
    BY <1>8, StepsInTurn DEF LeaveInactive
  <2> QED
    BY <1>8, <2>1 DEF LeaveInactive, packets
<1>9. CASE UseDefaultPacket
  <2>1. doing' = << >>
    BY <1>9, StepsInTurn DEF UseDefaultPacket
  <2> QED
    BY <1>1, <1>9, <2>1, Idling DEF UseDefaultPacket, packets
<1>10. CASE OtherMethod
  BY <1>1, <1>10, OtherMethodKeeps DEF packets
<1>11. CASE OtherStep
  BY <1>1, <1>11, OtherStepKeeps DEF sm
<1>12. CASE UNCHANGED <<packets, sm, doing, sending, onAir>>
  BY <1>12 DEF packets, sm
<1> QED
  BY <1>2, <1>3, <1>4, <1>5, <1>6, <1>7, <1>8, <1>9, <1>10, <1>11, <1>12, NextCases

LEMMA InitIInv == Init => IInv
<1> SUFFICES ASSUME Init PROVE IInv
  OBVIOUS
<1>1. TypeOK
  BY InitTypeOK
<1>2. doing = << >>
  BY DEF Init
<1>3. DoingOK /\ SendingOK
  BY <1>2, Idling DEF DoingOK, SendingOK
<1>4. AuxOK
  <2>1. auxPin = IF railComAllowedOnAux THEN "PIO" ELSE "SIO"
    BY Zenon DEF Init
  <2>2. sioLevel = IF "activeHigh" \in uses THEN "on" ELSE "off"
    BY Zenon DEF Init
  <2>3. "gapWhileOff" \notin uses => ~railComAllowedOnAux
    BY DEF Init
  <2>4. << >> \notin AttachSteps /\ << >> \notin StopSteps
    BY DEF AttachSteps, StopSteps
  <2> QED
    BY <1>2, <2>1, <2>2, <2>3, <2>4 DEF AuxOK, Without
<1>5. WaitingOK /\ RepeatsOK
  BY <1>2, Idling DEF Init, WaitingOK, RepeatsOK
<1>6. ModeOK
  BY <1>2 DEF Init, ModeOK
<1> QED
  BY <1>1, <1>3, <1>4, <1>5, <1>6 DEF IInv

LEMMA StepIInv == IInv /\ [Next]_vars => IInv'
<1> SUFFICES ASSUME IInv, [Next]_vars PROVE IInv'
  OBVIOUS
<1>1. TypeOK /\ DoingOK /\ AuxOK /\ SendingOK /\ ModeOK
  BY DEF IInv
<1>2. TypeOK' /\ DoingOK' /\ AuxOK' /\ SendingOK' /\ ModeOK'
  BY <1>1, StepTypeOK, StepDoingOK, StepAuxOK, StepSendingOK, StepModeOK
<1>3. Without({"sendEarly"})' => WaitingOK'
  BY <1>1, SameUses, StepWaitingOK DEF IInv, Without
<1>4. Without({"leaveEarly"})' => RepeatsOK'
  BY <1>1, SameUses, StepRepeatsOK DEF IInv, Without
<1> QED
  BY <1>2, <1>3, <1>4 DEF IInv

LEMMA SpecIInv == Spec => []IInv
  BY InitIInv, StepIInv, PTL DEF Spec

(* Every variable keeps its type.                                            *)
THEOREM EngineTypeOK == Spec => []TypeOK
  BY SpecIInv, PTL DEF IInv

(* StopOutputSignal() takes the AUX pin from the RailCom state machine       *)
(* before it switches the H-bridge off, and no method gives it back: the     *)
(* bridge stays off, for every program that sets the RailCom gap on AUX only *)
(* while the output runs, on a board without an inverted AUX.                *)
THEOREM StoppedOutputStaysOff == Spec => []OffMeansOff
<1>1. IInv => OffMeansOff
  BY DEF IInv, AuxOK, OffMeansOff, AuxOn, AttachSteps, StopSteps
<1> QED
  BY <1>1, SpecIInv, PTL

(* Wherever the interrupt breaks into a method, send() fills the one of its  *)
(* two buffers that is not on the rails, as long as it is not called while a *)
(* packet waits: the one it takes by turns is never the one that waits or is *)
(* repeated.                                                                 *)
THEOREM FilledBufferIsFree == Spec => []SentBufferFree
<1>1. IInv => SentBufferFree
  <2> SUFFICES ASSUME IInv, Without({"sendEarly"}), onAir \in Written \intersect UserBuffer
               PROVE  FALSE
    BY DEF SentBufferFree
  <2>1. CASE doing = <<"fill", "toggle", "ready">>
    <3>1. onAir = sendPacketIndex
      <4>1. doing # << >> /\ Head(doing) = "fill"
        BY <2>1
      <4>2. "fill" \notin Buffer
        BY DEF Buffer, UserBuffer
      <4> QED
        BY <4>1, <4>2 DEF Written
    <3>2. doing # <<"ready">> /\ doing \in SendSteps
      BY <2>1 DEF SendSteps
    <3> QED
      BY <3>1, <3>2 DEF IInv, WaitingOK
  <2>2. CASE doing = << >>
    BY <2>2 DEF Written
  <2>3. CASE doing # << >> /\ doing # <<"fill", "toggle", "ready">>
    <3>1. Head(doing) \in {"toggle", "ready", "idle", "reset", "attach", "off", "useReset",
                           "inactive", "useIdle"}
      BY <2>3 DEF IInv, DoingOK, SendSteps, DefaultSteps, AttachSteps, StopSteps, ModeSteps
    <3> QED
      BY <2>3, <3>1 DEF Written, UserBuffer, Buffer
  <2> QED
    BY <2>1, <2>2, <2>3
<1> QED
  BY <1>1, SpecIInv, PTL

-----------------------------------------------------------------------------
(* The four buffers implement the engine of PacketEngineSpec.                *)
LEMMA InitIsEngineInit == Init => Engine!Init
  BY DEF Init, Engine!Init

(* What the engine of PacketEngineSpec is made of here.                      *)
pending == IF userPacketReady THEN <<buffer[Other(sendPacketIndex)].packet>> ELSE << >>
asService == userPacketReady /\ isServiceModePacket
PacketOnAir == CASE onAir = "idle" -> Idle
                 [] onAir = "reset" -> Reset
                 [] OTHER -> buffer[onAir].packet
service == defaultPacket = "reset"

EngineState == <<pending, asService, PacketOnAir, smRepeatsRemaining, service>>

LEMMA NextBufferOnAir ==
  /\ onAir' \in UserBuffer => PacketOnAir' = buffer'[onAir'].packet
  /\ onAir' = "idle" => PacketOnAir' = Idle
  /\ onAir' = "reset" => PacketOnAir' = Reset
BY DEF PacketOnAir, UserBuffer

(* The interrupt takes the packet that waits, or the default packet, unless  *)
(* one is repeated.                                                          *)
LEMMA InterruptIsEngineStep ==
  ASSUME TypeOK, RepeatsOK, StartUserPacket \/ StartDefaultPacket \/ RepeatPacket
  PROVE  Engine!StartNew \/ Engine!StartDefault \/ Engine!Repeat
<1> USE DEF RepeatsOK
<1>1. CASE StartUserPacket
  <2>1. smRepeatsRemaining = 0 /\ pending = <<buffer[Other(sendPacketIndex)].packet>>
    BY <1>1 DEF StartUserPacket, isServiceModeRepeating, pending, TypeOK
  <2>2. pending' = << >>
    BY <1>1 DEF StartUserPacket, pending
  <2>3. PacketOnAir' = buffer[Other(sendPacketIndex)].packet
    BY <1>1, TheOther, NextBufferOnAir DEF StartUserPacket, transmitNextPacket
  <2>4. asService' = FALSE
    BY Zenon, <1>1 DEF StartUserPacket, asService
  <2>5. smRepeatsRemaining' = IF asService THEN SM_REPEATS ELSE 0
    BY <1>1, <2>1 DEF StartUserPacket, asService
  <2>6. service' = service
    BY <1>1 DEF StartUserPacket, transmitNextPacket, service
  <2>7. Head(pending) = buffer[Other(sendPacketIndex)].packet /\ pending # << >>
    BY <2>1
  <2> QED
    BY <2>1, <2>2, <2>3, <2>4, <2>5, <2>6, <2>7
    DEF Engine!StartNew, pending, asService, PacketOnAir, service
<1>2. CASE StartDefaultPacket
  <2>1. smRepeatsRemaining = 0 /\ pending = << >>
    BY <1>2 DEF StartDefaultPacket, isServiceModeRepeating, pending, TypeOK
  <2>2. PacketOnAir' = IF service THEN Reset ELSE Idle
    BY <1>2, NextBufferOnAir DEF StartDefaultPacket, transmitNextPacket, TypeOK, service
  <2>3. UNCHANGED <<pending, asService, smRepeatsRemaining, service>>
    BY <1>2 DEF StartDefaultPacket, transmitNextPacket, pending, asService, service
  <2> QED
    BY <2>1, <2>2, <2>3 DEF Engine!StartDefault, pending, asService, PacketOnAir, service
<1>3. CASE RepeatPacket
  <2>1. smRepeatsRemaining > 0 /\ smRepeatsRemaining' = smRepeatsRemaining - 1
    BY <1>3 DEF RepeatPacket, isServiceModeRepeating
  <2>2. UNCHANGED <<buffer, onAir>>
    BY <1>3, <2>1 DEF RepeatPacket, transmitNextPacket
  <2>3. UNCHANGED <<pending, asService, PacketOnAir, service>>
    BY <1>3, <2>2 DEF RepeatPacket, transmitNextPacket, pending, asService, PacketOnAir, service
  <2> QED
    BY <2>1, <2>3 DEF Engine!Repeat, pending, asService, PacketOnAir, service
<1> QED
  BY <1>1, <1>2, <1>3

(* The last step of send() hands the packet over, nobody sees the others.    *)
LEMMA SendIsEngineStep ==
  ASSUME TypeOK, DoingOK, SendingOK, ModeOK, WaitingOK, SendFill \/ SendToggle \/ SendReady
  PROVE  (\E p \in Packet : Engine!Send(p)) \/ UNCHANGED EngineState
<1> USE DEF EngineState, pending, asService, PacketOnAir, service
<1>1. CASE SendReady
  <2>1. doing = <<"ready">>
    BY <1>1, StepsInTurn DEF SendReady
  <2>2. ~userPacketReady
    BY <2>1 DEF WaitingOK, SendSteps
  <2>3. buffer[Other(sendPacketIndex)].packet = BeingSent
    BY <2>1 DEF BeingSent
  <2>4. BeingSent \in Packet /\ (isServiceModePacket <=> smActive /\ BeingSent \in ServicePacket)
    BY <2>1 DEF SendingOK, SendSteps
  <2>5. pending = << >> /\ pending' = <<BeingSent>>
    BY <1>1, <2>2, <2>3 DEF SendReady
  <2>6. service <=> smActive
    BY <2>1, DifferentSteps DEF ModeOK
  <2>7. asService' = (service /\ BeingSent \in ServicePacket)
    <3>1. userPacketReady' = TRUE /\ isServiceModePacket' = isServiceModePacket
      BY Zenon, <1>1 DEF SendReady, sm
    <3> QED
      BY Zenon, <2>4, <2>6, <3>1
  <2>8. UNCHANGED <<PacketOnAir, smRepeatsRemaining, service>>
    BY <1>1 DEF SendReady, sm
  <2> QED
    BY <2>4, <2>5, <2>7, <2>8 DEF Engine!Send
<1>2. CASE SendFill
  <2>1. doing = <<"fill", "toggle", "ready">> /\ doing # <<"ready">>
    BY <1>2, StepsInTurn DEF SendFill
  <2>2. ~userPacketReady /\ onAir # sendPacketIndex
    BY <2>1 DEF WaitingOK, SendSteps
  <2>3. buffer'[onAir] = buffer[onAir] /\ onAir' = onAir
    BY <1>2, <2>2 DEF SendFill, TypeOK
  <2>4. userPacketReady' = userPacketReady
    BY <1>2 DEF SendFill
  <2>5. UNCHANGED <<pending, asService>>
    <3>1. pending' = pending
      BY <2>2, <2>4
    <3>2. asService' = asService
      BY Zenon, <2>2, <2>4
    <3> QED
      BY <3>1, <3>2
  <2>6. UNCHANGED <<PacketOnAir, smRepeatsRemaining, service>>
    BY <1>2, <2>3 DEF SendFill
  <2> QED
    BY <2>5, <2>6
<1>3. CASE SendToggle
  <2>1. ~userPacketReady
    BY <1>3, StepsInTurn DEF SendToggle, WaitingOK, SendSteps
  <2> QED
    BY <1>3, <2>1 DEF SendToggle, sm
<1> QED
  BY <1>1, <1>2, <1>3

(* The mode of the engine is that of the default packet.                     *)
LEMMA MethodIsEngineStep ==
  ASSUME TypeOK, DoingOK, RepeatsOK,
         \/ \E p \in Packet : SendBegin(p)
         \/ enterServiceMode \/ leaveServiceMode \/ LeaveInactive \/ UseDefaultPacket
         \/ OtherMethod \/ OtherStep
  PROVE  Engine!Enter \/ Engine!Leave \/ Engine!StopRepeats \/ UNCHANGED EngineState
<1> USE DEF EngineState, pending, asService, PacketOnAir, service
<1>1. ASSUME UNCHANGED <<packets, isServiceModePacket, onAir>>
      PROVE  UNCHANGED <<pending, asService, PacketOnAir>>
  <2>1. UNCHANGED <<pending, PacketOnAir>>
    BY <1>1 DEF packets
  <2>2. UNCHANGED asService
    BY <1>1 DEF packets
  <2> QED
    BY <2>1, <2>2
<1>2. ASSUME NEW p \in Packet, SendBegin(p) PROVE UNCHANGED EngineState
  <2>1. UNCHANGED <<buffer, sendPacketIndex, userPacketReady, sm, onAir>>
    BY <1>2 DEF SendBegin
  <2> QED
    BY <2>1 DEF sm
<1>3. CASE enterServiceMode \/ LeaveInactive
  BY <1>1, <1>3 DEF enterServiceMode, LeaveInactive
<1>4. CASE leaveServiceMode
  BY <1>1, <1>4 DEF leaveServiceMode, Engine!StopRepeats
<1>5. CASE UseDefaultPacket
  <2>1. UNCHANGED <<pending, asService, PacketOnAir, smRepeatsRemaining>>
    BY <1>1, <1>5 DEF UseDefaultPacket
  <2>2. CASE Step("useReset") /\ defaultPacket' = "reset"
    BY <2>1, <2>2 DEF Engine!Enter
  <2>3. CASE Step("useIdle") /\ defaultPacket' = "idle"
    <3>1. doing = <<"useIdle">>
      BY <2>3, StepsInTurn
    <3>2. smRepeatsRemaining = 0
      BY <3>1 DEF RepeatsOK
    <3> QED
      BY <2>1, <2>3, <3>2 DEF Engine!Leave
  <2> QED
    BY <1>5, <2>2, <2>3 DEF UseDefaultPacket
<1>6. CASE OtherMethod
  <2>1. UNCHANGED <<pending, asService, PacketOnAir, service>>
    BY <1>1, <1>6, OtherMethodKeeps
  <2>2. smRepeatsRemaining' = 0 \/ smRepeatsRemaining' = smRepeatsRemaining
    BY <1>6, OtherMethodKeeps
  <2> QED
    BY <2>1, <2>2 DEF Engine!StopRepeats
<1>7. CASE OtherStep
  <2>1. /\ UNCHANGED <<sendPacketIndex, userPacketReady, sm, onAir>>
        /\ \A b \in UserBuffer : buffer'[b] = buffer[b]
    BY <1>7, OtherStepKeeps
  <2>2. pending' = pending
    BY <2>1, TheOther
  <2>3. PacketOnAir' = PacketOnAir
    BY <2>1 DEF TypeOK, Buffer
  <2>4. UNCHANGED <<asService, smRepeatsRemaining, service>>
    BY <2>1 DEF sm
  <2> QED
    BY <2>2, <2>3, <2>4
<1> QED
  BY <1>2, <1>3, <1>4, <1>5, <1>6, <1>7

LEMMA StepIsEngineStep ==
  IInv /\ [Next]_vars =>
    [Without({"sendEarly", "leaveEarly"}) => Engine!Next]_Engine!vars
<1> SUFFICES ASSUME IInv, [Next]_vars, Without({"sendEarly", "leaveEarly"})
             PROVE  Engine!Next \/ UNCHANGED EngineState
  BY DEF Engine!vars, EngineState, pending, asService, PacketOnAir, service
<1>1. TypeOK /\ DoingOK /\ SendingOK /\ ModeOK /\ WaitingOK /\ RepeatsOK
  BY DEF IInv, Without
<1>2. CASE StartUserPacket \/ StartDefaultPacket \/ RepeatPacket
  BY <1>1, <1>2, InterruptIsEngineStep DEF Engine!Next
<1>3. CASE SendFill \/ SendToggle \/ SendReady
  BY <1>1, <1>3, SendIsEngineStep DEF Engine!Next
<1>4. CASE \/ \E p \in Packet : SendBegin(p)
           \/ enterServiceMode \/ leaveServiceMode \/ LeaveInactive \/ UseDefaultPacket
           \/ OtherMethod \/ OtherStep
  BY <1>1, <1>4, MethodIsEngineStep DEF Engine!Next
<1>5. CASE UNCHANGED <<packets, sm, doing, sending, onAir>>
  BY <1>5 DEF packets, sm, EngineState, pending, asService, PacketOnAir, service
<1> QED
  BY <1>2, <1>3, <1>4, <1>5, NextCases

(* The packets that the DMA reads are those that PacketEngineSpec promises,  *)
(* on both boards, whatever the methods do to the default packets and the    *)
(* AUX pin meanwhile, and wherever the interrupt breaks into a method, for    *)
(* every program that calls neither send() nor leaveServiceMode() while a    *)
(* packet waits.                                                             *)
THEOREM PacketBuffersImplementEngine == Spec => ImplementsEngine
  BY InitIsEngineInit, StepIsEngineStep, SpecIInv, PTL DEF Spec, ImplementsEngine
=============================================================================
